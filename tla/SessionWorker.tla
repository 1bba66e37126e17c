--------------------------- MODULE SessionWorker ---------------------------
(***************************************************************************)
(* One conversation's session worker (worker/): which turn runs next, what *)
(* a Stop stops, and when the process may go.  Windows submit prompts and  *)
(* press Stop, background shells end and owe the model a notification, the *)
(* saved queue is drained, and a newer build, an idle hour or a signal     *)
(* ends the process.                                                       *)
(*                                                                         *)
(* One process, one thread: an action is what a handler does between two   *)
(* of its awaits.  What a turn does inside is LiveInput's; here it claims  *)
(* its entry, works, saves and settles.                                    *)
(***************************************************************************)
EXTENDS Naturals, Sequences, FiniteSets

CONSTANTS Prompts,    \* what people submit
          NeedWindow, \* those only a window can start (turnNeedsWindow)
          Notes,      \* ends of background shells, owed to the model
          None,       \* no entry
          MaxStops,   \* bound: how often Stop is pressed
          May         \* what may happen besides, of the following

\* A throw runTurn did not foresee; a signal; a hard Stop that outlasts the
\* turn it ends; a Stop of the vendor's background work while a turn starts or
\* is closing; a turn that runs whole within one read of the state.
Besides == {"throw", "signal", "slowStop", "bgStopInTurn", "slowRead"}

ASSUME SessionWorkerAssumption ==
         /\ None \notin Prompts \cup Notes /\ Prompts \cap Notes = {}
         /\ NeedWindow \subseteq Prompts
         /\ MaxStops \in Nat /\ May \subseteq Besides

VARIABLES
  attached,      \* whether any window is attached
  sub,           \* where each prompt's submit is, or how it was answered
  queue,         \* the saved queue
  turn,          \* how far the running turn is
  doing,         \* what it runs
  claims,        \* whether that came from the queue (activeQueuedTurnId)
  outcome,       \* how the last turn ended
  workDone,      \* turnWorkDone
  aborted,       \* activeController's signal
  forced,        \* forceStop was called before the turn could hear it
  agentsOpen,    \* whether the turn has sub-agents running
  agentAsked,    \* whether its Stop was held back for them (agentStopAsked)
  stopAnnounced, pendingCancel, lastTurnStopped,   \* as in WorkerContext
  escalation,    \* whether the running turn's stopEscalation is armed
  hardStop,      \* whether a hard Stop is under way
  stopping,      \* whether the windows show `stopping`
  stops,         \* how often Stop was pressed
  background,    \* whether the vendor works on between turns
  bgStop,        \* whether a Stop of that is under way
  shell,         \* each background shell
  notifications, \* agentSession.notifications
  recording,     \* those taken and being queued
  drain,         \* drainQueue (draining is drain # "idle")
  head,          \* the head of the queue it read
  idleTimer, idleWait, retireWhenIdle,
  retire,        \* what a decision to be replaced waits for
  shutting, why, gone

turnVars == <<turn, doing, claims, outcome, workDone, aborted, forced,
              lastTurnStopped>>
stopVars == <<stopAnnounced, pendingCancel, escalation, hardStop, stopping,
              stops, agentsOpen, agentAsked, bgStop>>
noteVars == <<shell, notifications, recording>>
drainVars == <<drain, head>>
exitVars == <<idleTimer, idleWait, retireWhenIdle, retire, shutting, why,
              gone>>
vars == <<attached, sub, queue, turnVars, stopVars, background, noteVars,
          drainVars, exitVars>>

Entries == Prompts \cup Notes
In(q) == {q[i] : i \in DOMAIN q}

\* consumeSessionTurn: the entry is taken out; no two have the same id.
Without(q, e) ==
  IF e \in In(q)
  THEN LET i == CHOOSE k \in DOMAIN q : q[k] = e
       IN  [j \in 1..(Len(q) - 1) |-> IF j < i THEN q[j] ELSE q[j + 1]]
  ELSE q

\* activeController is set; turnRunning is turn # "none".
Controller == turn \in {"starting", "running", "saving", "settling"}

\* submitsInFlight.
InFlight == {p \in Prompts : sub[p] \in {"cancelling", "looking", "found",
                                         "missing", "enqueueing"}}
Shells == {n \in Notes : shell[n] = "running"}

Init ==
  /\ attached = TRUE /\ queue = <<>>
  /\ sub = [p \in Prompts |-> "none"]
  /\ turn = "none" /\ doing = None /\ claims = FALSE /\ outcome = "none"
  /\ workDone = FALSE /\ aborted = FALSE /\ forced = FALSE
  /\ lastTurnStopped = FALSE
  /\ stopAnnounced = FALSE /\ pendingCancel = FALSE /\ escalation = FALSE
  /\ hardStop = FALSE /\ stopping = FALSE /\ stops = 0
  /\ agentsOpen = FALSE /\ agentAsked = FALSE /\ bgStop = FALSE
  /\ background = FALSE
  /\ shell = [n \in Notes |-> "none"]
  /\ notifications = {} /\ recording = {}
  /\ drain = "reading" /\ head = None
  /\ idleTimer = "none" /\ idleWait = FALSE /\ retireWhenIdle = FALSE
  /\ retire = "no" /\ shutting = FALSE /\ why = "none" /\ gone = FALSE

-----------------------------------------------------------------------------
(* What holds the worker (heldReason), and its idle timer.                 *)

Held(scope) ==
  \/ turn # "none" \/ InFlight # {} \/ (scope = "retire" /\ drain # "idle")
  \/ background
  \/ scope = "idle" /\ attached
  \/ notifications # {}
  \/ Shells # {}

HeldByShellOnly ==
  /\ Shells # {} /\ turn = "none" /\ InFlight = {} /\ ~background
  /\ ~attached /\ notifications = {}

\* scheduleIdleExit, in the state a step leads to.
Schedule == idleTimer' = IF ~Held("idle")' THEN "idle"
                         ELSE IF HeldByShellOnly' THEN "shell" ELSE "none"

-----------------------------------------------------------------------------
(* Starting a turn (startTurn, runTurn).                                   *)

CanStart == turn = "none" /\ ~shutting

\* Until a Stop of the background work is over nothing starts a turn, unless
\* that may happen.
Waits == bgStop /\ CanStart /\ "bgStopInTurn" \notin May

\* A Stop that came before the turn is applied as it starts.
StartTurn(e, queued) ==
  /\ turn' = "starting" /\ doing' = e /\ claims' = queued
  /\ outcome' = "none" /\ workDone' = FALSE /\ forced' = FALSE
  /\ lastTurnStopped' = FALSE
  /\ aborted' = pendingCancel /\ pendingCancel' = FALSE
  /\ agentsOpen' = FALSE /\ agentAsked' = FALSE

NoStart == UNCHANGED <<turnVars, pendingCancel, agentsOpen, agentAsked>>

-----------------------------------------------------------------------------
(* Submits (handleSubmit, and its accounting in worker-commands.ts).       *)

Submit(p) ==
  /\ attached /\ sub[p] = "none"
  /\ sub' = [sub EXCEPT ![p] = IF shutting THEN "retry" ELSE "cancelling"]
  /\ UNCHANGED <<attached, queue, turnVars, stopVars, background, noteVars,
                 drainVars, exitVars>>

\* A window sends the head of the queue as a turn.
SubmitQueued(p) ==
  /\ attached /\ ~shutting /\ p \notin InFlight
  /\ queue # <<>> /\ Head(queue) = p
  /\ ~(turn # "none" /\ claims /\ doing = p)
  /\ sub' = [sub EXCEPT ![p] = "looking"]
  /\ UNCHANGED <<attached, queue, turnVars, stopVars, background, noteVars,
                 drainVars, exitVars>>

\* The state is read; what follows happens when the read is back.
SubmitReads(p) ==
  /\ sub[p] = "looking"
  /\ sub' = [sub EXCEPT ![p] = IF p \in In(queue) THEN "found" ELSE "missing"]
  /\ UNCHANGED <<attached, queue, turnVars, stopVars, background, noteVars,
                 drainVars, exitVars>>

\* Faulty variant: any submit that ends takes the waiting Stop with it.
EndSubmit_Any(p, how) ==
  /\ sub' = [sub EXCEPT ![p] = how]
  /\ IF pendingCancel
     THEN /\ pendingCancel' = FALSE /\ stopping' = FALSE
          /\ stopAnnounced' = (stopAnnounced /\ Controller)
     ELSE UNCHANGED <<pendingCancel, stopping, stopAnnounced>>

\* The submit is answered.  A Stop that waited for a turn of the submits in
\* flight, the last of which became none, has nothing to apply to.
EndSubmit(p, how) ==
  /\ sub' = [sub EXCEPT ![p] = how]
  /\ IF pendingCancel /\ InFlight = {p}
     THEN /\ pendingCancel' = FALSE /\ stopping' = FALSE
          /\ stopAnnounced' = (stopAnnounced /\ Controller)
     ELSE UNCHANGED <<pendingCancel, stopping, stopAnnounced>>

SubmitStarts(p) ==
  /\ sub[p] \in {"cancelling", "found"} /\ CanStart /\ ~Waits
  /\ StartTurn(p, sub[p] = "found")
  /\ sub' = [sub EXCEPT ![p] = "running"] /\ idleTimer' = "none"
  /\ UNCHANGED <<attached, queue, stopAnnounced, escalation, hardStop,
                 stopping, stops, bgStop, background, noteVars, drainVars,
                 idleWait, retireWhenIdle, retire, shutting, why, gone>>

Following(p) == turn # "none" /\ claims /\ doing = p

\* No turn of its own: it is running already, ran before, waits in the queue,
\* or goes to the worker that replaces this one.
SubmitEnds(p) ==
  /\ \/ sub[p] \in {"found", "missing"} /\ Following(p)
        /\ EndSubmit(p, "running")
     \/ sub[p] = "missing" /\ ~Following(p) /\ EndSubmit(p, "gone")
     \/ sub[p] = "found" /\ ~Following(p) /\ ~shutting /\ ~CanStart
        /\ EndSubmit(p, "queued")
     \/ sub[p] \in {"cancelling", "found"} /\ ~Following(p) /\ shutting
        /\ EndSubmit(p, "retry")
  /\ UNCHANGED <<attached, queue, turnVars, escalation, hardStop, stops,
                 agentsOpen, agentAsked, bgStop, background, noteVars,
                 drainVars, exitVars>>

\* Another turn is running: added to the saved queue, behind it.
SubmitWaits(p) ==
  /\ sub[p] = "cancelling" /\ turn # "none" /\ ~shutting
  /\ sub' = [sub EXCEPT ![p] = "enqueueing"]
  /\ UNCHANGED <<attached, queue, turnVars, stopVars, background, noteVars,
                 drainVars, exitVars>>

SubmitQueues(p) ==
  /\ sub[p] = "enqueueing"
  /\ queue' = Append(queue, p)
  /\ EndSubmit(p, "queued")
  /\ UNCHANGED <<attached, turnVars, escalation, hardStop, stops, agentsOpen,
                 agentAsked, bgStop, background, noteVars, drainVars,
                 exitVars>>

-----------------------------------------------------------------------------
(* The queue and what is owed to the model (drainQueue, deliver-           *)
(* Notifications).                                                         *)

DrainReads ==
  /\ drain = "reading" /\ drain' = "read"
  /\ head' = IF queue = <<>> THEN None ELSE Head(queue)
  /\ UNCHANGED <<attached, sub, queue, turnVars, stopVars, background,
                 noteVars, exitVars>>

\* Faulty variant: a Stop does not keep what is queued behind it.
DrainLooks_Stopped ==
  /\ drain = "read" /\ head \in Prompts
  /\ drain' = "checking"
  /\ UNCHANGED <<attached, sub, queue, turnVars, stopVars, background,
                 noteVars, head, exitVars>>

\* A message: the accounts are read too.
DrainLooks ==
  /\ drain = "read" /\ head \in Prompts /\ ~lastTurnStopped
  /\ drain' = "checking"
  /\ UNCHANGED <<attached, sub, queue, turnVars, stopVars, background,
                 noteVars, head, exitVars>>

\* Faulty variant: an empty queue is not looked for.
DrainEnds_Nothing ==
  /\ ~Waits
  /\ \/ drain = "read" /\ (head \in Prompts => lastTurnStopped)
     \/ drain = "checking"
  /\ drain' = "idle" /\ head' = None
  /\ IF CanStart /\ head \notin NeedWindow
     THEN StartTurn(head, TRUE) ELSE NoStart
  /\ UNCHANGED <<attached, sub, queue, stopAnnounced, escalation, hardStop,
                 stopping, stops, bgStop, background, noteVars, idleWait,
                 retireWhenIdle, retire, shutting, why, gone>>
  /\ Schedule

\* The head is started, unless it is for a window, or another turn is there.
DrainEnds ==
  /\ ~Waits
  /\ \/ drain = "read" /\ (head \in Prompts => lastTurnStopped)
     \/ drain = "checking"
  /\ drain' = "idle" /\ head' = None
  /\ IF CanStart /\ \/ head \in Notes
                    \/ drain = "checking" /\ head \notin NeedWindow
     THEN StartTurn(head, TRUE) ELSE NoStart
  /\ UNCHANGED <<attached, sub, queue, stopAnnounced, escalation, hardStop,
                 stopping, stops, bgStop, background, noteVars, idleWait,
                 retireWhenIdle, retire, shutting, why, gone>>
  /\ Schedule

ShellStarts(n) ==
  /\ turn = "running" /\ shell[n] = "none"
  /\ shell' = [shell EXCEPT ![n] = "running"]
  /\ UNCHANGED <<attached, sub, queue, turnVars, stopVars, background,
                 notifications, recording, drainVars, exitVars>>

\* A running turn hears of it; with none, what is owed is taken to be queued.
ShellEnds(n) ==
  /\ shell[n] = "running"
  /\ shell' = [shell EXCEPT ![n] = "ended"]
  /\ IF turn # "none"
     THEN notifications' = notifications \cup {n} /\ UNCHANGED recording
     ELSE /\ notifications' = {}
          /\ recording' = recording \cup notifications \cup {n}
  /\ UNCHANGED <<attached, sub, queue, turnVars, stopVars, background,
                 drainVars, exitVars>>

NoteRecorded(n) ==
  /\ n \in recording
  /\ recording' = recording \ {n} /\ queue' = Append(queue, n)
  /\ UNCHANGED <<attached, sub, turnVars, stopVars, background, shell,
                 notifications, head, idleWait, retireWhenIdle, retire,
                 shutting, why, gone>>
  /\ IF turn = "none" /\ drain = "idle"
     THEN drain' = "reading" /\ UNCHANGED idleTimer
     ELSE UNCHANGED drain /\ Schedule

\* The turn's next step takes what is owed (run-turn.ts).
TurnHears ==
  /\ turn = "running" /\ notifications # {}
  /\ notifications' = {}
  /\ UNCHANGED <<attached, sub, queue, turnVars, stopVars, background, shell,
                 recording, drainVars, exitVars>>

-----------------------------------------------------------------------------
(* The turn (createTurnRunner).                                            *)

\* Faulty variant: the announced Stop is not forgotten.
Closes_KeepsFlag(how) ==
  /\ turn' = "closing" /\ outcome' = how
  /\ workDone' = FALSE /\ forced' = FALSE
  /\ UNCHANGED stopAnnounced /\ escalation' = FALSE /\ agentsOpen' = FALSE

\* Faulty variant: the escalation stays armed.
Closes_KeepsTimer(how) ==
  /\ turn' = "closing" /\ outcome' = how
  /\ workDone' = FALSE /\ forced' = FALSE
  /\ stopAnnounced' = FALSE /\ UNCHANGED escalation /\ agentsOpen' = FALSE

\* finalizeTurn, up to its first await.
Closes(how) ==
  /\ turn' = "closing" /\ outcome' = how
  /\ workDone' = FALSE /\ forced' = FALSE
  /\ stopAnnounced' = FALSE /\ escalation' = FALSE /\ agentsOpen' = FALSE

Settles(how) == turn' = "settling" /\ outcome' = how

\* What the turn waited for at its start is over: it runs, and claims its
\* entry, unless it was stopped before that.
TurnBegins ==
  /\ turn = "starting"
  /\ IF aborted \/ forced
     THEN Settles("cancelled") /\ UNCHANGED queue
     ELSE IF claims /\ doing \notin In(queue)
     THEN Settles("failed") /\ UNCHANGED queue
     ELSE /\ turn' = "running"
          /\ queue' = IF claims THEN Without(queue, doing) ELSE queue
          /\ UNCHANGED outcome
  /\ UNCHANGED <<attached, sub, doing, claims, workDone, aborted, forced,
                 lastTurnStopped, stopVars, background, shell, notifications,
                 recording, drainVars, exitVars>>

\* startTurn's own catch, of a throw before the turn's try or out of
\* finalizeTurn: what is owed or queued is not looked for.
RunTurnThrows ==
  /\ "throw" \in May /\ turn \in {"starting", "closing"}
  /\ hardStop => "slowStop" \in May
  /\ turn = "closing" /\ (drain # "idle" \/ idleWait) => "slowRead" \in May
  /\ turn' = "none" /\ doing' = None /\ claims' = FALSE
  /\ workDone' = FALSE /\ forced' = FALSE /\ aborted' = FALSE
  /\ stopAnnounced' = FALSE /\ pendingCancel' = FALSE /\ escalation' = FALSE
  /\ stopping' = FALSE /\ outcome' = "none"
  /\ lastTurnStopped' \in {lastTurnStopped,
                           turn = "closing" /\ outcome = "cancelled"}
  /\ UNCHANGED <<attached, sub, queue, hardStop, stops, agentsOpen, agentAsked,
                 bgStop, background, noteVars, drainVars, idleWait,
                 retireWhenIdle, retire, shutting, why, gone>>
  /\ Schedule

\* Sub-agents of the turn start or end.
SubAgents ==
  /\ turn = "running" /\ agentsOpen' = ~agentsOpen
  /\ UNCHANGED <<attached, sub, queue, turnVars, stopAnnounced, pendingCancel,
                 escalation, hardStop, stopping, stops, agentAsked, bgStop,
                 background, noteVars, drainVars, exitVars>>

\* The vendor leaves work running when the turn ends, and it ends.
VendorGoesOn ==
  /\ turn = "running" /\ ~background /\ background' = TRUE
  /\ UNCHANGED <<attached, sub, queue, turnVars, stopVars, noteVars,
                 drainVars, exitVars>>

BackgroundEnds ==
  /\ background /\ background' = FALSE
  /\ UNCHANGED <<attached, sub, queue, turnVars, stopVars, noteVars,
                 drainVars, idleWait, retireWhenIdle, retire, shutting, why,
                 gone>>
  /\ Schedule

\* onWorkFinished: the vendor is done, the record is being saved.
WorkFinished ==
  /\ turn = "running"
  /\ turn' = "saving" /\ workDone' = TRUE /\ agentsOpen' = FALSE
  /\ UNCHANGED <<attached, sub, queue, doing, claims, outcome, aborted, forced,
                 lastTurnStopped, stopAnnounced, pendingCancel, escalation,
                 hardStop, stopping, stops, agentAsked, bgStop, background,
                 noteVars, drainVars, exitVars>>

\* The turn ends stopped, or it or its save fails.
TurnBreaks(how) ==
  /\ \/ turn = "running" /\ (how = "cancelled" => aborted)
     \/ turn = "saving" /\ how = "failed"
  /\ Settles(how)
  /\ UNCHANGED <<attached, sub, queue, doing, claims, workDone, aborted,
                 forced, lastTurnStopped, stopVars, background, noteVars,
                 drainVars, exitVars>>

\* Saved; or settled, a failed queued turn taken out of the queue.
TurnCloses ==
  /\ \/ turn = "saving" /\ Closes("completed") /\ UNCHANGED queue
     \/ turn = "settling" /\ Closes(outcome)
        /\ queue' = IF outcome = "failed" /\ claims
                    THEN Without(queue, doing) ELSE queue
  /\ UNCHANGED <<attached, sub, doing, claims, aborted, lastTurnStopped,
                 pendingCancel, hardStop, stopping, stops, agentAsked, bgStop,
                 background, noteVars, drainVars, exitVars>>

\* The windows are told; then what is owed, or what is queued next.
EndTurn ==
  /\ turn = "closing"
  /\ hardStop => "slowStop" \in May
  /\ drain # "idle" \/ idleWait => "slowRead" \in May
  /\ turn' = "none" /\ doing' = None /\ claims' = FALSE
  /\ lastTurnStopped' = (outcome = "cancelled")
  /\ outcome' = "none" /\ aborted' = FALSE
  /\ stopping' = FALSE
  /\ recording' = recording \cup notifications /\ notifications' = {}
  /\ drain' = IF notifications = {} /\ drain = "idle" THEN "reading" ELSE drain
  /\ UNCHANGED <<attached, sub, queue, workDone, forced, stopAnnounced,
                 pendingCancel, escalation, hardStop, stops,
                 agentsOpen, agentAsked, bgStop, background, shell, head,
                 idleWait, retireWhenIdle, retire, shutting, why, gone>>
  /\ Schedule

-----------------------------------------------------------------------------
(* Stop (handleCancel, hardStop).                                          *)

\* announceStopping.
Announce == stopAnnounced' = TRUE /\ stopping' = (stopping \/ ~stopAnnounced)

Pressed == attached /\ stops < MaxStops /\ stops' = stops + 1

\* A plain Stop is held back for running sub-agents.
StopHeld ==
  /\ Pressed /\ Controller /\ ~workDone
  /\ agentsOpen /\ ~stopAnnounced /\ ~agentAsked
  /\ agentAsked' = TRUE
  /\ UNCHANGED <<attached, sub, queue, turnVars, stopAnnounced, pendingCancel,
                 escalation, hardStop, stopping, agentsOpen, bgStop,
                 background, noteVars, drainVars, exitVars>>

\* Faulty variant: a Stop that is not honoured is waited for.
StopTurn_NoTimer ==
  /\ Pressed /\ Controller /\ ~workDone
  /\ ~agentsOpen \/ stopAnnounced \/ agentAsked
  /\ agentAsked' = FALSE /\ aborted' = TRUE
  /\ Announce
  /\ IF stopAnnounced /\ aborted
     THEN hardStop' = TRUE /\ UNCHANGED escalation
     ELSE UNCHANGED <<escalation, hardStop>>
  /\ UNCHANGED <<attached, sub, queue, turn, doing, claims, outcome, workDone,
                 forced, lastTurnStopped, pendingCancel, agentsOpen, bgStop,
                 background, noteVars, drainVars, exitVars>>

\* A second one ends the turn by force.
StopTurn ==
  /\ Pressed /\ Controller /\ ~workDone
  /\ ~agentsOpen \/ stopAnnounced \/ agentAsked
  /\ agentAsked' = FALSE /\ aborted' = TRUE
  /\ Announce
  /\ IF stopAnnounced /\ aborted
     THEN hardStop' = TRUE /\ UNCHANGED escalation
     ELSE escalation' = TRUE /\ UNCHANGED hardStop
  /\ UNCHANGED <<attached, sub, queue, turn, doing, claims, outcome, workDone,
                 forced, lastTurnStopped, pendingCancel, agentsOpen, bgStop,
                 background, noteVars, drainVars, exitVars>>

\* No turn yet: the Stop is the submit's turn's, kept until that starts.
StopPending ==
  /\ Pressed /\ ~Controller /\ InFlight # {}
  /\ pendingCancel' = TRUE /\ Announce
  /\ UNCHANGED <<attached, sub, queue, turnVars, escalation, hardStop,
                 agentsOpen, agentAsked, bgStop, background, noteVars,
                 drainVars, exitVars>>

StopBackground ==
  /\ Pressed /\ ~Controller /\ InFlight = {} /\ background
  /\ turn = "none" \/ "bgStopInTurn" \in May
  /\ bgStop' = TRUE /\ Announce
  /\ UNCHANGED <<attached, sub, queue, turnVars, pendingCancel, escalation,
                 hardStop, agentsOpen, agentAsked, background, noteVars,
                 drainVars, exitVars>>

BackgroundStopped ==
  /\ bgStop /\ bgStop' = FALSE /\ background' = FALSE
  /\ stopAnnounced' = (stopAnnounced /\ turn # "none") /\ stopping' = FALSE
  /\ UNCHANGED <<attached, sub, queue, turnVars, pendingCancel, escalation,
                 hardStop, stops, agentsOpen, agentAsked, noteVars, drainVars,
                 idleWait, retireWhenIdle, retire, shutting, why, gone>>
  /\ Schedule

\* The Stop was not honoured in time.
Escalate ==
  /\ escalation /\ Controller
  /\ escalation' = FALSE /\ hardStop' = TRUE
  /\ UNCHANGED <<attached, sub, queue, turnVars, stopAnnounced, pendingCancel,
                 stopping, stops, agentsOpen, agentAsked, bgStop, background,
                 noteVars, drainVars, exitVars>>

\* The vendor is closed; then the turn there is by now is ended as stopped.
HardStopEnds ==
  /\ hardStop /\ hardStop' = FALSE
  /\ IF turn \in {"running", "saving"} THEN Settles("cancelled")
     ELSE UNCHANGED <<turn, outcome>>
  /\ forced' = (forced \/ turn = "starting")
  /\ UNCHANGED <<attached, sub, queue, doing, claims, workDone, aborted,
                 lastTurnStopped, stopAnnounced, pendingCancel, escalation,
                 stopping, stops, agentsOpen, agentAsked, bgStop, background,
                 noteVars, drainVars, exitVars>>

-----------------------------------------------------------------------------
(* Windows come and go, and the worker may go (worker-idle.ts,             *)
(* worker-shutdown.ts).                                                    *)

Attach ==
  /\ ~attached /\ attached' = TRUE /\ idleTimer' = "none"
  /\ UNCHANGED <<sub, queue, turnVars, stopVars, background, noteVars,
                 drainVars, idleWait, retireWhenIdle, retire, shutting, why,
                 gone>>

Detach ==
  /\ attached /\ attached' = FALSE
  /\ UNCHANGED <<sub, queue, turnVars, stopVars, background, noteVars,
                 drainVars, idleWait, retireWhenIdle, retire, shutting, why,
                 gone>>
  /\ Schedule

Shutdown(reason) == /\ shutting' = TRUE
                    /\ why' = IF shutting THEN why ELSE reason

Stays == UNCHANGED <<shutting, why>>

\* idleReached, and what it decides once it knows what the vendor runs.
IdleReached ==
  /\ idleTimer = "idle" /\ idleTimer' = "none" /\ idleWait' = TRUE
  /\ UNCHANGED <<attached, sub, queue, turnVars, stopVars, background,
                 noteVars, drainVars, retireWhenIdle, retire, shutting, why,
                 gone>>

IdleDecides(works) ==
  /\ idleWait /\ idleWait' = FALSE
  /\ IF idleTimer # "none" \/ turn # "none" \/ drain # "idle" \/ attached
     THEN Stays /\ UNCHANGED idleTimer
     ELSE IF works THEN Stays /\ idleTimer' = "idle"
     ELSE Shutdown("idle") /\ UNCHANGED idleTimer
  /\ UNCHANGED <<attached, sub, queue, turnVars, stopVars, background,
                 noteVars, drainVars, retireWhenIdle, retire, gone>>

\* A newer build asks (handleRetire).
RetireAsked ==
  /\ retire = "no"
  /\ IF Held("retire") THEN retireWhenIdle' = TRUE /\ UNCHANGED retire
     ELSE retire' = "asked" /\ UNCHANGED retireWhenIdle
  /\ UNCHANGED <<attached, sub, queue, turnVars, stopVars, background,
                 noteVars, drainVars, idleTimer, idleWait, shutting, why,
                 gone>>

\* At an idle edge, or at the build watch's tick (retireIfFree).
RetireIfFree ==
  /\ retire = "no" /\ ~shutting /\ ~Held("retire")
  /\ retireWhenIdle \/ ~attached
  /\ retire' = "checking"
  /\ UNCHANGED <<attached, sub, queue, turnVars, stopVars, background,
                 noteVars, drainVars, idleTimer, idleWait, retireWhenIdle,
                 shutting, why, gone>>

\* Faulty variant: what holds it is not looked at again.
RetireDecides_Unchecked(works) ==
  /\ retire # "no" /\ retire' = "no"
  /\ IF works
     THEN /\ Stays
          /\ retireWhenIdle' = (retireWhenIdle \/ retire = "asked")
     ELSE Shutdown("replaced") /\ UNCHANGED retireWhenIdle
  /\ UNCHANGED <<attached, sub, queue, turnVars, stopVars, background,
                 noteVars, drainVars, idleTimer, idleWait, gone>>

\* What holds it is looked at again after the wait.
RetireDecides(works) ==
  /\ retire # "no" /\ retire' = "no"
  /\ IF works \/ Held("retire")
     THEN /\ Stays
          /\ retireWhenIdle' = (retireWhenIdle \/ retire = "asked")
     ELSE Shutdown("replaced") /\ UNCHANGED retireWhenIdle
  /\ UNCHANGED <<attached, sub, queue, turnVars, stopVars, background,
                 noteVars, drainVars, idleTimer, idleWait, gone>>

Signal ==
  /\ "signal" \in May /\ ~shutting /\ Shutdown("signal")
  /\ UNCHANGED <<attached, sub, queue, turnVars, stopVars, background,
                 noteVars, drainVars, idleTimer, idleWait, retireWhenIdle,
                 retire, gone>>

\* disposeSessionState: what the session still runs ends, nothing is queued.
Dispose ==
  /\ shutting /\ (Shells # {} \/ notifications # {})
  /\ shell' = [n \in Notes |-> IF n \in Shells THEN "killed" ELSE shell[n]]
  /\ notifications' = {}
  /\ UNCHANGED <<attached, sub, queue, turnVars, stopVars, background,
                 recording, drainVars, exitVars>>

\* The windows are told, and the process ends wherever it was.
Exit ==
  /\ shutting /\ Shells = {} /\ notifications = {}
  /\ gone' = TRUE /\ attached' = FALSE /\ stopping' = FALSE
  /\ UNCHANGED <<sub, queue, turnVars, stopAnnounced, pendingCancel,
                 escalation, hardStop, stops, agentsOpen, agentAsked, bgStop,
                 background, noteVars, drainVars, idleTimer, idleWait,
                 retireWhenIdle, retire, shutting, why>>

-----------------------------------------------------------------------------

\* What the worker does by itself, one fair disjunct each.
Own == \/ DrainReads \/ DrainLooks \/ DrainEnds
       \/ TurnBegins \/ TurnCloses \/ EndTurn
       \/ BackgroundStopped \/ Exit

PromptSteps(p) == SubmitReads(p) \/ SubmitStarts(p) \/ SubmitEnds(p)
                    \/ SubmitWaits(p) \/ SubmitQueues(p)

Decides == \E works \in BOOLEAN : IdleDecides(works) \/ RetireDecides(works)

Outside ==
  \/ Attach \/ Detach \/ Signal \/ RetireAsked \/ RetireIfFree \/ IdleReached
  \/ StopHeld \/ StopTurn \/ StopPending \/ StopBackground
  \/ SubAgents \/ VendorGoesOn \/ BackgroundEnds \/ WorkFinished \/ TurnHears
  \/ RunTurnThrows \/ Dispose
  \/ \E how \in {"cancelled", "failed"} : TurnBreaks(how)
  \/ \E p \in Prompts : Submit(p) \/ SubmitQueued(p)
  \/ \E n \in Notes : ShellStarts(n) \/ ShellEnds(n)

Next ==
  /\ ~gone
  /\ \/ Own \/ Decides \/ Outside \/ Escalate \/ HardStopEnds
     \/ \E p \in Prompts : PromptSteps(p)
     \/ \E n \in Notes : NoteRecorded(n)

Spec == Init /\ [][Next]_vars

\* The worker's own steps go on, and timers fire.  The vendor need not finish
\* its turn, nor honour an abort.
Fairness ==
  /\ WF_vars(~gone /\ (DrainReads \/ DrainLooks \/ DrainEnds))
  /\ WF_vars(~gone /\ (TurnBegins \/ TurnCloses \/ EndTurn))
  /\ WF_vars(~gone /\ BackgroundStopped) /\ WF_vars(~gone /\ Decides)
  /\ WF_vars(~gone /\ Escalate) /\ WF_vars(~gone /\ HardStopEnds)
  /\ \A p \in Prompts : WF_vars(~gone /\ PromptSteps(p))
  /\ \A n \in Notes : WF_vars(~gone /\ NoteRecorded(n))

FairSpec == Spec /\ Fairness

-----------------------------------------------------------------------------
(* Properties.                                                             *)

TurnTypes ==
  /\ turn \in {"none", "starting", "running", "saving", "settling", "closing"}
  /\ doing \in Entries \cup {None} /\ (doing = None <=> turn = "none")
  /\ outcome \in {"none", "completed", "cancelled", "failed"}
  /\ claims \in BOOLEAN /\ workDone \in BOOLEAN /\ aborted \in BOOLEAN
  /\ forced \in BOOLEAN /\ lastTurnStopped \in BOOLEAN

StopTypes ==
  /\ agentsOpen \in BOOLEAN /\ agentAsked \in BOOLEAN
  /\ stopAnnounced \in BOOLEAN /\ pendingCancel \in BOOLEAN
  /\ escalation \in BOOLEAN /\ hardStop \in BOOLEAN /\ stopping \in BOOLEAN
  /\ stops \in 0..MaxStops /\ background \in BOOLEAN /\ bgStop \in BOOLEAN

QueueTypes ==
  /\ sub \in [Prompts -> {"none", "cancelling", "looking", "found", "missing",
                          "enqueueing", "running", "queued", "gone", "retry"}]
  /\ queue \in Seq(Entries)
  /\ shell \in [Notes -> {"none", "running", "ended", "killed"}]
  /\ notifications \subseteq Notes /\ recording \subseteq Notes
  /\ drain \in {"idle", "reading", "read", "checking"}
  /\ head \in Entries \cup {None}
  /\ drain = "checking" => head \in Prompts

ExitTypes ==
  /\ attached \in BOOLEAN /\ idleTimer \in {"none", "idle", "shell"}
  /\ idleWait \in BOOLEAN /\ retireWhenIdle \in BOOLEAN
  /\ retire \in {"no", "asked", "checking"}
  /\ shutting \in BOOLEAN /\ gone \in BOOLEAN
  /\ why \in {"none", "idle", "replaced", "signal"}

TypeOK == TurnTypes /\ StopTypes /\ QueueTypes /\ ExitTypes

\* A turn ends as stopped only if somebody stopped that turn, or a submit it
\* was started from (worker-live-commands.ts, hardStop: "Ends a stopping turn
\* that did not end").
CancelledWasStopped ==
  turn \in {"settling", "closing"} /\ outcome = "cancelled" => aborted

\* `stopAnnounced` is "the running turn's Stop has been accepted"
\* (worker-context.ts): it is of a turn that is stopping, of a Stop that waits
\* for its turn, or of background work, never left over from an earlier one.
StopFlagOwned ==
  stopAnnounced => (Controller /\ aborted) \/ pendingCancel \/ bgStop

\* "A plain Stop must not end running sub-agents: the user is told, and a
\* second Stop confirms" (worker-live-commands.ts, handleCancel): the first
\* Stop of a turn that has some aborts nothing.
AgentsHeldFirst ==
  [][turn = "running" /\ agentsOpen /\ ~aborted /\ aborted' => agentAsked]_vars

\* "A Stop that comes in between is the turn's, kept until it starts"
\* (worker-commands.ts): a Stop that waits is given up only by stopping a turn
\* as it starts, when no submit is left that could become one, or by the catch
\* of a throw nobody foresaw, which ends the turn (worker-queue.ts, startTurn).
PendingStopKept ==
  [][pendingCancel /\ ~pendingCancel' =>
       \/ turn' = "starting" /\ aborted'
       \/ InFlight' = {} \/ RunTurnThrows]_vars

\* "Sending them would look as if the Stop had failed" (queue-next.ts): the
\* worker itself starts no queued message after a stopped turn.
StoppedQueueWaits ==
  [][drain = "checking" /\ drain' = "idle" /\ turn' # turn
       => ~lastTurnStopped]_vars

\* The worker that goes by its own decision holds nothing it is held by
\* (worker-idle.ts, heldReason), though it waited before it decided: replaced,
\* it has no turn, no submit it accepted, nothing the model is owed, no shell;
\* idle, no turn, no queue being drained and no window.
LeavesFree ==
  [][/\ why = "none" /\ why' \in {"idle", "replaced"}
     => /\ turn = "none" /\ drain = "idle"
        /\ why' = "replaced" =>
             InFlight = {} /\ notifications = {} /\ Shells = {}
        /\ why' = "idle" => ~attached]_vars

\* "Replacing it or exiting would lose that work" (worker-idle.ts, heldReason,
\* of "a notification ... the model is owed"): none is on its way to the queue
\* or in it when the worker goes by its own decision; the next worker drops it.
NotesKept ==
  [][why = "none" /\ why' \in {"idle", "replaced"} =>
       recording = {} /\ In(queue) \cap Notes = {}]_vars

\* "A message typed during a turn is sent when it ends even if the window that
\* typed it was closed meanwhile" (worker-queue.ts, drainQueue): with no window
\* open, no message the worker could send waits at the head of the queue while
\* nothing is under way.
NotStranded ==
  /\ ~attached /\ turn = "none" /\ drain = "idle" /\ InFlight = {}
  /\ ~shutting /\ queue # <<>> /\ Head(queue) \in Prompts \ NeedWindow
  => lastTurnStopped

\* A Stop is over some time: the windows do not stay "stopping", whatever the
\* turn does with the abort (worker-live-commands.ts, HARD_STOP_AFTER_MS).
StopAnswered == stopping ~> ~stopping

=============================================================================
