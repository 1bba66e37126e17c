----------------------------- MODULE LiveInput -----------------------------
(***************************************************************************)
(* Messages typed while a turn runs (turn/live-input.ts, LiveTurnInput-    *)
(* Broker), the turn's journal that is its ledger (turn/turn-journal.ts),  *)
(* and the commands that reach them in the session worker (worker/         *)
(* worker-live-commands.ts, worker-turn.ts, worker-queue.ts).              *)
(*                                                                         *)
(* One conversation, its turns one after another.  The saved queue is on   *)
(* disk; a running turn works on the copy it read when it started, and     *)
(* every save merges that copy with what is on disk.  The broker does one  *)
(* job at a time; a take-back does not wait for its turn among them.       *)
(* A save is one step here, though two files are written.                  *)
(*                                                                         *)
(* One process, one thread: what waits only for something already settled  *)
(* goes on before anything else happens (Urgent).                          *)
(***************************************************************************)
EXTENDS Naturals, Sequences, FiniteSets

CONSTANTS Msgs,           \* the messages people type
          None,           \* no message
          MaxTurns,       \* bound: how many turns are started
          MaxJobs,        \* bound: jobs the broker has when another Enter or
                          \* opening adds one
          Overlaps,       \* whether a turn may start while a take-back asked
                          \* for before it is still being written
          Lingers,        \* whether a turn may end while its journal still
                          \* has saves to make (of take-backs, deliveries)
          HardStops,      \* whether a Stop may end the turn by force; the
                          \* attempt it cuts off is silent from then on
          SavesFail       \* whether a write of the state may fail

ASSUME LiveInputAssumption ==
         /\ None \notin Msgs
         /\ MaxTurns \in Nat /\ MaxJobs \in Nat
         /\ Overlaps \in BOOLEAN
         /\ Lingers \in BOOLEAN
         /\ HardStops \in BOOLEAN
         /\ SavesFail \in BOOLEAN

VARIABLES
  turn,      \* how far the running turn is
  active,    \* the queued message the turn runs (activeQueuedTurnId), or None
  outcome,   \* how the last turn ended
  turns,     \* how many turns were started
  bound,     \* whether the broker's ledger is the turn's journal
  pending,   \* whether the journal has a pendingTurn to record steers on
  port,      \* whether the turn has a way to take a message in
  memQ,      \* session.queuedTurns in the turn's copy: the messages in order
  memFlag,   \* those of them with `steer`
  base,      \* the messages in the queue the copy last agreed on with disk
  inTurn,    \* pendingTurn.steers of every turn, as the journal has them
  earlier,   \* those that were on disk when the turn read its copy
  diskQ, diskFlag, savedTurn,   \* the same three on disk
  tail,      \* the broker's jobs, the running one first
  at,        \* where the running job is
  item,      \* the message it is putting into the turn, or None
  saved,     \* what became of the save it waits for
  delivered, \* the messages the broker knows are in the turn
  writes,    \* the journal's chain of saves, by who waits for them
  late,      \* the saves the journals of turns that ended still have
  keeps,     \* whether a stopped turn has something worth keeping
  held,      \* the flagged messages a stopped or failed turn hands back
  stalled,   \* a failed queued turn that could not be taken off, or None
  picked,    \* the messages read off the queue, to be started
  answer,    \* what the window that typed each message was told
  takeback,  \* where the take-back of each message is
  back,      \* the messages that are the user's again
  ran,       \* the messages whose own turn claimed them
  owed       \* those marked for the last turn, which failed without them and
             \* did not hand them back

turnVars == <<turn, active, outcome, turns, bound, pending>>
memVars  == <<memQ, memFlag, base, inTurn>>
diskVars == <<diskQ, diskFlag, savedTurn>>
jobVars  == <<tail, at, item, saved, delivered>>
userVars == <<answer, takeback, back>>
endVars  == <<earlier, late, keeps, held>>
vars == <<turnVars, port, memVars, diskVars, jobVars, writes, endVars,
          stalled, picked, userVars, ran, owed>>

In(q) == {q[i] : i \in DOMAIN q}
\* q without the messages in S, in its order.
Without(q, S) ==
  LET kept[i \in 0..Len(q)] ==
        IF i = 0 THEN <<>>
        ELSE IF q[i] \in S THEN kept[i - 1] ELSE Append(kept[i - 1], q[i])
  IN  kept[Len(q)]
Added(q, m) == IF m \in In(q) THEN q ELSE Append(q, m)
\* The first message of q that is in S, or None.
Oldest(q, S) == LET only == Without(q, Msgs \ S)
                IN IF only = <<>> THEN None ELSE Head(only)

\* While activeLiveInput is set; while turnRunning is.
Live == {"starting", "read", "claiming", "open", "completing", "saving",
         "unwinding", "settling", "counted", "returning", "discarding",
         "consuming"}
Running == Live \cup {"closing"}

Job(kind, m, steer) == [kind |-> kind, msg |-> m, steer |-> steer]
Answered == {"steered", "queued", "error"}

Init ==
  /\ turn = "none" /\ active = None /\ outcome = "none" /\ turns = 0
  /\ bound = FALSE /\ pending = FALSE /\ port = FALSE
  /\ memQ = <<>> /\ memFlag = {} /\ base = {} /\ inTurn = {}
  /\ earlier = {} /\ late = {} /\ keeps = FALSE
  /\ diskQ = <<>> /\ diskFlag = {} /\ savedTurn = {}
  /\ tail = <<>> /\ at = "ready" /\ item = None /\ saved = "none"
  /\ delivered = {} /\ writes = <<>> /\ held = {} /\ picked = {}
  /\ stalled = None
  /\ answer = [m \in Msgs |-> "none"]
  /\ takeback = [m \in Msgs |-> "none"]
  /\ back = {} /\ ran = {} /\ owed = {}

-----------------------------------------------------------------------------
(* The state on disk.                                                      *)

\* Faulty variant: the writer's whole list replaces the stored one.
Merged_Whole(q) == memQ

\* mergeQueuedTurns: what the writer removed is removed, what it added is
\* added, everything else is the disk's.
Merged(q) ==
  Without(q, base \ In(memQ)) \o Without(memQ, base \cup In(q))

\* A flag is stored with the entry it is added with; an entry the disk
\* already has stays as the disk has it.
MergedFlags ==
  (diskFlag \cup (memFlag \ (base \cup In(diskQ)))) \cap In(Merged(diskQ))

\* writeState of the turn's copy.  Its pendingTurn is newer than the one it
\* agreed on: every delta and every row changes it.
Store == /\ diskQ' = Merged(diskQ) /\ diskFlag' = MergedFlags
         /\ base' = In(memQ) /\ savedTurn' = inTurn
         /\ UNCHANGED <<memQ, memFlag, inTurn>>

StoreOrFail(ok) ==
  IF ok THEN Store ELSE SavesFail /\ UNCHANGED <<memVars, diskVars>>

\* A read-change-write by another copy of the state that adds or removes.
DiskAdd(m) == diskQ' = Added(diskQ, m) /\ UNCHANGED <<diskFlag, savedTurn>>
DiskDrop(S) == /\ diskQ' = Without(diskQ, S) /\ diskFlag' = diskFlag \ S
               /\ UNCHANGED savedTurn

-----------------------------------------------------------------------------
(* Starting a turn (drainQueue, handleSubmit, startTurn, the journal).     *)

\* The head of the saved queue is read, to be started (by drainQueue, or by a
\* window that then submits it).
Pick(m) ==
  /\ turn = "none" /\ diskQ # <<>> /\ m = Head(diskQ)
  /\ m # stalled /\ m \notin picked
  /\ picked' = picked \cup {m}
  /\ UNCHANGED <<turnVars, port, memVars, diskVars, jobVars, writes, endVars,
                 stalled, userVars, ran, owed>>

\* startTurn refuses: a turn is running, and the message stays queued.
DropPick(m) ==
  /\ turn \in Running /\ m \in picked
  /\ picked' = picked \ {m}
  /\ UNCHANGED <<turnVars, port, memVars, diskVars, jobVars, writes, endVars,
                 stalled, userVars, ran, owed>>

\* m is None for a prompt sent straight as a turn.  The worker and a window
\* may both have read m in the queue: then one of them still has it.
StartTurn(m) ==
  /\ turn = "none" /\ turns < MaxTurns
  /\ Overlaps \/ \A x \in Msgs : takeback[x] \notin {"reading", "writing"}
  /\ turn' = "starting" /\ active' = m /\ turns' = turns + 1
  /\ picked' \in {picked, picked \ {m}}
  /\ earlier' = savedTurn
  /\ UNCHANGED <<outcome, bound, pending, port, memVars, diskVars, jobVars,
                 writes, late, keeps, held, stalled, userVars, ran, owed>>

\* runSessionTurn reads the conversation it will work on.
ReadCopy ==
  /\ turn = "starting"
  /\ turn' = "read"
  /\ memQ' = diskQ /\ memFlag' = diskFlag /\ base' = In(diskQ)
  /\ inTurn' = savedTurn /\ earlier' = savedTurn
  /\ UNCHANGED <<active, outcome, turns, bound, pending, port, diskVars,
                 jobVars, writes, late, keeps, held, stalled, picked, userVars,
                 ran, owed>>

EndsUnbound(how) == turn' = "settling" /\ outcome' = how

\* Faulty variant: a queued turn's entry need not be there any more.
Claim_Unchecked ==
  /\ turn = "read" /\ active # None
  /\ memQ' = Without(memQ, {active})
  /\ turn' = "claiming"
  /\ writes' = Append(writes, <<"start", None>>)
  /\ UNCHANGED <<active, outcome, turns, bound, pending, port, memFlag, base,
                 inTurn, diskVars, jobVars, endVars, stalled, picked,
                 userVars, ran, owed>>

\* Taking a queued turn off the queue is what claims it.
Claim ==
  /\ turn = "read" /\ active # None
  /\ IF active \in In(memQ)
     THEN /\ memQ' = Without(memQ, {active})
          /\ turn' = "claiming"
          /\ writes' = Append(writes, <<"start", None>>)
          /\ UNCHANGED outcome
     ELSE EndsUnbound("failed") /\ UNCHANGED <<memQ, writes>>
  /\ UNCHANGED <<active, turns, bound, pending, port, memFlag, base, inTurn,
                 diskVars, jobVars, endVars, stalled, picked, userVars, ran,
                 owed>>

\* The ledger is bound: everything that waited for it goes on, a take-back
\* before anything it could race with.
Bind ==
  /\ turn' = "open" /\ bound' = TRUE /\ pending' = TRUE

\* A prompt that was not queued does not wait for its first save.
BeginFresh ==
  /\ turn = "read" /\ active = None
  /\ Bind
  /\ UNCHANGED <<active, outcome, turns, port, memVars, diskVars, jobVars,
                 writes, endVars, stalled, picked, userVars, ran, owed>>

\* A claim that was not saved is undone, and the turn does not run.
SaveStart(ok) ==
  /\ writes # <<>> /\ Head(writes) = <<"start", None>>
  /\ writes' = Tail(writes)
  /\ IF ok
     THEN /\ Store /\ Bind /\ UNCHANGED outcome
          /\ ran' = ran \cup {active}
     ELSE /\ SavesFail /\ EndsUnbound("failed")
          /\ memQ' = <<active>> \o memQ
          /\ UNCHANGED <<bound, pending, memFlag, base, inTurn, diskVars, ran,
                         owed>>
  /\ UNCHANGED <<active, turns, port, jobVars, endVars, stalled, picked,
                 userVars, owed>>

-----------------------------------------------------------------------------
(* A message is typed (handleSteer, handleSubmit).                         *)

Type(m) ==
  /\ answer[m] = "none" /\ turn \in Live
  /\ answer' = [answer EXCEPT ![m] = "typed"]
  /\ UNCHANGED <<turnVars, port, memVars, diskVars, jobVars, writes, endVars,
                 stalled, picked, takeback, back, ran, owed>>

\* No live input: added to the saved queue itself.  So is a message a window
\* submits as a turn of its own while one is running.
TypeToDisk(m, ok) ==
  /\ answer[m] = "none"
  /\ IF ok
     THEN DiskAdd(m) /\ answer' = [answer EXCEPT ![m] = "queued"]
     ELSE /\ SavesFail /\ answer' = [answer EXCEPT ![m] = "error"]
          /\ UNCHANGED diskVars
  /\ UNCHANGED <<turnVars, port, memVars, jobVars, writes, endVars, stalled,
                 picked, takeback, back, ran, owed>>

\* `/send` is read, the ledger is there: the submit takes its place among the
\* broker's jobs.
Submit(m, steer) ==
  /\ answer[m] = "typed" /\ bound
  /\ answer' = [answer EXCEPT ![m] = "sent"]
  /\ tail' = Append(tail, Job("submit", m, steer))
  /\ UNCHANGED <<turnVars, port, memVars, diskVars, at, item, saved,
                 delivered, writes, endVars, stalled, picked, takeback, back,
                 ran, owed>>

\* The turn closed before its ledger was bound.
SubmitRejected(m) ==
  /\ answer[m] = "typed" /\ turn = "closing" /\ ~bound
  /\ answer' = [answer EXCEPT ![m] = "error"]
  /\ UNCHANGED <<turnVars, port, memVars, diskVars, jobVars, writes, endVars,
                 stalled, picked, takeback, back, ran, owed>>

\* Enter again, nothing typed.
SendQueued ==
  /\ turn \in Live /\ bound /\ Len(tail) <= MaxJobs
  /\ \A i \in DOMAIN tail : tail[i].kind # "sendNow"
  /\ tail' = Append(tail, Job("sendNow", None, TRUE))
  /\ UNCHANGED <<turnVars, port, memVars, diskVars, at, item, saved,
                 delivered, writes, endVars, stalled, picked, userVars, ran,
                 owed>>

-----------------------------------------------------------------------------
(* The broker's jobs (run, submit, deliver, sendNow).                      *)

Doing == Head(tail)
NextSteer == Oldest(memQ, memFlag)
Ask(who) == writes' = Append(writes, <<who, None>>)
Told(m, what) == answer' = [answer EXCEPT ![m] = what]

\* The running job is over; a submit is answered by what the broker knows.
JobDone(known) ==
  /\ tail' = Tail(tail) /\ at' = "ready" /\ item' = None
  /\ answer' = IF Doing.kind = "submit"
               THEN [answer EXCEPT ![Doing.msg] =
                       IF Doing.msg \in known THEN "steered" ELSE "queued"]
               ELSE answer

\* Faulty variant: whether any message waits is not looked at.
NextOffer_Any(known) ==
  IF port
  THEN /\ at' = "offerNext" /\ item' = NextSteer
       /\ UNCHANGED <<tail, answer>>
  ELSE JobDone(known)

\* deliver: the oldest flagged message is offered next, if any can be.
NextOffer(known) ==
  IF port /\ NextSteer # None
  THEN /\ at' = "offerNext" /\ item' = NextSteer
       /\ UNCHANGED <<tail, answer>>
  ELSE JobDone(known)

\* The journal's queue(): in the turn's copy, and then a save is waited for.
QueueIt(m, steer) ==
  /\ memQ' = Added(memQ, m)
  /\ memFlag' = IF m \in In(memQ) THEN memFlag
                ELSE IF steer THEN memFlag \cup {m} ELSE memFlag \ {m}
  /\ Ask("job") /\ at' = "queue"

\* Faulty variant: it stays in the queue as well.
RecordSteer_Kept(m) ==
  /\ inTurn' = inTurn \cup {m}
  /\ UNCHANGED memQ
  /\ Ask("job")

\* The journal's steer(): on the turn and out of the queue at once.
RecordSteer(m) ==
  /\ inTurn' = inTurn \cup {m}
  /\ memQ' = Without(memQ, {m})
  /\ Ask("job")

\* Faulty variant: a new message overtakes the flagged ones that wait.
StartSubmit_Overtakes ==
  /\ tail # <<>> /\ at = "ready" /\ Doing.kind = "submit"
  /\ IF Doing.steer /\ port
     THEN /\ at' = "offer" /\ item' = Doing.msg
          /\ UNCHANGED <<memVars, writes>>
     ELSE /\ QueueIt(Doing.msg, Doing.steer)
          /\ UNCHANGED <<item, base, inTurn>>
  /\ UNCHANGED <<turnVars, port, diskVars, tail, saved, delivered, endVars,
                 stalled, picked, userVars, ran, owed>>

\* Nothing waiting ahead of it and the turn can take it: offered unqueued.
StartSubmit ==
  /\ tail # <<>> /\ at = "ready" /\ Doing.kind = "submit"
  /\ IF Doing.steer /\ port /\ NextSteer = None
     THEN /\ at' = "offer" /\ item' = Doing.msg
          /\ UNCHANGED <<memVars, writes>>
     ELSE /\ QueueIt(Doing.msg, Doing.steer)
          /\ UNCHANGED <<item, base, inTurn>>
  /\ UNCHANGED <<turnVars, port, diskVars, tail, saved, delivered, endVars,
                 stalled, picked, userVars, ran, owed>>

StartDeliver ==
  /\ tail # <<>> /\ at = "ready" /\ Doing.kind = "deliver"
  /\ NextOffer(delivered)
  /\ UNCHANGED <<turnVars, port, memVars, diskVars, saved, delivered, writes,
                 endVars, stalled, picked, takeback, back, ran, owed>>

\* sendNow: the oldest message is flagged, saved and offered.
StartSendNow ==
  /\ tail # <<>> /\ at = "ready" /\ Doing.kind = "sendNow"
  /\ IF memQ = <<>> \/ ~port
     THEN JobDone(delivered) /\ UNCHANGED <<memFlag, writes>>
     ELSE IF Head(memQ) \in memFlag
     THEN NextOffer(delivered) /\ UNCHANGED <<memFlag, writes>>
     ELSE /\ memFlag' = memFlag \cup {Head(memQ)}
          /\ Ask("job") /\ at' = "mark"
          /\ UNCHANGED <<tail, item, answer>>
  /\ UNCHANGED <<turnVars, port, memQ, base, inTurn, diskVars, saved,
                 delivered, endVars, stalled, picked, takeback, back, ran,
                 owed>>

\* The vendor took what was offered.  On a turn that is finishing it cannot
\* be recorded any more: a new message is queued, a waiting one stays.
OfferTaken ==
  /\ at \in {"offer", "offerNext"} /\ port
  /\ IF pending
     THEN /\ RecordSteer(item)
          /\ at' = IF at = "offer" THEN "record" ELSE "recordNext"
          /\ UNCHANGED <<memFlag, tail, item, answer>>
     ELSE IF at = "offer"
     THEN QueueIt(item, TRUE) /\ UNCHANGED <<inTurn, tail, item, answer>>
     ELSE JobDone(delivered) /\ UNCHANGED <<memQ, memFlag, inTurn, writes>>
  /\ UNCHANGED <<turnVars, port, base, diskVars, saved, delivered, endVars,
                 stalled, picked, takeback, back, ran, owed>>

\* Faulty variant: only the vendor ends an offer, not the port that closes.
OfferLeft_PortOnly ==
  /\ at \in {"offer", "offerNext"} /\ port
  /\ IF at = "offer"
     THEN QueueIt(item, TRUE) /\ UNCHANGED <<tail, item, answer>>
     ELSE JobDone(delivered) /\ UNCHANGED <<memQ, memFlag, writes>>
  /\ UNCHANGED <<turnVars, port, base, inTurn, diskVars, saved, delivered,
                 endVars, stalled, picked, takeback, back, ran, owed>>

\* Refused, failed, or the port went away: it stays where it is.
OfferLeft ==
  /\ at \in {"offer", "offerNext"}
  /\ IF at = "offer"
     THEN QueueIt(item, TRUE) /\ UNCHANGED <<tail, item, answer>>
     ELSE JobDone(delivered) /\ UNCHANGED <<memQ, memFlag, writes>>
  /\ UNCHANGED <<turnVars, port, base, inTurn, diskVars, saved, delivered,
                 endVars, stalled, picked, takeback, back, ran, owed>>

\* The save a job waits for.
SaveJob(ok) ==
  /\ writes # <<>> /\ Head(writes) = <<"job", None>>
  /\ writes' = Tail(writes)
  /\ StoreOrFail(ok)
  /\ saved' = IF ok THEN "ok" ELSE "failed"
  /\ UNCHANGED <<turnVars, port, tail, at, item, delivered, endVars, stalled,
                 picked, userVars, ran, owed>>

Resumed(where) == at = where /\ saved # "none" /\ saved' = "none"

\* A new message was put into the turn: answered, or queued after all.
AfterRecord ==
  /\ Resumed("record")
  /\ IF saved = "ok"
     THEN /\ delivered' = delivered \cup {item}
          /\ JobDone(delivered')
          /\ UNCHANGED <<memVars, writes>>
     ELSE /\ QueueIt(item, TRUE)
          /\ UNCHANGED <<base, inTurn, tail, item, delivered, answer>>
  /\ UNCHANGED <<turnVars, port, diskVars, endVars, stalled, picked, takeback,
                 back, ran, owed>>

\* A waiting message was put into the turn: on to the next.
AfterRecordNext ==
  /\ Resumed("recordNext")
  /\ IF saved = "ok"
     THEN delivered' = delivered \cup {item} /\ NextOffer(delivered')
     ELSE JobDone(delivered) /\ UNCHANGED delivered
  /\ UNCHANGED <<turnVars, port, memVars, diskVars, writes, endVars, stalled,
                 picked, takeback, back, ran, owed>>

\* Queued: offered with the others that wait, if it is to be steered.  Not
\* saved: taken out again, and the window has its text back.
AfterQueue ==
  /\ Resumed("queue")
  /\ IF saved = "failed"
     THEN /\ memQ' = Without(memQ, {Doing.msg})
          /\ Told(Doing.msg, "error")
          /\ tail' = Tail(tail) /\ at' = "ready" /\ item' = None
     ELSE /\ UNCHANGED memQ
          /\ IF Doing.steer THEN NextOffer(delivered) ELSE JobDone(delivered)
  /\ UNCHANGED <<turnVars, port, memFlag, base, inTurn, diskVars, delivered,
                 writes, endVars, stalled, picked, takeback, back, ran, owed>>

AfterMark ==
  /\ Resumed("mark")
  /\ IF saved = "ok" THEN NextOffer(delivered) ELSE JobDone(delivered)
  /\ UNCHANGED <<turnVars, port, memVars, diskVars, delivered, writes,
                 endVars, stalled, picked, takeback, back, ran, owed>>

Jobs ==
  \/ StartSubmit \/ StartDeliver \/ StartSendNow
  \/ AfterRecord \/ AfterRecordNext \/ AfterQueue \/ AfterMark

-----------------------------------------------------------------------------
(* Taking a waiting message back (handleUnqueue, takeBack).                *)

\* Faulty variant: the message being offered can be taken back.
TakeBack_Offered(m) ==
  /\ answer[m] \in {"typed", "sent", "queued"} /\ m \notin back
  /\ takeback[m] \in {"none", "error"}
  /\ LET becomes(what) == takeback' = [takeback EXCEPT ![m] = what]
         stays == UNCHANGED <<memQ, writes>>
     IN IF turn \in Running /\ active = m
        THEN becomes("running") /\ stays
        ELSE IF turn \notin Live THEN becomes("reading") /\ stays
        ELSE IF ~bound THEN becomes("waiting") /\ stays
        ELSE IF m \in In(memQ)
        THEN /\ becomes("saving") /\ memQ' = Without(memQ, {m})
             /\ writes' = Append(writes, <<"takeBack", m>>)
        ELSE becomes("gone") /\ stays
  /\ UNCHANGED <<turnVars, port, memFlag, base, inTurn, diskVars, jobVars,
                 endVars, stalled, picked, answer, back, ran, owed>>

\* While a turn's input is live, its queue is the turn's.
TakeBack(m) ==
  /\ answer[m] \in {"typed", "sent", "queued"} /\ m \notin back
  /\ takeback[m] \in {"none", "error"}
  /\ LET becomes(what) == takeback' = [takeback EXCEPT ![m] = what]
         stays == UNCHANGED <<memQ, writes>>
     IN IF (turn \in Running /\ active = m)
           \/ (turn \in Live /\ at \in {"offer", "offerNext"} /\ item = m)
        THEN becomes("running") /\ stays
        ELSE IF turn \notin Live THEN becomes("reading") /\ stays
        ELSE IF ~bound THEN becomes("waiting") /\ stays
        ELSE IF m \in In(memQ)
        THEN /\ becomes("saving") /\ memQ' = Without(memQ, {m})
             /\ writes' = Append(writes, <<"takeBack", m>>)
        ELSE becomes("gone") /\ stays
  /\ UNCHANGED <<turnVars, port, memFlag, base, inTurn, diskVars, jobVars,
                 endVars, stalled, picked, answer, back, ran, owed>>

\* Faulty variant: only a ledger lets it go on, a turn that closes does not.
TakeBackResumes_Bound(m) ==
  /\ takeback[m] = "waiting" /\ bound
  /\ IF bound /\ m \in In(memQ)
     THEN /\ takeback' = [takeback EXCEPT ![m] = "saving"]
          /\ memQ' = Without(memQ, {m})
          /\ writes' = Append(writes, <<"takeBack", m>>)
     ELSE /\ takeback' = [takeback EXCEPT ![m] = "gone"]
          /\ UNCHANGED <<memQ, writes>>
  /\ UNCHANGED <<turnVars, port, memFlag, base, inTurn, diskVars, jobVars,
                 endVars, stalled, picked, answer, back, ran, owed>>

\* It waited for the ledger.
TakeBackResumes(m) ==
  /\ takeback[m] = "waiting" /\ (bound \/ turn = "closing")
  /\ IF bound /\ m \in In(memQ)
     THEN /\ takeback' = [takeback EXCEPT ![m] = "saving"]
          /\ memQ' = Without(memQ, {m})
          /\ writes' = Append(writes, <<"takeBack", m>>)
     ELSE /\ takeback' = [takeback EXCEPT ![m] = "gone"]
          /\ UNCHANGED <<memQ, writes>>
  /\ UNCHANGED <<turnVars, port, memFlag, base, inTurn, diskVars, jobVars,
                 endVars, stalled, picked, answer, back, ran, owed>>

\* Out of the queue: the message is the user's again.
Returned(m) == /\ takeback' = [takeback EXCEPT ![m] = "removed"]
               /\ back' = back \cup {m}

SaveTakeBack(m, ok) ==
  /\ writes # <<>> /\ Head(writes) = <<"takeBack", m>>
  /\ writes' = Tail(writes)
  /\ StoreOrFail(ok)
  /\ IF ok THEN Returned(m)
     ELSE takeback' = [takeback EXCEPT ![m] = "error"] /\ UNCHANGED back
  /\ UNCHANGED <<turnVars, port, jobVars, endVars, stalled, picked, answer,
                 ran, owed>>

\* No live input: the saved queue is read, changed and written.
ReadTakeBack(m) ==
  /\ takeback[m] = "reading"
  /\ takeback' = [takeback EXCEPT ![m] =
                    IF m \in In(diskQ) THEN "writing" ELSE "gone"]
  /\ UNCHANGED <<turnVars, port, memVars, diskVars, jobVars, writes, endVars,
                 stalled, picked, answer, back, ran, owed>>

WriteTakeBack(m, ok) ==
  /\ takeback[m] = "writing"
  /\ IF ok THEN DiskDrop({m}) /\ Returned(m)
     ELSE /\ SavesFail /\ takeback' = [takeback EXCEPT ![m] = "error"]
          /\ UNCHANGED <<diskVars, back>>
  /\ UNCHANGED <<turnVars, port, memVars, jobVars, writes, endVars, stalled,
                 picked, answer, ran, owed>>

-----------------------------------------------------------------------------
(* The turn: its port, and how it ends.                                    *)

DeliverWaits == \E i \in DOMAIN tail : i > 1 /\ tail[i].kind = "deliver"
DeliverSoon == tail' = IF DeliverWaits THEN tail
                       ELSE Append(tail, Job("deliver", None, FALSE))

\* The vendor can take messages: what waits is offered.
PortOpens ==
  /\ turn = "open" /\ ~port /\ at \notin {"offer", "offerNext"}
  /\ port' = TRUE /\ DeliverSoon
  /\ UNCHANGED <<turnVars, memVars, diskVars, at, item, saved, delivered,
                 writes, endVars, stalled, picked, userVars, ran, owed>>

\* onWindow: a moment that may take a message begins.
Window ==
  /\ port /\ Len(tail) <= MaxJobs /\ ~DeliverWaits
  /\ DeliverSoon
  /\ UNCHANGED <<turnVars, port, memVars, diskVars, at, item, saved,
                 delivered, writes, endVars, stalled, picked, userVars, ran,
                 owed>>

PortCloses ==
  /\ turn = "open" /\ port
  /\ port' = FALSE
  /\ UNCHANGED <<turnVars, memVars, diskVars, jobVars, writes, endVars,
                 stalled, picked, userVars, ran, owed>>

\* The agent never heard a message it took: off the turn, queued for the
\* next (requeueSteer).
Unheard(m) ==
  /\ turn = "open" /\ ~port /\ tail = <<>> /\ m \in delivered
  /\ inTurn' = inTurn \ {m} /\ delivered' = delivered \ {m}
  /\ memQ' = Added(memQ, m) /\ memFlag' = memFlag \ {m}
  /\ writes' = Append(writes, <<"requeue", m>>)
  /\ UNCHANGED <<turnVars, port, base, diskVars, tail, at, item, saved,
                 endVars, stalled, picked, userVars, ran, owed>>

\* Not saved, it is in neither.
SaveRequeue(m, ok) ==
  /\ writes # <<>> /\ Head(writes) = <<"requeue", m>>
  /\ writes' = Tail(writes)
  /\ IF ok THEN Store
     ELSE /\ SavesFail /\ memQ' = Without(memQ, {m})
          /\ UNCHANGED <<memFlag, base, inTurn, diskVars>>
  /\ UNCHANGED <<turnVars, port, jobVars, endVars, stalled, picked, userVars,
                 ran, owed>>

\* The attempt is over: what it hands back is queued.
AttemptOver == turn = "open" /\ \A w \in In(writes) : w[1] # "requeue"

Finish ==
  /\ AttemptOver
  /\ turn' = "completing"
  /\ UNCHANGED <<active, outcome, turns, bound, pending, port, memVars,
                 diskVars, jobVars, writes, endVars, stalled, picked,
                 userVars, ran, owed>>

\* complete(): the broker is waited for, but only so long; then the turn's
\* record is final.
Complete ==
  /\ turn = "completing"
  /\ turn' = "saving" /\ pending' = FALSE
  /\ Ask("end")
  /\ UNCHANGED <<active, outcome, turns, bound, port, memVars, diskVars,
                 jobVars, endVars, stalled, picked, userVars, ran, owed>>

\* Before the attempt is left, its journal is flushed: every save asked for by
\* now is over.
Unwinds(how) == turn' = "unwinding" /\ outcome' = how /\ Ask("flush")

SaveEnd(ok) ==
  /\ writes # <<>> /\ Head(writes) = <<"end", None>>
  /\ StoreOrFail(ok)
  /\ turn' = "unwinding" /\ outcome' = "completed"
  /\ writes' = Append(Tail(writes), <<"flush", None>>)
  /\ UNCHANGED <<active, turns, bound, pending, port, jobVars, endVars,
                 stalled, picked, userVars, ran, owed>>

\* Stopped or failed: before the journal, with the attempt, or by force.
Break(how) ==
  /\ \/ AttemptOver /\ ~port /\ Unwinds(how)
     \/ /\ \/ turn = "starting"
           \/ HardStops /\ AttemptOver /\ how = "cancelled"
        /\ turn' = "settling" /\ outcome' = how /\ UNCHANGED writes
  /\ UNCHANGED <<active, turns, bound, pending, port, memVars, diskVars,
                 jobVars, endVars, stalled, picked, userVars, ran, owed>>

\* Nothing is written if the copy is as it was last saved.  A flush that fails
\* is what the turn failed of, whatever it ended with.
SaveFlush(ok) ==
  /\ writes # <<>> /\ Head(writes) = <<"flush", None>>
  /\ writes' = Tail(writes)
  /\ StoreOrFail(ok) \/ (ok /\ UNCHANGED <<memVars, diskVars>>)
  /\ outcome' = IF ok THEN outcome ELSE "failed"
  /\ IF outcome' = "completed"
     THEN turn' = "closing" /\ port' = FALSE
     ELSE turn' = "settling" /\ UNCHANGED port
  /\ UNCHANGED <<active, turns, bound, pending, jobVars, endVars, stalled,
                 picked, userVars, ran, owed>>

-----------------------------------------------------------------------------
(* A stopped or failed turn is settled (settleCancelledTurn, settleFailed- *)
(* Turn): by other copies of the state, whatever the journal still saves.  *)

\* A stopped turn is kept if it answered, or if steers of it are on disk.
Count ==
  /\ turn = "settling" /\ outcome = "cancelled"
  /\ turn' = "counted"
  /\ keeps' \in {TRUE, savedTurn # earlier}
  /\ UNCHANGED <<active, outcome, turns, bound, pending, port, memVars,
                 diskVars, jobVars, writes, earlier, late, held, stalled,
                 picked, userVars, ran, owed>>

\* takeUnsentHeldSteers reads the saved queue ...
ReadHeld ==
  /\ turn = "counted" \/ (turn = "settling" /\ outcome = "failed")
  /\ turn' = "returning" /\ held' = diskFlag
  /\ UNCHANGED <<active, outcome, turns, bound, pending, port, memVars,
                 diskVars, jobVars, writes, earlier, late, keeps, stalled,
                 picked, userVars, ran, owed>>

\* ... and takes out of it what goes back to the composer: at once if the turn
\* failed, once it is settled if it was stopped.
ReturnHeld(ok) ==
  /\ turn = "returning"
  /\ IF ok THEN DiskDrop(held) ELSE SavesFail /\ UNCHANGED diskVars
  /\ IF outcome = "cancelled"
     THEN /\ turn' = "discarding"
          /\ held' = IF ok THEN held ELSE {}
          /\ UNCHANGED <<back, port>>
     ELSE /\ back' = IF ok THEN back \cup held ELSE back
          /\ held' = {}
          /\ IF active # None THEN turn' = "consuming" /\ UNCHANGED port
             ELSE turn' = "closing" /\ port' = FALSE
  /\ UNCHANGED <<active, outcome, turns, bound, pending, memVars, jobVars,
                 writes, earlier, late, keeps, stalled, picked, answer,
                 takeback, ran, owed>>

\* The pendingTurn on disk is ended and kept, or deleted with whatever steers
\* it has by now.  If that fails nothing goes back.
Discard(ok) ==
  /\ turn = "discarding"
  /\ ok \/ SavesFail
  /\ savedTurn' = IF ok /\ ~keeps THEN savedTurn \cap earlier ELSE savedTurn
  /\ back' = IF ok THEN back \cup held ELSE back
  /\ held' = {} /\ keeps' = FALSE
  /\ turn' = "closing" /\ port' = FALSE
  /\ UNCHANGED <<active, outcome, turns, bound, pending, memVars, diskQ,
                 diskFlag, jobVars, writes, earlier, late, stalled, picked,
                 answer, takeback, ran, owed>>

\* A failed queued turn is not left at the head, or not run again.
Consume(ok) ==
  /\ turn = "consuming"
  /\ IF ok THEN /\ DiskDrop({active})
                /\ ran' = IF active \in In(diskQ) THEN ran \cup {active}
                          ELSE ran
                /\ UNCHANGED stalled
     ELSE SavesFail /\ stalled' = active /\ UNCHANGED <<diskVars, ran>>
  /\ turn' = "closing" /\ port' = FALSE
  /\ UNCHANGED <<active, outcome, turns, bound, pending, memVars, jobVars,
                 writes, endVars, picked, userVars, owed>>

\* What the journal of a turn that ended still has to save: what it took out
\* of its copy, and its pendingTurn.  Whatever it added was waited for.
LeftOver == [drop |-> base \ In(memQ), inTurn |-> inTurn, writes |-> writes]

\* finalizeTurn waits for every submission and for nothing else: a take-back
\* may still be saved, and a delivery be under way, whose port is gone: what
\* it put into the turn is at most still to be saved.
EndTurn ==
  /\ turn = "closing"
  /\ \A m \in Msgs : answer[m] \notin {"typed", "sent"}
  /\ \A i \in DOMAIN tail : tail[i].kind = "deliver"
  /\ Lingers \/ writes = <<>>
  /\ turn' = "none" /\ active' = None /\ outcome' = "none"
  /\ bound' = FALSE /\ pending' = FALSE
  /\ late' = IF writes = <<>> THEN late ELSE late \cup {LeftOver}
  /\ writes' = <<>>
  /\ tail' = <<>> /\ at' = "ready" /\ item' = None /\ saved' = "none"
  /\ delivered' = {}
  /\ memQ' = <<>> /\ memFlag' = {} /\ base' = {} /\ inTurn' = savedTurn
  /\ owed' = IF outcome = "failed" THEN (memFlag \cap In(memQ)) \ back ELSE {}
  /\ UNCHANGED <<turns, port, diskVars, earlier, keeps, held, stalled, picked,
                 userVars, ran>>

\* What the journal of a turn that ended still saves.  Its pendingTurn replaces
\* the one on disk if it changed since it was last saved.
LateSave(j, ok) ==
  /\ j \in late
  /\ IF ok
     THEN /\ diskQ' = Without(diskQ, j.drop) /\ diskFlag' = diskFlag \ j.drop
          /\ savedTurn' \in {savedTurn, j.inTurn}
     ELSE SavesFail /\ UNCHANGED diskVars
  /\ IF Head(j.writes)[1] # "takeBack" THEN UNCHANGED <<takeback, back>>
     ELSE IF ok THEN Returned(Head(j.writes)[2])
     ELSE /\ takeback' = [takeback EXCEPT ![Head(j.writes)[2]] = "error"]
          /\ UNCHANGED back
  /\ late' = (late \ {j}) \cup
               {l \in {[j EXCEPT !.writes = Tail(@)]} : l.writes # <<>>}
  /\ UNCHANGED <<turnVars, port, memVars, jobVars, writes, earlier, keeps,
                 held, stalled, picked, answer, ran, owed>>

-----------------------------------------------------------------------------

ChainSaves(ok) ==
  \/ SaveStart(ok) \/ SaveJob(ok) \/ SaveEnd(ok) \/ SaveFlush(ok)
  \/ \E m \in Msgs : SaveTakeBack(m, ok) \/ SaveRequeue(m, ok)

LateSaves == \E j \in late, ok \in BOOLEAN : LateSave(j, ok)

TurnSteps ==
  \/ ReadCopy \/ Claim \/ BeginFresh \/ Complete \/ Count \/ ReadHeld
  \/ EndTurn
  \/ \E ok \in BOOLEAN : ReturnHeld(ok) \/ Discard(ok) \/ Consume(ok)

\* What each message's commands do by themselves once they were sent.
Commands(m) ==
  \/ SubmitRejected(m) \/ ReadTakeBack(m)
  \/ \E ok \in BOOLEAN : WriteTakeBack(m, ok) \/ Submit(m, ok)

Vendor ==
  \/ PortOpens \/ Window \/ PortCloses \/ OfferTaken \/ OfferLeft \/ Finish
  \/ \E m \in Msgs : Unheard(m)
  \/ \E how \in {"cancelled", "failed"} : Break(how)

People ==
  \/ StartTurn(None) \/ SendQueued
  \/ \E m \in Msgs :
       \/ Pick(m) \/ DropPick(m) \/ (m \in picked /\ StartTurn(m))
       \/ Type(m) \/ TakeBack(m)
       \/ \E ok \in BOOLEAN : TypeToDisk(m, ok)

\* A job that is next, or whose save is over; a take-back whose ledger is
\* there, or will never be.
Urgent ==
  \/ tail # <<>> /\ at = "ready"
  \/ saved # "none"
  \/ \E m \in Msgs : takeback[m] = "waiting" /\ (bound \/ turn = "closing")

Next ==
  \/ Jobs
  \/ \E m \in Msgs : TakeBackResumes(m)
  \/ /\ ~Urgent
     /\ \/ TurnSteps \/ Vendor \/ People
        \/ LateSaves \/ \E ok \in BOOLEAN : ChainSaves(ok)
        \/ \E m \in Msgs : Commands(m)

Spec == Init /\ [][Next]_vars

\* The worker's own steps go on; an attempt's way of taking messages goes away
\* in the end.  The vendor need not answer an offer, nor end its turn.
\* A command's step waits for the urgent ones, again and again (SF).
Fairness ==
  /\ WF_vars(Jobs) /\ WF_vars(\E m \in Msgs : TakeBackResumes(m))
  /\ WF_vars(TurnSteps)
  /\ WF_vars(\E ok \in BOOLEAN : ChainSaves(ok)) /\ WF_vars(LateSaves)
  /\ \A m \in Msgs : SF_vars(~Urgent /\ Commands(m))
  /\ WF_vars(PortCloses)
  /\ WF_vars(~port /\ OfferLeft)

FairSpec == Spec /\ Fairness

-----------------------------------------------------------------------------
(* Properties.                                                             *)

\* What the broker can be asked to do, and who can wait for a save.
JobType ==
  [kind : {"submit"}, msg : Msgs, steer : BOOLEAN]
    \cup [kind : {"deliver", "sendNow"}, msg : {None}, steer : BOOLEAN]
SaveType == ({"start", "job", "end", "flush"} \X {None})
              \cup ({"takeBack", "requeue"} \X Msgs)

TypeOK ==
  /\ turn \in Running \cup {"none"} /\ active \in Msgs \cup {None}
  /\ outcome \in {"none", "completed", "cancelled", "failed"}
  /\ turns \in 0..MaxTurns
  /\ bound \in BOOLEAN /\ pending \in BOOLEAN /\ port \in BOOLEAN
  /\ memQ \in Seq(Msgs) /\ diskQ \in Seq(Msgs)
  /\ memFlag \cup base \cup inTurn \subseteq Msgs
  /\ diskFlag \cup savedTurn \cup earlier \subseteq Msgs
  /\ keeps \in BOOLEAN
  /\ \A j \in late : /\ DOMAIN j = {"drop", "inTurn", "writes"}
                     /\ j.drop \cup j.inTurn \subseteq Msgs
                     /\ j.writes \in Seq(SaveType)
  /\ tail \in Seq(JobType) /\ writes \in Seq(SaveType)
  /\ at \in {"ready", "offer", "offerNext", "record", "recordNext", "queue",
             "mark"}
  /\ item \in Msgs \cup {None} /\ saved \in {"none", "ok", "failed"}
  /\ held \cup picked \cup delivered \cup back \cup ran \cup owed
       \subseteq Msgs
  /\ stalled \in Msgs \cup {None}
  /\ answer \in [Msgs -> {"none", "typed", "sent"} \cup Answered]
  /\ takeback \in [Msgs -> {"none", "waiting", "reading", "writing", "saving",
                            "removed", "running", "gone", "error"}]

\* "A message is in exactly one place at a time -- the queue, or the turn"
\* (live-input.ts:63), and it goes to the model once: it is never steered in
\* and waiting, twice in the queue, or steered in and run as a turn as well.
OnePlace ==
  /\ turn \in Live => inTurn \cap In(memQ) = {}
  /\ turn = "none" => savedTurn \cap In(diskQ) = {}
  /\ \A i, j \in DOMAIN diskQ : diskQ[i] = diskQ[j] => i = j
  /\ (inTurn \cup savedTurn) \cap ran = {}

\* "Nothing is dropped" (STEERING.md:11): what a window was told is steered
\* or queued is stored, in the queue or in a turn, or is given back.
NothingDropped ==
  \A m \in Msgs : answer[m] \in {"steered", "queued"} =>
    \/ m \in In(diskQ) \cup savedTurn \cup ran \cup back \cup held
    \/ takeback[m] = "saving"

\* "A message is never both taken back and put into the turn" (worker-live-
\* commands.ts:58): what the user has again is in no turn, and runs as none.
BackIsBack == back \cap (inTurn \cup savedTurn \cup ran) = {}

\* Messages go into the turn in the order they wait (live-input.ts, deliver):
\* none overtakes one that is flagged and queued before it.
OldestFirst ==
  [][\A m \in inTurn' \ inTurn :
       LET before == IF m \in In(memQ)
                     THEN {memQ[i] : i \in {j \in DOMAIN memQ :
                             \A k \in 1..j : memQ[k] # m}}
                     ELSE In(memQ)
       IN bound' => before \cap memFlag = {}]_vars

\* "A stopped or failed turn must not run it on its own as the next turn"
\* (worker-turn.ts:30): no message marked to go into a failed turn, and never
\* handed back, is started by itself after it.
MarkedNotRunAlone ==
  [][turn = "none" /\ turn' = "starting" => active' \notin owed]_vars

\* "Running it again is the double" (turn-journal.ts:130): a queued message
\* is claimed by one turn only, whoever else read it in the queue before.
RunOnce == [][turn = "claiming" /\ turn' = "open" => active \notin ran]_vars

\* Every message typed is answered: a vendor that never answers an offer does
\* not hold the broker (live-input.ts:69), a failed save does not, and a turn
\* that ends before its ledger is bound does not.
SubmitAnswered ==
  \A m \in Msgs : answer[m] \in {"typed", "sent"} ~> answer[m] \in Answered

\* "Always answered" (worker-live-commands.ts:51): so is every take-back.
TakeBackAnswered ==
  \A m \in Msgs : takeback[m] \in {"waiting", "reading", "writing", "saving"}
                    ~> takeback[m] \in {"removed", "running", "gone", "error"}

=============================================================================
