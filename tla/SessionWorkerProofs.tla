------------------------- MODULE SessionWorkerProofs -------------------------
(* Proofs about one conversation's worker: the types, that a Stop stops its *)
(* own turn and nothing else, that the queue behind a stopped turn waits,   *)
(* and that the worker goes only when it is free, for any number of         *)
(* prompts, background shells and Stops.                                    *)
EXTENDS SessionWorker, TLAPS

-----------------------------------------------------------------------------
(* The saved queue.                                                         *)

\* An entry taken out leaves a queue of entries (consumeSessionTurn).
LEMMA WithoutType ==
  ASSUME NEW S, NEW q \in Seq(S), NEW e
  PROVE  Without(q, e) \in Seq(S)
<1>1. CASE e \notin In(q)
  BY <1>1 DEF Without
<1>2. CASE e \in In(q)
  <2>1. PICK k \in DOMAIN q : q[k] = e
    BY <1>2 DEF In
  <2> DEFINE i == CHOOSE n \in DOMAIN q : q[n] = e
             r == [j \in 1..(Len(q) - 1) |-> IF j < i THEN q[j] ELSE q[j + 1]]
  <2>2. i \in DOMAIN q
    BY <2>1
  <2>3. Len(q) \in Nat /\ DOMAIN q = 1..Len(q)
    OBVIOUS
  <2>4. ASSUME NEW j \in 1..(Len(q) - 1) PROVE r[j] \in S
    <3>1. j \in 1..Len(q) /\ j + 1 \in 1..Len(q)
      BY <2>3
    <3>2. q[j] \in S /\ q[j + 1] \in S
      BY <3>1
    <3> QED
      BY <3>2
  <2>5. Len(q) - 1 \in Nat
    BY <2>1, <2>3
  <2>6. r \in Seq(S)
    <3>1. r \in [1..(Len(q) - 1) -> S]
      BY <2>4
    <3> HIDE DEF r
    <3> QED
      BY <3>1, <2>5
  <2> QED
    BY <1>2, <2>6 DEF Without
<1> QED
  BY <1>1, <1>2

-----------------------------------------------------------------------------
(* Types, one lemma for each group of variables.                            *)

\* The steps that begin no turn, end none and stop none leave the turn alone.
LEMMA TurnTypesKept ==
  ASSUME TypeOK, [Next]_vars PROVE TurnTypes'
<1> USE SessionWorkerAssumption DEF TypeOK, TurnTypes
<1>1. ASSUME NEW p \in Prompts, SubmitStarts(p) PROVE TurnTypes'
  <2>1. /\ turn' = "starting" /\ doing' = p /\ outcome' = "none"
        /\ workDone' = FALSE /\ forced' = FALSE /\ lastTurnStopped' = FALSE
        /\ claims' \in BOOLEAN /\ aborted' = pendingCancel
    BY <1>1 DEF SubmitStarts, StartTurn
  <2> QED
    BY <2>1 DEF Entries, StopTypes
<1>2. CASE DrainEnds
  <2>1. CASE NoStart
    BY <2>1 DEF NoStart, turnVars
  <2>2. CASE StartTurn(head, TRUE) /\ head \in Entries
    BY <2>2 DEF StartTurn, Entries, StopTypes
  <2> QED
    BY <1>2, <2>1, <2>2 DEF DrainEnds, QueueTypes, Entries
<1>3. CASE TurnBegins
  BY <1>3 DEF TurnBegins, Settles
<1>4. CASE RunTurnThrows \/ WorkFinished
  BY <1>4 DEF RunTurnThrows, WorkFinished
<1>5. ASSUME NEW how \in {"cancelled", "failed"}, TurnBreaks(how)
      PROVE  TurnTypes'
  BY <1>5 DEF TurnBreaks, Settles
<1>6. CASE TurnCloses
  BY <1>6 DEF TurnCloses, Closes
<1>7. CASE EndTurn
  BY <1>7 DEF EndTurn
<1>8. CASE StopTurn \/ HardStopEnds
  BY <1>8 DEF StopTurn, HardStopEnds, Settles
<1>9. CASE UNCHANGED turnVars
  BY <1>9 DEF turnVars
<1> HIDE DEF TurnTypes, TypeOK
<1> QED
  BY <1>1, <1>2, <1>3, <1>4, <1>5, <1>6, <1>7, <1>8, <1>9
  DEF Next, Own, Outside, Decides, PromptSteps, vars, Submit, SubmitQueued,
      SubmitReads, SubmitEnds, SubmitWaits, SubmitQueues, DrainReads,
      DrainLooks, ShellStarts, ShellEnds, NoteRecorded, TurnHears, SubAgents,
      VendorGoesOn, BackgroundEnds, StopHeld, StopPending, StopBackground,
      BackgroundStopped, Escalate, Attach, Detach, IdleReached, IdleDecides,
      RetireAsked, RetireIfFree, RetireDecides, Signal, Dispose, Exit

\* A press of Stop, a turn and a submit change the flags a Stop is made of.
LEMMA StopTypesKept ==
  ASSUME TypeOK, [Next]_vars PROVE StopTypes'
<1> USE SessionWorkerAssumption DEF TypeOK, StopTypes, TurnTypes
<1>1. ASSUME NEW p \in Prompts, SubmitStarts(p) PROVE StopTypes'
  BY <1>1 DEF SubmitStarts, StartTurn
<1>2. ASSUME NEW p \in Prompts, SubmitEnds(p) \/ SubmitQueues(p)
      PROVE  StopTypes'
  <2>1. /\ pendingCancel' \in BOOLEAN /\ stopping' \in BOOLEAN
        /\ stopAnnounced' \in BOOLEAN
    BY <1>2 DEF SubmitEnds, SubmitQueues, EndSubmit
  <2> QED
    BY <1>2, <2>1 DEF SubmitEnds, SubmitQueues
<1>3. CASE DrainEnds
  <2>1. CASE NoStart
    BY <1>3, <2>1 DEF DrainEnds, NoStart
  <2>2. CASE StartTurn(head, TRUE)
    BY <1>3, <2>2 DEF DrainEnds, StartTurn
  <2> QED
    BY <1>3, <2>1, <2>2 DEF DrainEnds
<1>4. CASE RunTurnThrows \/ WorkFinished
  BY <1>4 DEF RunTurnThrows, WorkFinished
<1>5. CASE TurnCloses
  BY <1>5 DEF TurnCloses, Closes
<1>6. CASE EndTurn
  BY <1>6 DEF EndTurn
<1>7. CASE StopTurn \/ StopHeld \/ StopPending \/ StopBackground
  <2>1. stops' \in 0..MaxStops
    BY <1>7 DEF StopTurn, StopHeld, StopPending, StopBackground, Pressed
  <2>2. stopAnnounced' \in BOOLEAN /\ stopping' \in BOOLEAN
    BY <1>7 DEF StopTurn, StopHeld, StopPending, StopBackground, Announce
  <2> QED
    BY <1>7, <2>1, <2>2 DEF StopTurn, StopHeld, StopPending, StopBackground
<1>8. CASE BackgroundStopped \/ BackgroundEnds \/ VendorGoesOn \/ SubAgents
  BY <1>8 DEF BackgroundStopped, BackgroundEnds, VendorGoesOn, SubAgents,
              stopVars
<1>9. CASE Escalate \/ HardStopEnds \/ Exit
  BY <1>9 DEF Escalate, HardStopEnds, Exit
<1>10. CASE UNCHANGED <<stopVars, background>>
  BY <1>10 DEF stopVars
<1> HIDE DEF StopTypes, TypeOK, TurnTypes
<1> QED
  BY <1>1, <1>2, <1>3, <1>4, <1>5, <1>6, <1>7, <1>8, <1>9, <1>10
  DEF Next, Own, Outside, Decides, PromptSteps, vars, Submit, SubmitQueued,
      SubmitReads, SubmitWaits, DrainReads, DrainLooks, ShellStarts,
      ShellEnds, NoteRecorded, TurnHears, TurnBegins, TurnBreaks, Attach,
      Detach, IdleReached, IdleDecides, RetireAsked, RetireIfFree,
      RetireDecides, Signal, Dispose

\* The submits, the saved queue, what is owed to the model, and the drain.
LEMMA QueueTypesKept ==
  ASSUME TypeOK, [Next]_vars PROVE QueueTypes'
<1> USE SessionWorkerAssumption DEF TypeOK, QueueTypes
<1>0. Without(queue, doing) \in Seq(Entries)
  BY WithoutType
<1>1. ASSUME NEW p \in Prompts,
             \/ Submit(p) \/ SubmitQueued(p) \/ SubmitReads(p)
             \/ SubmitStarts(p) \/ SubmitWaits(p)
      PROVE  QueueTypes'
  BY <1>1 DEF Submit, SubmitQueued, SubmitReads, SubmitStarts, SubmitWaits,
              noteVars, drainVars
<1>2. ASSUME NEW p \in Prompts, SubmitEnds(p) PROVE QueueTypes'
  BY <1>2 DEF SubmitEnds, EndSubmit, noteVars, drainVars
<1>3. ASSUME NEW p \in Prompts, SubmitQueues(p) PROVE QueueTypes'
  BY <1>3 DEF SubmitQueues, EndSubmit, noteVars, drainVars, Entries
<1>4. CASE DrainReads \/ DrainLooks \/ DrainEnds
  <2>1. CASE DrainReads
    BY <2>1 DEF DrainReads, noteVars, Entries
  <2>2. CASE DrainLooks \/ DrainEnds
    BY <2>2 DEF DrainLooks, DrainEnds, noteVars
  <2> QED
    BY <1>4, <2>1, <2>2
<1>5. ASSUME NEW n \in Notes,
             ShellStarts(n) \/ ShellEnds(n) \/ NoteRecorded(n)
      PROVE  QueueTypes'
  BY <1>5 DEF ShellStarts, ShellEnds, NoteRecorded, drainVars, Entries
<1>6. CASE TurnHears \/ TurnBegins \/ TurnCloses \/ EndTurn
  BY <1>0, <1>6 DEF TurnHears, TurnBegins, TurnCloses, EndTurn, noteVars,
                    drainVars
<1>7. CASE Dispose
  BY <1>7 DEF Dispose, drainVars
<1>8. CASE UNCHANGED <<sub, queue, noteVars, drainVars>>
  BY <1>8 DEF noteVars, drainVars
<1> HIDE DEF QueueTypes, TypeOK
<1> QED
  BY <1>1, <1>2, <1>3, <1>4, <1>5, <1>6, <1>7, <1>8
  DEF Next, Own, Outside, Decides, PromptSteps, vars, RunTurnThrows,
      SubAgents, VendorGoesOn, BackgroundEnds, WorkFinished, TurnBreaks,
      StopHeld, StopTurn, StopPending, StopBackground, BackgroundStopped,
      Escalate, HardStopEnds, Attach, Detach, IdleReached, IdleDecides,
      RetireAsked, RetireIfFree, RetireDecides, Signal, Exit

\* The windows, the idle timer and what the worker goes for.
LEMMA ExitTypesKept ==
  ASSUME TypeOK, [Next]_vars PROVE ExitTypes'
<1> USE DEF TypeOK, ExitTypes
<1>1. CASE \E p \in Prompts : SubmitStarts(p)
  BY <1>1 DEF SubmitStarts
<1>2. CASE DrainEnds \/ RunTurnThrows \/ EndTurn
  BY <1>2 DEF DrainEnds, RunTurnThrows, EndTurn, Schedule
<1>3. CASE \E n \in Notes : NoteRecorded(n)
  BY <1>3 DEF NoteRecorded, Schedule
<1>4. CASE BackgroundEnds \/ BackgroundStopped
  BY <1>4 DEF BackgroundEnds, BackgroundStopped, Schedule
<1>5. CASE Attach \/ Detach \/ IdleReached
  BY <1>5 DEF Attach, Detach, IdleReached, Schedule
<1>6. ASSUME NEW works \in BOOLEAN,
             IdleDecides(works) \/ RetireDecides(works)
      PROVE  ExitTypes'
  BY <1>6 DEF IdleDecides, RetireDecides, Shutdown, Stays
<1>7. CASE RetireAsked \/ RetireIfFree \/ Signal
  BY <1>7 DEF RetireAsked, RetireIfFree, Signal, Shutdown
<1>8. CASE Exit
  BY <1>8 DEF Exit
<1>9. CASE UNCHANGED <<attached, exitVars>>
  BY <1>9 DEF exitVars
<1> HIDE DEF ExitTypes, TypeOK
<1> QED
  BY <1>1, <1>2, <1>3, <1>4, <1>5, <1>6, <1>7, <1>8, <1>9
  DEF Next, Own, Outside, Decides, PromptSteps, vars, Submit, SubmitQueued,
      SubmitReads, SubmitEnds, SubmitWaits, SubmitQueues, DrainReads,
      DrainLooks, ShellStarts, ShellEnds, TurnHears, TurnBegins, SubAgents,
      VendorGoesOn, WorkFinished, TurnBreaks, TurnCloses, StopHeld, StopTurn,
      StopPending, StopBackground, Escalate, HardStopEnds, Dispose

\* The types of the worker's state, for every instance.
THEOREM WorkerTypes == Spec => []TypeOK
<1>1. Init => TypeOK
  <2> SUFFICES ASSUME Init PROVE TypeOK
    OBVIOUS
  <2> USE SessionWorkerAssumption DEF Init, Entries
  <2>1. TurnTypes
    BY DEF TurnTypes
  <2>2. StopTypes
    <3>1. stops \in 0..MaxStops
      OBVIOUS
    <3> QED
      BY <3>1 DEF StopTypes
  <2>3. QueueTypes
    BY DEF QueueTypes
  <2>4. ExitTypes
    BY DEF ExitTypes
  <2> QED
    BY <2>1, <2>2, <2>3, <2>4 DEF TypeOK
<1>2. TypeOK /\ [Next]_vars => TypeOK'
  BY TurnTypesKept, StopTypesKept, QueueTypesKept, ExitTypesKept DEF TypeOK
<1> QED
  BY <1>1, <1>2, PTL DEF Spec

-----------------------------------------------------------------------------
(* Whose Stop it is.  A turn may throw and the worker may be told to go;    *)
(* a hard Stop does not outlast its turn, a Stop of the background work     *)
(* meets no turn, and no turn runs whole within one read (README, bounds).  *)

Usual == May \subseteq {"throw", "signal"}

\* What keeps a Stop with its turn: whatever would end a turn by force belongs
\* to a turn that was stopped; a Stop that waits for a turn waits only while
\* there is none; and a drain that is about to start a message comes after no
\* stopped turn.
StopInv ==
  /\ hardStop => turn # "none" /\ aborted
  /\ escalation => Controller /\ aborted
  /\ forced => Controller /\ aborted
  /\ pendingCancel => ~Controller
  /\ bgStop => turn = "none"
  /\ drain = "checking" => ~lastTurnStopped
  /\ CancelledWasStopped
  /\ StopFlagOwned

LEMMA StopInvKept ==
  ASSUME Usual, TypeOK, StopInv, [Next]_vars PROVE StopInv'
<1> USE DEF Usual, StopInv, CancelledWasStopped, StopFlagOwned, Controller
<1>0. /\ turn \in {"none", "starting", "running", "saving", "settling",
                   "closing"}
      /\ "slowStop" \notin May /\ "bgStopInTurn" \notin May
      /\ "slowRead" \notin May
  BY DEF TypeOK, TurnTypes
<1>1. ASSUME NEW p \in Prompts, SubmitStarts(p) PROVE StopInv'
  BY <1>0, <1>1 DEF SubmitStarts, StartTurn, CanStart, Waits, drainVars
<1>2. ASSUME NEW p \in Prompts, SubmitEnds(p) \/ SubmitQueues(p)
      PROVE  StopInv'
  <2>1. /\ UNCHANGED <<turnVars, escalation, hardStop, bgStop, drain>>
        /\ \/ UNCHANGED <<pendingCancel, stopAnnounced>>
           \/ /\ pendingCancel /\ ~pendingCancel'
              /\ stopAnnounced' = (stopAnnounced /\ Controller)
    BY <1>2 DEF SubmitEnds, SubmitQueues, EndSubmit, drainVars
  <2>2. CASE UNCHANGED <<pendingCancel, stopAnnounced>>
    BY <2>1, <2>2 DEF turnVars
  <2>3. CASE pendingCancel /\ ~pendingCancel' /\ ~stopAnnounced'
    BY <2>1, <2>3 DEF turnVars
  <2> QED
    BY <2>1, <2>2, <2>3
<1>3. CASE DrainReads \/ DrainLooks
  BY <1>0, <1>3 DEF DrainReads, DrainLooks, turnVars, stopVars
<1>4. CASE DrainEnds
  <2>1. CASE NoStart
    BY <1>0, <1>4, <2>1 DEF DrainEnds, NoStart, turnVars
  <2>2. CASE StartTurn(head, TRUE) /\ CanStart
    BY <1>0, <1>4, <2>2 DEF DrainEnds, StartTurn, CanStart, Waits
  <2> QED
    BY <1>4, <2>1, <2>2 DEF DrainEnds
<1>5. ASSUME NEW n \in Notes, NoteRecorded(n) PROVE StopInv'
  BY <1>0, <1>5 DEF NoteRecorded, turnVars, stopVars
<1>6. CASE TurnBegins
  BY <1>0, <1>6 DEF TurnBegins, Settles, stopVars, drainVars
<1>7. CASE RunTurnThrows \/ WorkFinished
  <2>1. CASE RunTurnThrows
    <3>1. "slowRead" \notin May /\ "slowStop" \notin May
      BY DEF Usual
    <3>2. drain' = "checking" => ~lastTurnStopped'
      BY <2>1, <3>1 DEF RunTurnThrows, drainVars, StopInv
    <3>3. /\ ~hardStop' /\ ~escalation' /\ ~forced' /\ ~pendingCancel'
          /\ ~stopAnnounced' /\ turn' = "none"
      BY <2>1, <3>1 DEF RunTurnThrows
    <3> QED
      BY <3>2, <3>3 DEF StopInv, CancelledWasStopped, StopFlagOwned
  <2>2. CASE WorkFinished
    BY <1>0, <2>2 DEF WorkFinished, drainVars
  <2> QED
    BY <1>7, <2>1, <2>2
<1>8. ASSUME NEW how \in {"cancelled", "failed"}, TurnBreaks(how)
      PROVE  StopInv'
  BY <1>0, <1>8 DEF TurnBreaks, Settles, stopVars, drainVars
<1>9. CASE TurnCloses
  BY <1>0, <1>9 DEF TurnCloses, Closes, drainVars
<1>10. CASE EndTurn
  BY <1>0, <1>10 DEF EndTurn
<1>11. CASE StopHeld \/ StopTurn
  BY <1>0, <1>11 DEF StopHeld, StopTurn, Announce, turnVars, drainVars
<1>12. CASE StopPending \/ StopBackground
  BY <1>0, <1>12 DEF StopPending, StopBackground, Announce, turnVars,
                     drainVars
<1>13. CASE BackgroundStopped
  BY <1>0, <1>13 DEF BackgroundStopped, turnVars, drainVars
<1>14. CASE Escalate \/ HardStopEnds
  <2>1. CASE Escalate
    BY <2>1 DEF Escalate, turnVars, drainVars
  <2>2. CASE HardStopEnds /\ turn \in {"running", "saving"}
    BY <2>2 DEF HardStopEnds, Settles, drainVars
  <2>3. CASE HardStopEnds /\ turn \notin {"running", "saving"}
    BY <2>3 DEF HardStopEnds, drainVars
  <2> QED
    BY <1>14, <2>1, <2>2, <2>3
<1>15. CASE UNCHANGED <<turnVars, stopAnnounced, pendingCancel, escalation,
                        hardStop, bgStop, drainVars>>
  BY <1>15 DEF turnVars, drainVars
<1> HIDE DEF StopInv
<1> QED
  BY <1>1, <1>2, <1>3, <1>4, <1>5, <1>6, <1>7, <1>8, <1>9, <1>10, <1>11,
     <1>12, <1>13, <1>14, <1>15
  DEF Next, Own, Outside, Decides, PromptSteps, vars, stopVars, Submit,
      SubmitQueued, SubmitReads, SubmitWaits, ShellStarts, ShellEnds,
      TurnHears, SubAgents, VendorGoesOn, BackgroundEnds, Attach, Detach,
      IdleReached, IdleDecides, RetireAsked, RetireIfFree, RetireDecides,
      Signal, Dispose, Exit

\* What keeps a Stop with its turn holds in every state.
THEOREM StopInvariant == ASSUME Usual PROVE Spec => [](TypeOK /\ StopInv)
<1>1. Init => StopInv
  BY DEF Init, StopInv, CancelledWasStopped, StopFlagOwned, Controller
<1>2. TypeOK /\ StopInv /\ [Next]_vars => StopInv'
  BY StopInvKept
<1> QED
  BY <1>1, <1>2, WorkerTypes, PTL DEF Spec

\* A turn ends as stopped only if somebody stopped that turn or a submit it
\* came of: no timer or hard Stop left from an earlier turn ends it
\* (worker-live-commands.ts, hardStop).
THEOREM StoppedByItsStop ==
  ASSUME Usual PROVE Spec => []CancelledWasStopped
<1>1. StopInv => CancelledWasStopped
  BY DEF StopInv
<1> QED
  BY <1>1, StopInvariant, PTL

\* `stopAnnounced` is never left over from an earlier turn
\* (worker-context.ts): it is of a turn that stops, of a Stop that waits, or
\* of background work being stopped.
THEOREM FlagIsOwned == ASSUME Usual PROVE Spec => []StopFlagOwned
<1>1. StopInv => StopFlagOwned
  BY DEF StopInv
<1> QED
  BY <1>1, StopInvariant, PTL

-----------------------------------------------------------------------------
(* What a step may never do.                                                *)

\* The first Stop of a turn that has sub-agents aborts nothing
\* (worker-live-commands.ts, handleCancel): a flag left from an earlier Stop
\* would have it confirm at once.
THEOREM AgentsAreHeldFirst == ASSUME Usual PROVE Spec => AgentsHeldFirst
<1>1. ASSUME TypeOK, StopInv, [Next]_vars,
             turn = "running", agentsOpen, ~aborted, aborted'
      PROVE  agentAsked
  <2>1. ~stopAnnounced
    BY <1>1 DEF StopInv, StopFlagOwned, Controller
  <2>2. CASE StopTurn
    BY <1>1, <2>1, <2>2 DEF StopTurn
  <2>3. CASE UNCHANGED turnVars
    BY <1>1, <2>3 DEF turnVars
  <2>4. CASE RunTurnThrows \/ WorkFinished \/ HardStopEnds
    BY <1>1, <2>4 DEF RunTurnThrows, WorkFinished, HardStopEnds
  <2>5. CASE TurnCloses \/ \E how \in {"cancelled", "failed"} : TurnBreaks(how)
    BY <1>1, <2>5 DEF TurnCloses, TurnBreaks
  <2> QED
    BY <1>1, <2>2, <2>3, <2>4, <2>5
    DEF Next, Own, Outside, Decides, PromptSteps, vars, StartTurn, CanStart,
        NoStart, Submit, SubmitQueued, SubmitReads, SubmitStarts, SubmitEnds,
        SubmitWaits, SubmitQueues, DrainReads, DrainLooks, DrainEnds,
        ShellStarts, ShellEnds, NoteRecorded, TurnHears, TurnBegins, EndTurn,
        SubAgents, VendorGoesOn, BackgroundEnds, StopHeld, StopPending,
        StopBackground, BackgroundStopped, Escalate, Attach, Detach,
        IdleReached, IdleDecides, RetireAsked, RetireIfFree, RetireDecides,
        Signal, Dispose, Exit, turnVars
<1> QED
  BY <1>1, StopInvariant, PTL DEF Spec, AgentsHeldFirst

\* A Stop that waits is given up only by stopping a turn as it starts, or when
\* no submit is left that could become one (worker-commands.ts); or with a turn
\* that threw what nobody foresaw.
THEOREM WaitingStopIsKept == Spec => PendingStopKept
<1>1. ASSUME TypeOK, [Next]_vars, pendingCancel, ~pendingCancel'
      PROVE  \/ turn' = "starting" /\ aborted'
             \/ InFlight' = {} \/ RunTurnThrows
  <2>1. ASSUME NEW p \in Prompts, SubmitStarts(p)
        PROVE  turn' = "starting" /\ aborted'
    BY <1>1, <2>1 DEF SubmitStarts, StartTurn
  <2>2. ASSUME NEW p \in Prompts, SubmitEnds(p) \/ SubmitQueues(p)
        PROVE  InFlight' = {}
    <3>1. PICK how \in {"running", "gone", "queued", "retry"} :
            EndSubmit(p, how)
      BY <2>2 DEF SubmitEnds, SubmitQueues
    <3>2. InFlight = {p} /\ sub' = [sub EXCEPT ![p] = how]
      BY <1>1, <3>1 DEF EndSubmit
    <3> QED
      BY <1>1, <3>2 DEF InFlight, TypeOK, QueueTypes
  <2>3. CASE DrainEnds
    BY <1>1, <2>3 DEF DrainEnds, StartTurn, NoStart
  <2>4. CASE RunTurnThrows
    BY <2>4
  <2>5. CASE StopPending
    BY <1>1, <2>5 DEF StopPending
  <2>6. CASE UNCHANGED pendingCancel
    BY <1>1, <2>6
  <2> QED
    BY <2>1, <2>2, <2>3, <2>4, <2>5, <2>6, <1>1
    DEF Next, Own, Outside, Decides, PromptSteps, vars, stopVars, Submit,
        SubmitQueued, SubmitReads, SubmitWaits, DrainReads, DrainLooks,
        ShellStarts, ShellEnds, NoteRecorded, TurnHears, TurnBegins,
        SubAgents, VendorGoesOn, BackgroundEnds, WorkFinished, TurnBreaks,
        TurnCloses, EndTurn, StopHeld, StopTurn, StopBackground,
        BackgroundStopped, Escalate, HardStopEnds, Attach, Detach,
        IdleReached, IdleDecides, RetireAsked, RetireIfFree, RetireDecides,
        Signal, Dispose, Exit
<1> QED
  BY <1>1, WorkerTypes, PTL DEF Spec, PendingStopKept

\* The worker starts no queued message after a stopped turn (queue-next.ts),
\* though it reads the queue, and then the accounts, before it starts one.
THEOREM StoppedQueueIsKept == ASSUME Usual PROVE Spec => StoppedQueueWaits
<1>1. StopInv => (drain = "checking" => ~lastTurnStopped)
  BY DEF StopInv
<1> QED
  BY <1>1, StopInvariant, PTL DEF StoppedQueueWaits

\* The worker that goes by its own decision is free, though it waited before
\* it decided (worker-idle.ts, idleReached and retireIfFree).
THEOREM GoesWhenFree == Spec => LeavesFree
<1>1. ASSUME [Next]_vars, why = "none", why' \in {"idle", "replaced"}
      PROVE  /\ turn = "none" /\ drain = "idle"
             /\ why' = "replaced" =>
                  InFlight = {} /\ notifications = {} /\ Shells = {}
             /\ why' = "idle" => ~attached
  <2>1. ASSUME NEW works \in BOOLEAN, IdleDecides(works)
        PROVE  turn = "none" /\ drain = "idle" /\ why' = "idle" /\ ~attached
    BY <1>1, <2>1 DEF IdleDecides, Shutdown, Stays
  <2>2. ASSUME NEW works \in BOOLEAN, RetireDecides(works)
        PROVE  why' = "replaced" /\ ~Held("retire")
    BY <1>1, <2>2 DEF RetireDecides, Shutdown, Stays
  <2>3. CASE Signal
    BY <1>1, <2>3 DEF Signal, Shutdown
  <2>4. CASE UNCHANGED why
    BY <1>1, <2>4
  <2>5. \/ \E works \in BOOLEAN : IdleDecides(works) \/ RetireDecides(works)
        \/ Signal \/ UNCHANGED why
    BY <1>1
    DEF Next, Own, Outside, Decides, PromptSteps, vars, exitVars, Submit,
        SubmitQueued, SubmitReads, SubmitStarts, SubmitEnds, SubmitWaits,
        SubmitQueues, DrainReads, DrainLooks, DrainEnds, ShellStarts,
        ShellEnds, NoteRecorded, TurnHears, TurnBegins, RunTurnThrows,
        SubAgents, VendorGoesOn, BackgroundEnds, WorkFinished, TurnBreaks,
        TurnCloses, EndTurn, StopHeld, StopTurn, StopPending, StopBackground,
        BackgroundStopped, Escalate, HardStopEnds, Attach, Detach,
        IdleReached, RetireAsked, RetireIfFree, Dispose, Exit
  <2> QED
    BY <2>1, <2>2, <2>3, <2>4, <2>5 DEF Held
<1> QED
  BY <1>1, PTL DEF Spec, LeavesFree
=============================================================================
