---------------------------- MODULE PlaceProofs ----------------------------
EXTENDS LiveInputProofs

-----------------------------------------------------------------------------
(* A message is in one place.                                              *)

USE DEF turnVars, memVars, diskVars, jobVars, userVars, endVars

\* Where a message is, as long as every save is made, and made before the turn
\* ends.
Placed ==
  /\ saved # "failed" /\ late = {}
  /\ ~bound => /\ inTurn = savedTurn
               /\ turn # "none" => earlier = savedTurn
  /\ inTurn \cap In(memQ) = {} /\ savedTurn \cap In(diskQ) = {}
  /\ inTurn \cap In(diskQ) \subseteq base
  /\ In(memQ) \cap In(diskQ) \subseteq base
  /\ (inTurn \cup savedTurn) \cap ran = {}
  /\ turn = "claiming" => active \notin inTurn
  /\ at \in {"record", "recordNext"} => item \in inTurn
  /\ delivered \subseteq inTurn

\* A save agrees with what it finds.
LEMMA StoreKeepsPlaced ==
  ASSUME IInv, Placed, Store
  PROVE  /\ inTurn' \cap In(memQ') = {} /\ savedTurn' \cap In(diskQ') = {}
         /\ inTurn' \cap In(diskQ') \subseteq base'
         /\ In(memQ') \cap In(diskQ') \subseteq base'
         /\ savedTurn' = inTurn'
         /\ inTurn' = inTurn
         /\ delivered \subseteq inTurn'
<1>1. /\ In(diskQ') = (In(diskQ) \ (base \ In(memQ))) \cup (In(memQ) \ base)
      /\ base' = In(memQ) /\ savedTurn' = inTurn
      /\ memQ' = memQ /\ inTurn' = inTurn
  BY StoreIs
<1>2. inTurn \cap In(diskQ') = {}
  BY <1>1 DEF Placed
<1> QED
  BY <1>1, <1>2 DEF Placed

\* Only a message the copy knows the place of moves within it.
LEMMA PlacedByJobs ==
  ASSUME IInv, Placed, Jobs
  PROVE  Placed'
<1> USE DEF IInv
<1>1. CASE StartSubmit
  <2>1. tail # <<>> /\ at = "ready" /\ Doing.kind = "submit" /\ saved = "none"
    BY <1>1 DEF StartSubmit, JobsShape, Awaits
  <2>2. Doing.msg \in Msgs /\ Nowhere(Doing.msg) /\ ~Wrote("job", None)
    BY <2>1, DoingIs DEF FreshIsNowhere, JobsShape, Awaits
  <2>3. CASE QueueIt(Doing.msg, Doing.steer)
    <3>1. In(memQ') = In(memQ) \cup {Doing.msg} /\ at' = "queue"
      BY <2>2, <2>3, QueuedIs
    <3>2. inTurn' = inTurn /\ base' = base
      BY <1>1 DEF StartSubmit
    <3> QED
      BY <1>1, <2>2, <3>1, <3>2 DEF StartSubmit, Placed, Nowhere
  <2>4. CASE at' = "offer" /\ UNCHANGED memVars
    BY <1>1, <2>4 DEF StartSubmit, Placed
  <2> QED
    BY <1>1, <2>3, <2>4 DEF StartSubmit
<1>2. CASE StartDeliver
  <2>1. at' \notin {"record", "recordNext"}
    BY <1>2, JobGoesOn DEF StartDeliver
  <2> QED
    BY <1>2, <2>1 DEF StartDeliver, Placed
<1>3. CASE StartSendNow
  <2>1. at' \notin {"record", "recordNext"}
    BY <1>3, JobGoesOn DEF StartSendNow
  <2> QED
    BY <1>3, <2>1 DEF StartSendNow, Placed
<1>4. CASE AfterRecord
  <2>1. saved = "ok" /\ at = "record"
    BY <1>4 DEF AfterRecord, Resumed, Placed, TypeOK
  <2>2. at' = "ready"
    BY <1>4, <2>1 DEF AfterRecord, JobDone
  <2> QED
    BY <1>4, <2>1, <2>2 DEF AfterRecord, Resumed, Placed
<1>5. CASE AfterRecordNext
  <2>1. at = "recordNext" /\ tail # <<>>
    BY <1>5 DEF AfterRecordNext, Resumed, JobsShape
  <2>2. at' \notin {"record", "recordNext"}
    BY <1>5, <2>1, JobGoesOn DEF AfterRecordNext
  <2>3. delivered' \subseteq delivered \cup {item}
    BY <1>5 DEF AfterRecordNext
  <2> QED
    BY <1>5, <2>1, <2>2, <2>3 DEF AfterRecordNext, Resumed, Placed
<1>6. CASE AfterQueue
  <2>1. at = "queue" /\ tail # <<>> /\ saved = "ok"
    BY <1>6 DEF AfterQueue, Resumed, JobsShape, Placed, TypeOK
  <2>2. NextOffer(delivered) \/ JobDone(delivered)
    BY <1>6, <2>1 DEF AfterQueue
  <2>3. at' \notin {"record", "recordNext"}
    BY <2>1, <2>2, JobGoesOn
  <2> QED
    BY <1>6, <2>1, <2>3 DEF AfterQueue, Resumed, Placed
<1>7. CASE AfterMark
  <2>1. at = "mark" /\ tail # <<>>
    BY <1>7 DEF AfterMark, Resumed, JobsShape
  <2>2. at' \notin {"record", "recordNext"}
    BY <1>7, <2>1, JobGoesOn DEF AfterMark
  <2> QED
    BY <1>7, <2>1, <2>2 DEF AfterMark, Resumed, Placed
<1> QED
  BY <1>1, <1>2, <1>3, <1>4, <1>5, <1>6, <1>7 DEF Jobs

\* A turn's own steps: the copy it reads agrees with what is stored, and
\* what it claims leaves both.
LEMMA PlacedByTurn ==
  ASSUME IInv, Placed, ~SavesFail, ~Lingers, TurnSteps
  PROVE  Placed'
<1> USE DEF IInv
<1>1. CASE ReadCopy
  <2>1. ~bound
    BY <1>1 DEF ReadCopy, Shape
  <2>2. at = "ready" /\ delivered = {}
    BY <2>1, UnboundIs
  <2> QED
    BY <1>1, <2>2 DEF ReadCopy, Placed
<1>2. CASE Claim
  <2>1. In(Without(memQ, {active})) = In(memQ) \ {active}
    BY WithoutIs DEF TypeOK
  <2>2. In(memQ') \subseteq In(memQ)
    BY <1>2, <2>1 DEF Claim, EndsUnbound
  <2>3. turn' = "claiming" => active \notin inTurn
    BY <1>2 DEF Claim, EndsUnbound, Placed
  <2> QED
    BY <1>2, <2>2, <2>3 DEF Claim, EndsUnbound, Placed
<1>3. CASE BeginFresh \/ Complete \/ Count \/ ReadHeld
  BY <1>3 DEF BeginFresh, Bind, Complete, Count, ReadHeld, Placed
<1>4. CASE EndTurn
  <2>1. In(memQ') = {} /\ inTurn' = savedTurn /\ delivered' = {}
    BY <1>4 DEF EndTurn, In
  <2>2. late' = {} /\ at' = "ready" /\ saved' = "none" /\ turn' = "none"
    BY <1>4 DEF EndTurn, Placed
  <2> QED
    BY <1>4, <2>1, <2>2 DEF EndTurn, Placed
<1>5. ASSUME NEW ok \in BOOLEAN, ReturnHeld(ok)
      PROVE  Placed'
  <2>1. In(Without(diskQ, held)) = In(diskQ) \ held
    BY WithoutIs DEF TypeOK
  <2>2. In(diskQ') \subseteq In(diskQ) /\ savedTurn' = savedTurn
    BY <1>5, <2>1 DEF ReturnHeld, DiskDrop
  <2>3. turn' # "claiming"
    BY <1>5 DEF ReturnHeld
  <2> QED
    BY <1>5, <2>2, <2>3 DEF ReturnHeld, Placed
<1>6. ASSUME NEW ok \in BOOLEAN, Consume(ok)
      PROVE  Placed'
  <2>1. In(Without(diskQ, {active})) = In(diskQ) \ {active}
    BY WithoutIs DEF TypeOK
  <2>2. In(diskQ') \subseteq In(diskQ) /\ savedTurn' = savedTurn
    BY <1>6, <2>1 DEF Consume, DiskDrop
  <2>3. active \in In(diskQ) => ~bound
    BY LiveInputAssumption DEF RanIsOver, TypeOK, In
  <2>4. active \in In(diskQ) => active \notin inTurn \cup savedTurn
    BY <2>3 DEF Placed, Shape
  <2>5. ran' = IF active \in In(diskQ) THEN ran \cup {active} ELSE ran
    BY <1>6 DEF Consume
  <2> QED
    BY <1>6, <2>2, <2>4, <2>5 DEF Consume, Placed
<1>7. ASSUME NEW ok \in BOOLEAN, Discard(ok)
      PROVE  Placed'
  <2>1. savedTurn' \subseteq savedTurn /\ diskQ' = diskQ
    BY <1>7 DEF Discard
  <2>2. ~bound => savedTurn' = savedTurn
    BY <1>7 DEF Discard, Placed
  <2>3. turn' = "closing" /\ turn # "none"
    BY <1>7 DEF Discard
  <2> QED
    BY <1>7, <2>1, <2>2, <2>3 DEF Discard, Placed
<1> QED
  BY <1>1, <1>2, <1>3, <1>4, <1>5, <1>6, <1>7 DEF TurnSteps

\* The vendor's answers move a message from the copy to the turn or back.
LEMMA PlacedByVendor ==
  ASSUME IInv, Placed, Vendor
  PROVE  Placed'
<1> USE DEF IInv
<1>1. CASE PortOpens \/ Window \/ PortCloses
  BY <1>1 DEF PortOpens, Window, PortCloses, Placed
<1>2. CASE Finish \/ \E how \in {"cancelled", "failed"} : Break(how)
  BY <1>2 DEF Finish, Break, AttemptOver, Unwinds, Placed, Shape
<1>3. ASSUME NEW m \in Msgs, Unheard(m)
      PROVE  Placed'
  <2>1. In(memQ') = In(memQ) \cup {m}
    BY <1>3, AddedIs DEF TypeOK, NoTwice, Unheard
  <2>2. at = "ready" /\ m \in inTurn /\ bound
    BY <1>3 DEF Unheard, JobsShape, Placed, Shape
  <2> QED
    BY <1>3, <2>1, <2>2 DEF Unheard, Placed
<1>4. CASE OfferTaken \/ OfferLeft
  <2>1. tail # <<>> /\ bound /\ ~Wrote("job", None) /\ item \in Msgs
    BY <1>4, DoingIs DEF OfferTaken, OfferLeft, JobsShape, Awaits
  <2>2. at = "offer" => Nowhere(item)
    BY <2>1, DoingIs DEF JobsShape, FreshIsNowhere
  <2>3. CASE QueueIt(item, TRUE) /\ at = "offer" /\ inTurn' = inTurn
    <3>1. In(memQ') = In(memQ) \cup {item} /\ at' = "queue"
      BY <2>1, <2>3, QueuedIs
    <3>2. UNCHANGED <<base, diskQ, savedTurn, ran, turn, active, delivered,
                      saved, bound, late, earlier>>
      BY <1>4 DEF OfferTaken, OfferLeft
    <3> QED
      BY <2>2, <2>3, <3>1, <3>2 DEF Nowhere, Placed
  <2>4. CASE JobDone(delivered) /\ UNCHANGED <<memQ, inTurn>>
    <3>1. at' = "ready"
      BY <2>4 DEF JobDone
    <3>2. UNCHANGED <<base, diskQ, savedTurn, ran, turn, active, delivered,
                      saved, bound, late, earlier>>
      BY <1>4 DEF OfferTaken, OfferLeft
    <3> QED
      BY <2>4, <3>1, <3>2 DEF Placed
  <2>5. CASE RecordSteer(item) /\ UNCHANGED item /\ at \in {"offer", "offerNext"}
    <3>1. In(memQ') = In(memQ) \ {item} /\ inTurn' = inTurn \cup {item}
      BY <2>5, WithoutIs DEF TypeOK, RecordSteer
    <3>2. item \notin ran /\ (item \in In(diskQ) => item \in base)
      BY <2>2, <2>5 DEF Nowhere, InOrder, RanIsOver, Placed
    <3>3. UNCHANGED <<base, diskQ, savedTurn, ran, turn, active, delivered,
                      saved, bound, late, earlier>>
      BY <1>4 DEF OfferTaken, OfferLeft
    <3>4. turn # "claiming"
      BY <2>1 DEF Shape
    <3> QED
      BY <2>1, <2>5, <3>1, <3>2, <3>3, <3>4 DEF Placed
  <2> QED
    BY <1>4, <2>3, <2>4, <2>5 DEF OfferTaken, OfferLeft
<1> QED
  BY <1>1, <1>2, <1>3, <1>4 DEF Vendor

\* People's commands.
LEMMA PlacedByPeople ==
  ASSUME IInv, Placed, ~SavesFail,
         People \/ \E m \in Msgs : Commands(m) \/ TakeBackResumes(m)
  PROVE  Placed'
<1> USE DEF IInv
<1>1. CASE SendQueued \/ StartTurn(None)
  BY <1>1 DEF SendQueued, StartTurn, Placed
<1>2. ASSUME NEW x \in Msgs, Pick(x) \/ DropPick(x) \/ StartTurn(x) \/ Type(x)
      PROVE  Placed'
  BY <1>2 DEF Pick, DropPick, StartTurn, Type, Placed
<1>3. ASSUME NEW x \in Msgs, TakeBack(x) \/ TakeBackResumes(x)
      PROVE  Placed'
  <2>1. In(Without(memQ, {x})) = In(memQ) \ {x}
    BY WithoutIs DEF TypeOK
  <2>2. In(memQ') \subseteq In(memQ)
    BY <1>3, <2>1 DEF TakeBack, TakeBackResumes
  <2> QED
    BY <1>3, <2>2 DEF TakeBack, TakeBackResumes, Placed
<1>4. ASSUME NEW x \in Msgs, NEW ok \in BOOLEAN, TypeToDisk(x, ok)
      PROVE  Placed'
  <2>1. Nowhere(x)
    BY <1>4 DEF TypeToDisk, FreshIsNowhere, Fresh
  <2>2. In(diskQ') = In(diskQ) \cup {x} /\ savedTurn' = savedTurn
    BY <1>4, AddedIs DEF TypeOK, NoTwice, TypeToDisk, DiskAdd
  <2> QED
    BY <1>4, <2>1, <2>2 DEF TypeToDisk, Nowhere, Placed
<1>5. ASSUME NEW x \in Msgs, SubmitRejected(x) \/ ReadTakeBack(x)
      PROVE  Placed'
  BY <1>5 DEF SubmitRejected, ReadTakeBack, Placed
<1>6. ASSUME NEW x \in Msgs, NEW ok \in BOOLEAN, Submit(x, ok)
      PROVE  Placed'
  BY <1>6 DEF Submit, Placed
<1>7. ASSUME NEW x \in Msgs, NEW ok \in BOOLEAN, WriteTakeBack(x, ok)
      PROVE  Placed'
  <2>1. In(diskQ') \subseteq In(diskQ) /\ savedTurn' = savedTurn
    BY <1>7, WithoutIs DEF TypeOK, WriteTakeBack, DiskDrop
  <2> QED
    BY <1>7, <2>1 DEF WriteTakeBack, Placed
<1> QED
  BY <1>1, <1>2, <1>3, <1>4, <1>5, <1>6, <1>7 DEF People, Commands

\* The saves of the chain.
LEMMA PlacedBySaves ==
  ASSUME IInv, Placed, ~SavesFail, NEW ok \in BOOLEAN, ChainSaves(ok)
  PROVE  Placed'
<1> USE DEF IInv
<1>1. CASE SaveStart(ok)
  <2>1. /\ Store /\ ran' = ran \cup {active} /\ turn' = "open" /\ bound'
        /\ UNCHANGED <<at, item, delivered, saved, active, late>>
    BY <1>1 DEF SaveStart, Bind
  <2>2. turn = "claiming" /\ ~bound
    <3>1. Wrote("start", None) /\ writes # <<>>
      BY <1>1, SaveOver DEF SaveStart, Wrote
    <3>2. ~bound
      BY <3>1 DEF Shape
    <3> QED
      BY <3>1, <3>2, UnboundIs
  <2>3. active \notin inTurn
    BY <2>2 DEF Placed
  <2> QED
    BY <2>1, <2>3, StoreKeepsPlaced DEF Placed
<1>2. CASE SaveJob(ok)
  <2>1. Store /\ saved' # "failed"
    BY <1>2 DEF SaveJob, StoreOrFail
  <2> QED
    BY <1>2, <2>1, StoreKeepsPlaced DEF SaveJob, Placed
<1>3. CASE SaveEnd(ok)
  <2>1. Store
    BY <1>3 DEF SaveEnd, StoreOrFail
  <2> QED
    BY <1>3, <2>1, StoreKeepsPlaced DEF SaveEnd, Placed, Shape
<1>5. CASE SaveFlush(ok)
  <2>1. Store \/ UNCHANGED <<memVars, diskVars>>
    BY <1>5 DEF SaveFlush, StoreOrFail
  <2>2. turn' # "claiming" /\ turn # "none"
    BY <1>5, SaveOver DEF SaveFlush, Shape, Wrote
  <2>3. UNCHANGED <<active, at, item, delivered, saved, ran, bound, late, earlier>>
    BY <1>5 DEF SaveFlush
  <2> QED
    BY <2>1, <2>2, <2>3, StoreKeepsPlaced DEF Placed
<1>4. ASSUME NEW m \in Msgs, SaveTakeBack(m, ok) \/ SaveRequeue(m, ok)
      PROVE  Placed'
  <2>1. Store
    BY <1>4 DEF SaveTakeBack, SaveRequeue, StoreOrFail
  <2>2. UNCHANGED <<turn, active, at, item, delivered, saved, ran, bound,
                    late, earlier>>
    BY <1>4 DEF SaveTakeBack, SaveRequeue
  <2> QED
    BY <2>1, <2>2, StoreKeepsPlaced DEF Placed
<1> QED
  BY <1>1, <1>2, <1>3, <1>4, <1>5 DEF ChainSaves

\* Every step keeps a message in its place, if every save is made in time.
LEMMA PlacedHolds ==
  ASSUME IInv, Placed, ~SavesFail, ~Lingers, [Next]_vars
  PROVE  Placed'
<1>1. CASE UNCHANGED vars
  BY <1>1 DEF vars, Placed
<1>2. CASE Jobs
  BY <1>2, PlacedByJobs
<1>3. CASE TurnSteps
  BY <1>3, PlacedByTurn
<1>4. CASE Vendor
  BY <1>4, PlacedByVendor
<1>5. CASE People \/ \E m \in Msgs : Commands(m) \/ TakeBackResumes(m)
  BY <1>5, PlacedByPeople
<1>6. CASE \E ok \in BOOLEAN : ChainSaves(ok)
  BY <1>6, PlacedBySaves
<1>7. ~LateSaves
  BY DEF LateSaves, Placed
<1> QED
  BY <1>1, <1>2, <1>3, <1>4, <1>5, <1>6, <1>7 DEF Next

\* (OnePlace) A message is in one place, the queue or a turn, in memory
\* as on disk: no interleaving of submits, take-backs, the vendor's
\* answers and the chain's saves has it in both, as long as no save fails.
THEOREM MessageInOnePlace ==
  ASSUME ~SavesFail, ~Lingers
  PROVE  Spec => []OnePlace
<1>1. Init => Placed
  BY DEF Init, Placed, In
<1>2. IInv /\ Placed /\ [Next]_vars => Placed'
  BY PlacedHolds
<1>3. IInv /\ Placed => OnePlace
  BY DEF IInv, NoTwice, NoDup, Placed, OnePlace
<1> QED
  BY <1>1, <1>2, <1>3, Invariant, PTL DEF Spec
-----------------------------------------------------------------------------
(* What the attempt leaves to its turn's end.                              *)

\* What one save of the chain does.
LEMMA SavePays ==
  ASSUME IInv, Placed, ~SavesFail, NEW ok \in BOOLEAN, ChainSaves(ok)
  PROVE  /\ Store \/ UNCHANGED <<memVars, diskVars, saved>>
         /\ ran \subseteq ran' /\ back \subseteq back'
         /\ turn = "claiming" => active \in ran'
         /\ turn' # "claiming" \/ turn = turn'
         /\ \A m \in Msgs : takeback[m] = "saving" =>
              takeback'[m] = "saving" \/ m \in back'
         /\ UNCHANGED <<tail, at, item, delivered, answer>>
         /\ saved' = saved \/ (saved = "none" /\ at \in Awaits)
<1> USE DEF IInv
<1>1. CASE SaveStart(ok)
  BY <1>1 DEF SaveStart, Bind
<1>2. CASE SaveJob(ok)
  <2>1. Wrote("job", None)
    BY <1>2, SaveOver DEF SaveJob, Wrote
  <2>2. saved = "none" /\ at \in Awaits /\ turn # "claiming"
    BY <2>1, UnboundIs DEF JobsShape, Shape
  <2>3. Store
    BY <1>2 DEF SaveJob, StoreOrFail
  <2> QED
    BY <1>2, <2>2, <2>3 DEF SaveJob
<1>3. CASE SaveEnd(ok)
  <2>1. Wrote("end", None)
    <3>1. writes \in Seq(SaveType) /\ writes # <<>> /\ Head(writes) = <<"end", None>>
      BY <1>3 DEF SaveEnd, TypeOK
    <3>2. Head(writes) \in In(writes)
      BY <3>1, TailIs
    <3> QED
      BY <3>1, <3>2 DEF Wrote
  <2>2. turn = "saving"
    BY <2>1 DEF Shape
  <2> QED
    BY <1>3, <2>2 DEF SaveEnd, StoreOrFail
<1>4. ASSUME NEW m \in Msgs, SaveTakeBack(m, ok)
      PROVE  /\ Store
             /\ ran \subseteq ran' /\ back \subseteq back'
             /\ turn # "claiming" /\ turn = turn'
             /\ \A x \in Msgs : takeback[x] = "saving" =>
                  takeback'[x] = "saving" \/ x \in back'
             /\ UNCHANGED <<tail, at, item, delivered, answer, saved>>
  <2>1. Wrote("takeBack", m)
    BY <1>4, SaveOver DEF SaveTakeBack, Wrote
  <2>2. turn # "claiming"
    BY <2>1, UnboundIs DEF Shape
  <2>3. Store /\ Returned(m)
    BY <1>4 DEF SaveTakeBack, StoreOrFail
  <2>4. m \in back' /\ \A x \in Msgs \ {m} : takeback'[x] = takeback[x]
    BY <2>3 DEF Returned, TypeOK
  <2> QED
    BY <1>4, <2>2, <2>3, <2>4 DEF SaveTakeBack, Returned
<1>5. ASSUME NEW m \in Msgs, SaveRequeue(m, ok)
      PROVE  /\ Store /\ turn # "claiming"
             /\ UNCHANGED <<turn, ran, back, takeback, tail, at, item,
                            delivered, answer, saved>>
  <2>1. Wrote("requeue", m)
    BY <1>5, SaveOver DEF SaveRequeue, Wrote
  <2>2. turn # "claiming"
    BY <2>1, UnboundIs DEF Shape
  <2> QED
    BY <1>5, <2>2 DEF SaveRequeue
<1>6. CASE SaveFlush(ok)
  <2>1. Wrote("flush", None)
    BY <1>6, SaveOver DEF SaveFlush, Wrote
  <2>2. turn = "unwinding"
    BY <2>1 DEF Shape
  <2> QED
    BY <1>6, <2>2 DEF SaveFlush, StoreOrFail
<1> QED
  BY <1>1, <1>2, <1>3, <1>4, <1>5, <1>6 DEF ChainSaves

\* Every save is made, each before its turn ends, and no turn is ended by
\* force.
Usual == ~Lingers /\ ~HardStops /\ ~SavesFail

Recording == at \in {"record", "recordNext"} /\ saved = "none"
Attempt == {"open", "completing", "saving", "unwinding"}

\* Once the attempt is over the turn on disk is the one in memory, and a
\* stopped turn that is not kept has nothing on it that was not there before.
Settled ==
  /\ port => turn \in Attempt
  /\ turn = "saving" => ~pending
  /\ turn = "unwinding" => ~port \/ (~pending /\ outcome = "completed")
  /\ at \in Awaits /\ saved = "none" => Wrote("job", None)
  /\ \A m \in Msgs : Wrote("requeue", m) => turn = "open"
  /\ \A m \in inTurn \ savedTurn : Recording /\ m = item
  /\ \A m \in savedTurn \ inTurn : Wrote("requeue", m)
  /\ Recording => /\ turn \in Attempt
                  /\ Precede("job", "end", writes)
                  /\ Precede("job", "flush", writes)
  /\ diskFlag \subseteq In(diskQ)
  /\ held # {} => turn \in {"returning", "discarding"}
  /\ turn \in {"counted", "discarding"}
        \/ (turn = "returning" /\ outcome = "cancelled")
       => keeps \/ savedTurn = earlier

\* Once the attempt is over, the stored turn has what the turn in memory
\* has.
LEMMA SettledIs ==
  ASSUME IInv, Settled, turn \notin Attempt
  PROVE  inTurn = savedTurn
<1>1. inTurn \subseteq Msgs /\ savedTurn \subseteq Msgs
  BY DEF IInv, TypeOK
<1> QED
  BY <1>1 DEF Settled, Attempt

\* The broker's jobs.
LEMMA SettledByJobs ==
  ASSUME IInv, Placed, Settled, Jobs
  PROVE  Settled'
<1> USE DEF IInv
<1>1. ~Recording /\ tail # <<>>
  BY DEF Jobs, StartSubmit, StartDeliver, StartSendNow, AfterRecord,
     AfterRecordNext, AfterQueue, AfterMark, Resumed, Recording, JobsShape
<1>2. /\ at' \notin {"record", "recordNext"}
      /\ \/ UNCHANGED writes /\ (at' \in Awaits => saved' # "none")
         \/ In(writes') = In(writes) \cup {<<"job", None>>}
      /\ UNCHANGED <<turn, outcome, pending, port, inTurn, diskVars, endVars>>
  <2>1. CASE StartSubmit
    <3>1. ~Wrote("job", None) /\ (Doing.kind = "submit" => Doing.msg \in Msgs)
      BY <1>1, <2>1, DoingIs DEF StartSubmit, JobsShape, Awaits
    <3>2. CASE QueueIt(Doing.msg, Doing.steer)
      BY <2>1, <3>1, <3>2, QueuedIs DEF StartSubmit
    <3>3. CASE at' = "offer" /\ UNCHANGED <<memVars, writes>>
      BY <2>1, <3>3 DEF StartSubmit, Awaits
    <3> QED
      BY <2>1, <3>2, <3>3 DEF StartSubmit
  <2>2. CASE StartDeliver
    <3>1. at' \in {"ready", "offerNext"}
      BY <1>1, <2>2, JobGoesOn DEF StartDeliver
    <3> QED
      BY <2>2, <3>1 DEF StartDeliver, Awaits
  <2>3. CASE StartSendNow
    <3>1. CASE NextOffer(delivered) \/ JobDone(delivered)
      <4>1. at' \in {"ready", "offerNext"}
        BY <1>1, <3>1, JobGoesOn
      <4> QED
        BY <2>3, <4>1 DEF StartSendNow, Awaits
    <3>2. CASE Ask("job") /\ at' = "mark"
      <4>1. ~Wrote("job", None)
        BY <2>3 DEF StartSendNow, JobsShape, Awaits
      <4>2. In(writes') = In(writes) \cup {<<"job", None>>}
        BY <3>2, <4>1, JobAsks DEF Ask
      <4> QED
        BY <2>3, <3>2, <4>2 DEF StartSendNow
    <3> QED
      BY <2>3, <3>1, <3>2 DEF StartSendNow
  <2>4. CASE AfterRecord
    <3>1. saved = "ok"
      BY <2>4 DEF AfterRecord, Resumed, Placed, TypeOK
    <3> QED
      BY <2>4, <3>1 DEF AfterRecord, JobDone, Awaits
  <2>5. CASE AfterRecordNext
    <3>1. at' \in {"ready", "offerNext"}
      BY <1>1, <2>5, JobGoesOn DEF AfterRecordNext
    <3> QED
      BY <2>5, <3>1 DEF AfterRecordNext, Awaits
  <2>6. CASE AfterQueue
    <3>1. saved = "ok"
      BY <2>6 DEF AfterQueue, Resumed, Placed, TypeOK
    <3>2. NextOffer(delivered) \/ JobDone(delivered)
      BY <2>6, <3>1 DEF AfterQueue
    <3>3. at' \in {"ready", "offerNext"}
      BY <1>1, <3>2, JobGoesOn
    <3> QED
      BY <2>6, <3>3 DEF AfterQueue, Awaits
  <2>7. CASE AfterMark
    <3>1. at' \in {"ready", "offerNext"}
      BY <1>1, <2>7, JobGoesOn DEF AfterMark
    <3> QED
      BY <2>7, <3>1 DEF AfterMark, Awaits
  <2> QED
    BY <2>1, <2>2, <2>3, <2>4, <2>5, <2>6, <2>7 DEF Jobs
<1>3. \A m \in Msgs : Wrote("requeue", m)' <=> Wrote("requeue", m)
  BY <1>2 DEF Wrote
<1>4. at' \in Awaits /\ saved' = "none" => Wrote("job", None)'
  BY <1>2 DEF Wrote
<1>5. inTurn \subseteq Msgs /\ savedTurn \subseteq Msgs
  BY DEF TypeOK
<1> QED
  BY <1>1, <1>2, <1>3, <1>4, <1>5 DEF Settled, Recording

\* The vendor's answers.
LEMMA SettledByVendor ==
  ASSUME IInv, Settled, Usual, Vendor
  PROVE  Settled'
<1> USE DEF IInv
<1>0. inTurn \subseteq Msgs /\ savedTurn \subseteq Msgs
  BY DEF TypeOK
<1>1. CASE PortOpens \/ Window \/ PortCloses
  BY <1>1 DEF PortOpens, Window, PortCloses, Settled, Attempt, Recording, Wrote
<1>2. CASE Finish
  <2>1. \A m \in Msgs : ~Wrote("requeue", m)
    BY <1>2 DEF Finish, AttemptOver, Wrote
  <2>2. /\ UNCHANGED <<port, at, saved, item, writes, inTurn, diskVars, pending,
                      endVars>>
        /\ turn = "open" /\ turn' = "completing"
    BY <1>2 DEF Finish, AttemptOver
  <2> QED
    BY <1>0, <2>1, <2>2 DEF Settled, Attempt, Recording, Wrote
<1>5. ASSUME NEW how \in {"cancelled", "failed"}, Break(how)
      PROVE  Settled'
  <2>1. UNCHANGED <<port, at, saved, item, inTurn, diskVars, pending, endVars>>
    BY <1>5 DEF Break
  <2>2. CASE turn = "starting"
    <3>1. at = "ready" /\ ~port /\ \A m \in Msgs : ~Wrote("requeue", m)
      BY <2>2, UnboundIs DEF Shape
    <3>2. turn' = "settling" /\ writes' = writes
      BY <1>5, <2>2 DEF Break, AttemptOver
    <3> QED
      BY <2>1, <2>2, <3>1, <3>2 DEF Settled, Recording, Attempt, Awaits, Wrote
  <2>3. CASE turn # "starting"
    <3> DEFINE e == <<"flush", None>>
    <3>1. /\ e \in SaveType /\ e # <<"job", None>>
          /\ e[1] # "job" /\ e[1] # "requeue"
      BY DEF SaveType
    <3>2. /\ writes' = Append(writes, e) /\ turn = "open" /\ turn' = "unwinding"
          /\ ~port
          /\ \A w \in In(writes) : w[1] # "requeue"
      BY <1>5, <2>3 DEF Break, Unwinds, Ask, AttemptOver, Usual
    <3> HIDE DEF e
    <3>3. In(writes') = In(writes) \cup {e}
      BY <3>1, <3>2, AppendIs DEF TypeOK
    <3>4. /\ Precede("job", "end", writes) => Precede("job", "end", writes')
          /\ Precede("job", "flush", writes) => Precede("job", "flush", writes')
      BY <3>1, <3>2, AppendPrecede DEF TypeOK
    <3>5. \A m \in Msgs : ~Wrote("requeue", m) /\ ~Wrote("requeue", m)'
      <4>1. \A w \in In(writes') : w[1] # "requeue"
        BY <3>1, <3>2, <3>3
      <4> QED
        BY <3>2, <4>1 DEF Wrote
    <3>6. Wrote("job", None) => Wrote("job", None)'
      BY <3>3 DEF Wrote
    <3> QED
      BY <1>0, <2>1, <3>2, <3>4, <3>5, <3>6 DEF Settled, Recording, Attempt
  <2> QED
    BY <2>2, <2>3
<1>3. ASSUME NEW m \in Msgs, Unheard(m)
      PROVE  Settled'
  <2> DEFINE e == <<"requeue", m>>
  <2>1. e \in SaveType /\ e # <<"job", None>>
    BY DEF SaveType
  <2>2. writes' = Append(writes, e)
    BY <1>3 DEF Unheard
  <2>3. In(writes') = In(writes) \cup {e}
    <3> HIDE DEF e
    <3> QED
      BY <2>1, <2>2, AppendIs DEF TypeOK
  <2>4. at = "ready" /\ UNCHANGED <<at, saved, turn, port, pending, item, diskVars,
                                    outcome, endVars>>
        /\ turn = "open" /\ inTurn' = inTurn \ {m}
    BY <1>3 DEF Unheard, JobsShape
  <2> QED
    BY <1>0, <2>3, <2>4 DEF Settled, Attempt, Recording, Wrote, Awaits
<1>4. CASE OfferTaken \/ OfferLeft
  <2>1. /\ tail # <<>> /\ ~Wrote("job", None) /\ item \in Msgs
        /\ saved = "none" /\ at \in {"offer", "offerNext"}
        /\ UNCHANGED <<turn, outcome, pending, port, diskVars, saved, endVars>>
    BY <1>4, DoingIs DEF OfferTaken, OfferLeft, JobsShape, Awaits
  <2>2. inTurn \subseteq savedTurn
    BY <2>1 DEF Settled, Recording
  <2>3. CASE QueueIt(item, TRUE) /\ inTurn' = inTurn
    <3>1. In(writes') = In(writes) \cup {<<"job", None>>} /\ at' = "queue"
      BY <2>1, <2>3, QueuedIs
    <3> QED
      BY <1>0, <2>1, <2>2, <2>3, <3>1 DEF Settled, Recording, Wrote
  <2>4. CASE JobDone(delivered) /\ UNCHANGED <<writes, inTurn>>
    BY <2>1, <2>2, <2>4 DEF JobDone, Settled, Recording, Wrote, Awaits
  <2>5. CASE /\ RecordSteer(item) /\ UNCHANGED item /\ pending /\ port
             /\ at' \in {"record", "recordNext"}
    <3>1. inTurn' = inTurn \cup {item} /\ Ask("job")
      BY <2>5 DEF RecordSteer
    <3>2. In(writes') = In(writes) \cup {<<"job", None>>}
      BY <2>1, <3>1, JobAsks DEF Ask
    <3>3. turn \in {"open", "completing"} /\ ~Wrote("end", None) /\ ~Wrote("flush", None)
      BY <2>5 DEF Settled, Attempt, Shape
    <3>4. Precede("job", "end", writes') /\ Precede("job", "flush", writes')
      <4> DEFINE e == <<"job", None>>
      <4>1. e \in SaveType
        BY DEF SaveType
      <4>2. In(writes) \subseteq SaveType
        BY DEF TypeOK, In
      <4>3. \A d \in In(writes) : d[1] # "end" /\ d[1] # "flush"
        BY <3>3, <4>2 DEF SaveType, Wrote
      <4>4. Precede("job", "end", writes) /\ Precede("job", "flush", writes)
        BY <4>3 DEF Precede, In
      <4>5. writes' = Append(writes, e)
        BY <3>1 DEF Ask
      <4> HIDE DEF e
      <4> QED
        BY <4>1, <4>3, <4>4, <4>5, AppendPrecede DEF TypeOK
    <3> QED
      BY <1>0, <2>1, <2>2, <2>5, <3>1, <3>2, <3>3, <3>4
         DEF Settled, Recording, Attempt, Wrote
  <2> QED
    BY <1>4, <2>3, <2>4, <2>5 DEF OfferTaken, OfferLeft
<1> QED
  BY <1>1, <1>2, <1>3, <1>4, <1>5 DEF Vendor

\* The turn's own steps: it is settled only after its attempt is over.
LEMMA SettledByTurn ==
  ASSUME IInv, Placed, Settled, Usual, TurnSteps
  PROVE  Settled'
<1> USE DEF IInv
<1>0. inTurn \subseteq Msgs /\ savedTurn \subseteq Msgs
  BY DEF TypeOK
<1>1. (diskFlag \subseteq In(diskQ))'
  <2>1. CASE UNCHANGED <<diskQ, diskFlag>>
    BY <2>1 DEF Settled
  <2>2. ASSUME NEW X, DiskDrop(X)
        PROVE  (diskFlag \subseteq In(diskQ))'
    BY <2>2, WithoutIs DEF DiskDrop, TypeOK, Settled
  <2> QED
    BY <2>1, <2>2 DEF TurnSteps, ReadCopy, Claim, BeginFresh, Complete, Count,
       ReadHeld, EndTurn, ReturnHeld, Discard, Consume
<1>2. held' # {} => turn' \in {"returning", "discarding"}
  BY DEF TurnSteps, ReadCopy, Claim, EndsUnbound, BeginFresh, Bind, Complete,
     Count, ReadHeld, EndTurn, ReturnHeld, Discard, Consume, Settled
<1>3. CASE ~bound
  <2>1. at = "ready" /\ ~port /\ inTurn = savedTurn /\ ~pending
        /\ (turn # "none" => earlier = savedTurn)
    BY <1>3, UnboundIs DEF Placed
  <2>2. UNCHANGED <<at, savedTurn>> /\ inTurn' = savedTurn
        /\ (port' => port) /\ turn' \notin {"saving", "unwinding"}
        /\ earlier' = savedTurn
    BY <1>3, <2>1 DEF TurnSteps, ReadCopy, Claim, BeginFresh, Complete, Count,
       ReadHeld, EndTurn, ReturnHeld, Discard, Consume, DiskDrop, EndsUnbound,
       Bind, Shape
  <2>3. \A m \in Msgs : ~Wrote("requeue", m)'
    <3>1. \A m \in Msgs : ~Wrote("requeue", m)
      BY <1>3, UnboundIs
    <3>2. CASE writes' = writes
      BY <3>1, <3>2 DEF Wrote
    <3>3. CASE writes' # writes
      <4>1. \/ writes = <<>> /\ writes' = Append(writes, <<"start", None>>)
            \/ writes' = <<>>
        BY <1>3, <3>3, UnboundIs DEF TurnSteps, ReadCopy, Claim, BeginFresh,
           Complete, Count, ReadHeld, EndTurn, ReturnHeld, Discard, Consume,
           EndsUnbound, Shape
      <4> QED
        BY <4>1 DEF Wrote, In
    <3> QED
      BY <3>2, <3>3
  <2> QED
    BY <1>1, <1>2, <2>1, <2>2, <2>3 DEF Settled, Recording, Awaits
<1>4. CASE bound /\ Complete
  <2> DEFINE e == <<"end", None>>
  <2>1. e \in SaveType /\ e # <<"job", None>> /\ e[1] # "job" /\ e[1] # "requeue"
    BY DEF SaveType
  <2>2. writes' = Append(writes, e)
    BY <1>4 DEF Complete, Ask
  <2> HIDE DEF e
  <2>3. In(writes') = In(writes) \cup {e}
    BY <2>1, <2>2, AppendIs DEF TypeOK
  <2>4. /\ Precede("job", "end", writes) => Precede("job", "end", writes')
        /\ Precede("job", "flush", writes) => Precede("job", "flush", writes')
    BY <2>1, <2>2, AppendPrecede DEF TypeOK
  <2>5. UNCHANGED <<at, saved, port, item, inTurn, diskVars>>
        /\ turn = "completing" /\ turn' = "saving" /\ ~pending'
    BY <1>4 DEF Complete
  <2>6. \A m \in Msgs : Wrote("requeue", m)' <=> Wrote("requeue", m)
    BY <2>1, <2>3 DEF Wrote
  <2>7. Wrote("job", None)' <=> Wrote("job", None)
    BY <2>1, <2>3 DEF Wrote
  <2> QED
    BY <1>0, <1>1, <1>2, <2>4, <2>5, <2>6, <2>7 DEF Settled, Recording, Attempt
<1>5. CASE bound /\ ~Complete
  <2>1. turn \notin Attempt
    BY <1>5 DEF TurnSteps, ReadCopy, Claim, BeginFresh, Count, ReadHeld,
       EndTurn, ReturnHeld, Discard, Consume, Attempt, Shape
  <2>2. /\ ~port /\ inTurn = savedTurn /\ ~Recording
        /\ \A m \in Msgs : ~Wrote("requeue", m)
    BY <2>1, SettledIs DEF Settled, Attempt
  <2>3. savedTurn' = savedTurn
    <3>1. ASSUME NEW ok \in BOOLEAN, Discard(ok)
          PROVE  savedTurn' = savedTurn
      BY <3>1 DEF Discard, Settled
    <3> QED
      BY <1>5, <3>1 DEF TurnSteps, ReadCopy, Claim, BeginFresh, Count, ReadHeld,
         EndTurn, ReturnHeld, Consume, DiskDrop, Shape
  <2>4. /\ UNCHANGED <<at, saved, writes>> \/ (at' = "ready" /\ writes' = <<>>)
        /\ inTurn' = savedTurn
        /\ (port' => port) /\ turn' \notin Attempt
    BY <1>5, <2>1, <2>2 DEF TurnSteps, ReadCopy, Claim, BeginFresh, Count, ReadHeld,
       EndTurn, ReturnHeld, Discard, Consume, Shape, Attempt, Usual
  <2>5. turn' \in {"counted", "discarding"}
           \/ (turn' = "returning" /\ outcome' = "cancelled")
          => keeps' \/ savedTurn' = earlier'
    BY <1>5, <2>3 DEF TurnSteps, ReadCopy, Claim, BeginFresh, Count, ReadHeld,
       EndTurn, ReturnHeld, Discard, Consume, Shape, Settled
  <2>6. /\ \A m \in Msgs : ~Wrote("requeue", m)'
        /\ at' \in Awaits /\ saved' = "none" => Wrote("job", None)'
        /\ ~Recording'
    <3>1. CASE UNCHANGED <<at, saved, writes>>
      BY <2>2, <3>1 DEF Wrote, Settled, Recording
    <3>2. CASE at' = "ready" /\ writes' = <<>>
      BY <3>2 DEF Wrote, In, Recording, Awaits
    <3> QED
      BY <2>4, <3>1, <3>2
  <2> QED
    BY <1>1, <1>2, <2>2, <2>3, <2>4, <2>5, <2>6 DEF Settled, Attempt
<1> QED
  BY <1>3, <1>4, <1>5

\* People's commands.
LEMMA SettledByPeople ==
  ASSUME IInv, Settled, Usual,
         People \/ \E m \in Msgs : Commands(m) \/ TakeBackResumes(m)
  PROVE  Settled'
<1> USE DEF IInv
<1>0. inTurn \subseteq Msgs /\ savedTurn \subseteq Msgs
  BY DEF TypeOK
<1>1. /\ UNCHANGED <<at, saved, item, port, pending, inTurn, savedTurn, outcome,
                   held, keeps>>
      /\ \/ turn' = turn /\ earlier' = earlier
         \/ turn = "none" /\ turn' = "starting"
  <2>1. CASE People
    BY <2>1 DEF People, SendQueued, StartTurn, Pick, DropPick, Type, TakeBack,
       TypeToDisk, DiskAdd
  <2>2. CASE \E m \in Msgs : Commands(m)
    BY <2>2 DEF Commands, SubmitRejected, ReadTakeBack, WriteTakeBack,
       DiskDrop, Submit
  <2>3. CASE \E m \in Msgs : TakeBackResumes(m)
    BY <2>3 DEF TakeBackResumes
  <2> QED
    BY <2>1, <2>2, <2>3
<1>2. (diskFlag \subseteq In(diskQ))'
  <2>1. CASE UNCHANGED <<diskQ, diskFlag>>
    BY <2>1 DEF Settled
  <2>2. ASSUME NEW S, DiskDrop(S)
        PROVE  (diskFlag \subseteq In(diskQ))'
    BY <2>2, WithoutIs DEF DiskDrop, TypeOK, Settled
  <2>3. ASSUME NEW m \in Msgs, DiskAdd(m)
        PROVE  (diskFlag \subseteq In(diskQ))'
    BY <2>3, AddedIs DEF DiskAdd, TypeOK, NoTwice, Settled
  <2> QED
    BY <2>1, <2>2, <2>3 DEF People, Commands, SendQueued, StartTurn, Pick,
       DropPick, Type, TakeBack, TakeBackResumes, TypeToDisk, SubmitRejected,
       ReadTakeBack, WriteTakeBack, Submit
<1>3. CASE writes' = writes
  BY <1>0, <1>1, <1>2, <1>3 DEF Settled, Recording, Attempt, Wrote
<1>4. CASE writes' # writes
  <2>1. PICK m \in Msgs : writes' = Append(writes, <<"takeBack", m>>)
    BY <1>4 DEF People, Commands, SendQueued, StartTurn, Pick, DropPick, Type,
       TakeBack, TakeBackResumes, TypeToDisk, SubmitRejected, ReadTakeBack,
       WriteTakeBack, Submit
  <2> DEFINE e == <<"takeBack", m>>
  <2>2. /\ e \in SaveType /\ e[1] = "takeBack"
    BY DEF SaveType
  <2>3. writes' = Append(writes, e)
    BY <2>1
  <2> HIDE DEF e
  <2>4. In(writes') = In(writes) \cup {e}
    BY <2>2, <2>3, AppendIs DEF TypeOK
  <2>5. /\ Precede("job", "end", writes) => Precede("job", "end", writes')
        /\ Precede("job", "flush", writes) => Precede("job", "flush", writes')
    BY <2>2, <2>3, AppendPrecede DEF TypeOK
  <2>6. /\ \A x \in Msgs : Wrote("requeue", x)' <=> Wrote("requeue", x)
        /\ Wrote("job", None)' <=> Wrote("job", None)
    BY <2>2, <2>4 DEF Wrote
  <2> QED
    BY <1>0, <1>1, <1>2, <2>5, <2>6 DEF Settled, Recording, Attempt
<1> QED
  BY <1>3, <1>4

\* The saves of the chain.
LEMMA SettledBySaves ==
  ASSUME IInv, Placed, Settled, Usual, NEW ok \in BOOLEAN, ChainSaves(ok)
  PROVE  Settled'
<1> USE DEF IInv
<1>0. inTurn \subseteq Msgs /\ savedTurn \subseteq Msgs
  BY DEF TypeOK
<1>1. /\ Store \/ UNCHANGED <<memVars, diskVars, saved>>
      /\ UNCHANGED <<tail, at, item>>
      /\ saved' = saved \/ (saved = "none" /\ at \in Awaits)
  BY SavePays DEF Usual
<1>2. Store => /\ savedTurn' = inTurn' /\ inTurn' = inTurn
               /\ diskFlag' \subseteq In(diskQ')
  BY StoreIs
<1>3. /\ writes # <<>> /\ UNCHANGED <<keeps, earlier, held>>
      /\ \/ writes' = Tail(writes)
         \/ SaveEnd(ok) /\ writes' = Append(Tail(writes), <<"flush", None>>)
  BY DEF ChainSaves, SaveStart, SaveJob, SaveEnd, SaveTakeBack, SaveRequeue,
     SaveFlush
<1>4. /\ In(writes) = {Head(writes)} \cup In(Tail(writes))
      /\ \/ In(writes') = In(Tail(writes))
         \/ SaveEnd(ok) /\ In(writes') = In(Tail(writes)) \cup {<<"flush", None>>}
  <2>1. <<"flush", None>> \in SaveType
    BY DEF SaveType
  <2>2. /\ Tail(writes) \in Seq(SaveType)
        /\ In(writes) = {Head(writes)} \cup In(Tail(writes))
    BY <1>3, TailIs DEF TypeOK
  <2> DEFINE e == <<"flush", None>>
             t == Tail(writes)
  <2>3. In(Append(t, e)) = In(t) \cup {e}
    <3>1. e \in SaveType /\ t \in Seq(SaveType)
      BY <2>1, <2>2
    <3> HIDE DEF e, t
    <3> QED
      BY <3>1, AppendIs
  <2> QED
    BY <1>3, <2>2, <2>3
<1>5. \A m \in Msgs : Wrote("requeue", m)' => Wrote("requeue", m)
  BY <1>4 DEF Wrote
<1>6. ~SaveEnd(ok) =>
      /\ Precede("job", "end", writes) => Precede("job", "end", writes')
      /\ Precede("job", "flush", writes) => Precede("job", "flush", writes')
  <2>1. /\ Precede("job", "end", writes) => Precede("job", "end", Tail(writes))
        /\ Precede("job", "flush", writes) => Precede("job", "flush", Tail(writes))
    BY <1>3, TailPrecede DEF TypeOK
  <2> QED
    BY <1>3, <2>1
<1>7. CASE SaveStart(ok)
  <2>1. ~bound
    BY <1>7, SaveOver DEF SaveStart, Shape, Wrote
  <2>2. at = "ready" /\ ~port /\ \A m \in Msgs : ~Wrote("requeue", m)
    BY <2>1, UnboundIs
  <2>3. turn' = "open" /\ port' = port /\ Store /\ turn = "claiming"
    <3>1. Wrote("start", None)
      BY <1>4, <1>7 DEF SaveStart, Wrote
    <3>2. turn = "claiming"
      BY <2>1, <3>1, UnboundIs DEF Wrote, In
    <3> QED
      BY <1>7, <3>2 DEF SaveStart, Bind, Usual
  <2> QED
    BY <1>1, <1>2, <1>3, <1>5, <2>2, <2>3 DEF Settled, Recording, Attempt, Awaits
<1>8. CASE SaveJob(ok)
  <2>1. saved' # "none" /\ UNCHANGED <<turn, port, pending, outcome>> /\ Store
    BY <1>8 DEF SaveJob, StoreOrFail, Usual
  <2>2. turn \notin Attempt => inTurn = savedTurn
    BY SettledIs
  <2> QED
    BY <1>1, <1>2, <1>3, <1>5, <2>1, <2>2 DEF Settled, Recording, Attempt
<1>9. CASE SaveEnd(ok) \/ SaveFlush(ok)
  <2>1. Head(writes) \in {<<"end", None>>, <<"flush", None>>}
    BY <1>9 DEF SaveEnd, SaveFlush
  <2>2. /\ turn = IF Head(writes) = <<"end", None>> THEN "saving" ELSE "unwinding"
        /\ turn \in Attempt /\ turn # "open"
    BY <1>4, <2>1 DEF Shape, Wrote, Attempt
  <2>3. ~Recording
    <3> SUFFICES ASSUME Recording
                 PROVE  FALSE
      OBVIOUS
    <3>1. /\ Wrote("job", None)
          /\ Precede("job", "end", writes) /\ Precede("job", "flush", writes)
      BY DEF Settled, Recording, Awaits
    <3>2. /\ Head(writes)[1] \in {"end", "flush"} /\ <<"job", None>>[1] = "job"
          /\ Head(writes) # <<"job", None>>
      BY <2>1
    <3>3. <<"job", None>> \in In(Tail(writes))
      BY <1>3, <1>4, <3>1, <3>2 DEF Wrote
    <3>4. \A d \in In(Tail(writes)) : d[1] # "job"
      BY <1>3, <3>1, <3>2, TailPrecede DEF TypeOK
    <3> QED
      BY <3>2, <3>3, <3>4
  <2>4. \A m \in Msgs : ~Wrote("requeue", m) /\ ~Wrote("requeue", m)'
    BY <1>5, <2>2 DEF Settled
  <2>5. inTurn = savedTurn
    BY <1>0, <2>3, <2>4 DEF Settled
  <2>6. inTurn' = savedTurn' /\ (diskFlag \subseteq In(diskQ))'
    BY <1>1, <1>2, <2>5 DEF Settled
  <2>7. saved' = saved
    BY <1>9 DEF SaveEnd, SaveFlush
  <2>8. /\ turn' \in {"unwinding", "closing", "settling"}
        /\ port' => turn' \in Attempt
        /\ turn' = "unwinding" => ~pending' /\ outcome' = "completed"
    <3>1. CASE SaveEnd(ok)
      <4>1. turn = "saving" /\ ~pending
        BY <2>2, <3>1 DEF SaveEnd, Settled
      <4> QED
        BY <3>1, <4>1 DEF SaveEnd, Attempt
    <3>2. CASE SaveFlush(ok)
      <4>1. turn = "unwinding" /\ ok = TRUE
        <5>1. Head(writes) = <<"flush", None>>
          BY <3>2 DEF SaveFlush
        <5> QED
          BY <2>2, <3>2, <5>1 DEF SaveFlush, StoreOrFail, Usual
      <4> QED
        BY <3>2, <4>1 DEF SaveFlush, Settled
    <3> QED
      BY <1>9, <3>1, <3>2
  <2>9. Wrote("job", None) => Wrote("job", None)'
    BY <1>4, <2>1 DEF Wrote
  <2> QED
    BY <1>1, <1>3, <2>2, <2>3, <2>4, <2>6, <2>7, <2>8, <2>9
       DEF Settled, Recording, Attempt
<1>10. ASSUME NEW m \in Msgs, SaveTakeBack(m, ok) \/ SaveRequeue(m, ok)
       PROVE  Settled'
  <2>1. Head(writes) # <<"job", None>> /\ ~SaveEnd(ok)
    BY <1>10 DEF SaveTakeBack, SaveRequeue, SaveEnd
  <2>2. Wrote("job", None) => Wrote("job", None)'
    BY <1>4, <2>1 DEF Wrote
  <2>3. UNCHANGED <<turn, port, pending, saved, outcome>> /\ Store
    BY <1>10 DEF SaveTakeBack, SaveRequeue, StoreOrFail, Usual
  <2>4. turn \notin Attempt => inTurn = savedTurn
    BY SettledIs
  <2> QED
    BY <1>1, <1>2, <1>3, <1>5, <1>6, <2>1, <2>2, <2>3, <2>4
       DEF Settled, Recording, Attempt
<1> QED
  BY <1>7, <1>8, <1>9, <1>10 DEF ChainSaves

\* Every step keeps it, with every save made in time and no turn ended by force.
LEMMA SettledHolds ==
  ASSUME IInv, Placed, Settled, Usual, [Next]_vars
  PROVE  Settled'
<1>1. CASE UNCHANGED vars
  BY <1>1 DEF vars, Settled, Recording, Wrote
<1>2. ~LateSaves
  BY DEF LateSaves, Placed
<1>3. CASE Next
  BY <1>2, <1>3, SettledByJobs, SettledByVendor, SettledByTurn,
     SettledByPeople, SettledBySaves DEF Next
<1> QED
  BY <1>1, <1>3

-----------------------------------------------------------------------------
(* No message that was accepted is lost.                                   *)

\* Stored, in the queue or a turn, or given back, or about to be.
Safe(m) == \/ m \in In(diskQ) \cup savedTurn \cup ran \cup back \cup held
           \/ takeback[m] = "saving"

\* What the turn's copy moved and did not store yet is on its way somewhere.
Owed ==
  /\ \A m \in base \ In(memQ) : \/ m \in inTurn \/ takeback[m] = "saving"
                                \/ turn = "claiming" /\ m = active
  /\ \A m \in savedTurn \ inTurn :
       m \in In(memQ) \ base \/ takeback[m] = "saving"
  /\ delivered \subseteq savedTurn \ base
  /\ at \in {"record", "recordNext"} /\ saved # "none"
       => item \in savedTurn \ base
  /\ In(memQ) \cap base \subseteq In(diskQ) \cup back \cup ran \cup held

\* What is answered is safe; so is what the running job is about to answer.
ToldSafe ==
  /\ \A m \in Msgs : answer[m] \in {"steered", "queued"} => Safe(m)
  /\ at = "mark" => Doing.kind # "submit"
  /\ at = "queue" /\ saved = "none" =>
       Doing.msg \in In(memQ) \cup back \/ takeback[Doing.msg] = "saving"
  /\ tail # <<>> /\ Doing.kind = "submit"
        /\ (at \in {"offerNext", "recordNext"} \/ (at = "queue" /\ saved # "none"))
       => Safe(Doing.msg)

\* A save leaves nothing unstored but what is on its way.
LEMMA StorePays ==
  ASSUME IInv, Placed, Owed, Store
  PROVE  /\ base' = In(memQ')
         /\ savedTurn' = inTurn'
         /\ delivered \subseteq savedTurn' \ base'
         /\ at \in {"record", "recordNext"} => item \in savedTurn' \ base'
         /\ In(memQ') \subseteq In(diskQ') \cup back \cup ran \cup held
         /\ \A m \in In(diskQ) \cup savedTurn :
              \/ m \in In(diskQ') \cup savedTurn' \/ takeback[m] = "saving"
              \/ turn = "claiming" /\ m = active
         /\ memQ' = memQ
<1>1. /\ In(diskQ') = (In(diskQ) \ (base \ In(memQ))) \cup (In(memQ) \ base)
      /\ base' = In(memQ) /\ savedTurn' = inTurn
      /\ memQ' = memQ /\ inTurn' = inTurn
  BY StoreIs
<1>2. /\ delivered \subseteq savedTurn' \ base'
      /\ at \in {"record", "recordNext"} => item \in savedTurn' \ base'
  BY <1>1 DEF Placed
<1>3. In(memQ') \subseteq In(diskQ') \cup back \cup ran \cup held
  BY <1>1 DEF Owed
<1>4. ASSUME NEW m \in In(diskQ) \cup savedTurn
      PROVE  \/ m \in In(diskQ') \cup savedTurn' \/ takeback[m] = "saving"
             \/ turn = "claiming" /\ m = active
  BY <1>1, <1>4 DEF Owed
<1> QED
  BY <1>1, <1>2, <1>3, <1>4

\* What is safe stays safe.
LEMMA SafeStays ==
  ASSUME IInv, Placed, Settled, Owed, Usual, [Next]_vars, NEW m \in Msgs, Safe(m)
  PROVE  Safe(m)'
<1> USE DEF IInv
<1>1. CASE Jobs
  BY <1>1 DEF Jobs, StartSubmit, StartDeliver, StartSendNow, AfterRecord,
     AfterRecordNext, AfterQueue, AfterMark, Safe
<1>2. CASE Vendor
  <2>1. UNCHANGED <<diskVars, ran, back, takeback, held>>
    BY <1>2 DEF Vendor, PortOpens, Window, PortCloses, OfferTaken, OfferLeft,
       Finish, Unheard, Break
  <2> QED
    BY <2>1 DEF Safe
<1>3. CASE TurnSteps
  <2>1. CASE ReadCopy \/ Claim \/ BeginFresh \/ Complete \/ Count \/ EndTurn
    BY <2>1 DEF ReadCopy, Claim, BeginFresh, Complete, Count, EndTurn, Safe
  <2>2. CASE ReadHeld
    <3>1. held = {} /\ UNCHANGED <<diskVars, ran, back, takeback>>
      BY <2>2 DEF ReadHeld, Settled
    <3> QED
      BY <3>1 DEF Safe
  <2>3. ASSUME NEW ok \in BOOLEAN, ReturnHeld(ok)
        PROVE  Safe(m)'
    <3>1. DiskDrop(held) /\ back' \cup held' = back \cup held
      BY <2>3 DEF ReturnHeld, Usual
    <3>2. In(diskQ') = In(diskQ) \ held /\ savedTurn' = savedTurn
      BY <3>1, WithoutIs DEF DiskDrop, TypeOK
    <3> QED
      BY <2>3, <3>1, <3>2 DEF ReturnHeld, Safe
  <2>4. ASSUME NEW ok \in BOOLEAN, Discard(ok)
        PROVE  Safe(m)'
    <3>1. keeps \/ savedTurn = earlier
      BY <2>4 DEF Discard, Settled
    <3>2. savedTurn' = savedTurn /\ back' = back \cup held
      BY <2>4, <3>1 DEF Discard, Usual
    <3> QED
      BY <2>4, <3>2 DEF Discard, Safe
  <2>5. ASSUME NEW ok \in BOOLEAN, Consume(ok)
        PROVE  Safe(m)'
    <3>1. In(Without(diskQ, {active})) = In(diskQ) \ {active}
      BY WithoutIs DEF TypeOK
    <3>2. /\ In(diskQ') = In(diskQ) \ {active} /\ savedTurn' = savedTurn
          /\ ran' = IF active \in In(diskQ) THEN ran \cup {active} ELSE ran
      BY <2>5, <3>1 DEF Consume, DiskDrop, Usual
    <3> QED
      BY <2>5, <3>2 DEF Consume, Safe
  <2> QED
    BY <1>3, <2>1, <2>2, <2>3, <2>4, <2>5 DEF TurnSteps
<1>4. CASE People \/ \E x \in Msgs : Commands(x) \/ TakeBackResumes(x)
  <2>1. CASE SendQueued \/ StartTurn(None)
    BY <2>1 DEF SendQueued, StartTurn, Safe
  <2>2. ASSUME NEW x \in Msgs, Pick(x) \/ DropPick(x) \/ StartTurn(x) \/ Type(x)
        PROVE  Safe(m)'
    BY <2>2 DEF Pick, DropPick, StartTurn, Type, Safe
  <2>3. ASSUME NEW x \in Msgs, TakeBack(x) \/ TakeBackResumes(x) \/ ReadTakeBack(x)
        PROVE  Safe(m)'
    <3>1. takeback[x] # "saving" /\ \A y \in Msgs \ {x} : takeback'[y] = takeback[y]
      BY <2>3 DEF TakeBack, TakeBackResumes, ReadTakeBack, TypeOK
    <3>2. UNCHANGED <<diskVars, ran, back, held>>
      BY <2>3 DEF TakeBack, TakeBackResumes, ReadTakeBack
    <3> QED
      BY <3>1, <3>2 DEF Safe
  <2>4. ASSUME NEW x \in Msgs, NEW ok \in BOOLEAN, TypeToDisk(x, ok)
        PROVE  Safe(m)'
    <3>1. In(diskQ') = In(diskQ) \cup {x} /\ savedTurn' = savedTurn
      BY <2>4, AddedIs DEF TypeOK, NoTwice, TypeToDisk, DiskAdd, Usual
    <3> QED
      BY <2>4, <3>1 DEF TypeToDisk, Safe
  <2>5. ASSUME NEW x \in Msgs, NEW ok \in BOOLEAN, SubmitRejected(x) \/ Submit(x, ok)
        PROVE  Safe(m)'
    BY <2>5 DEF SubmitRejected, Submit, Safe
  <2>6. ASSUME NEW x \in Msgs, NEW ok \in BOOLEAN, WriteTakeBack(x, ok)
        PROVE  Safe(m)'
    <3>1. DiskDrop({x}) /\ Returned(x) /\ takeback[x] = "writing"
      BY <2>6 DEF WriteTakeBack, Usual
    <3>2. /\ In(diskQ') = In(diskQ) \ {x} /\ savedTurn' = savedTurn
          /\ back' = back \cup {x}
          /\ \A y \in Msgs \ {x} : takeback'[y] = takeback[y]
      BY <3>1, WithoutIs DEF TypeOK, DiskDrop, Returned
    <3> QED
      BY <2>6, <3>1, <3>2 DEF WriteTakeBack, Safe
  <2> QED
    BY <1>4, <2>1, <2>2, <2>3, <2>4, <2>5, <2>6 DEF People, Commands
<1>5. ASSUME NEW ok \in BOOLEAN, ChainSaves(ok)
      PROVE  Safe(m)'
  <2>1. /\ Store \/ UNCHANGED <<memVars, diskVars, saved>>
        /\ ran \subseteq ran' /\ back \subseteq back'
        /\ turn = "claiming" => active \in ran'
        /\ takeback[m] = "saving" => takeback'[m] = "saving" \/ m \in back'
    BY <1>5, SavePays DEF Usual
  <2>2. held' = held
    BY <1>5 DEF ChainSaves, SaveStart, SaveJob, SaveEnd, SaveFlush,
       SaveTakeBack, SaveRequeue
  <2>3. m \in In(diskQ) \cup savedTurn =>
          \/ m \in In(diskQ') \cup savedTurn' \/ takeback[m] = "saving"
          \/ turn = "claiming" /\ m = active
    <3>1. CASE Store
      BY <3>1, StorePays
    <3>2. CASE UNCHANGED <<memVars, diskVars, saved>>
      BY <3>2
    <3> QED
      BY <2>1, <3>1, <3>2
  <2> QED
    BY <2>1, <2>2, <2>3 DEF Safe
<1>6. CASE UNCHANGED vars
  BY <1>6 DEF vars, Safe
<1>7. ~LateSaves
  BY DEF LateSaves, Placed
<1> QED
  BY <1>1, <1>2, <1>3, <1>4, <1>5, <1>6, <1>7 DEF Next

\* Every step keeps account of what the copy moved and did not store.
LEMMA OwedHolds ==
  ASSUME IInv, Placed, Settled, Owed, Usual, [Next]_vars
  PROVE  Owed'
<1> USE DEF IInv
<1>1. CASE Jobs
  <2>1. CASE StartSubmit
    <3>1. tail # <<>> /\ at = "ready" /\ Doing.kind = "submit" /\ saved = "none"
      BY <2>1 DEF StartSubmit, JobsShape, Awaits
    <3>2. Doing.msg \in Msgs /\ Nowhere(Doing.msg) /\ ~Wrote("job", None)
      BY <3>1, DoingIs DEF FreshIsNowhere, JobsShape, Awaits
    <3>3. CASE QueueIt(Doing.msg, Doing.steer)
      <4>1. In(memQ') = In(memQ) \cup {Doing.msg} /\ at' = "queue"
        BY <3>2, <3>3, QueuedIs
      <4>2. inTurn' = inTurn /\ base' = base
        BY <2>1 DEF StartSubmit
      <4> QED
        BY <2>1, <3>2, <4>1, <4>2 DEF StartSubmit, Owed, Nowhere
    <3>4. CASE at' = "offer" /\ UNCHANGED memVars
      BY <2>1, <3>4 DEF StartSubmit, Owed
    <3> QED
      BY <2>1, <3>3, <3>4 DEF StartSubmit
  <2>2. CASE StartDeliver \/ StartSendNow
    <3>1. at' \notin {"record", "recordNext"}
      BY <2>2, JobGoesOn DEF StartDeliver, StartSendNow
    <3> QED
      BY <2>2, <3>1 DEF StartDeliver, StartSendNow, Owed
  <2>3. CASE AfterRecord
    <3>1. saved = "ok" /\ at = "record"
      BY <2>3 DEF AfterRecord, Resumed, Placed, TypeOK
    <3>2. at' = "ready" /\ delivered' = delivered \cup {item}
      BY <2>3, <3>1 DEF AfterRecord, JobDone
    <3> QED
      BY <2>3, <3>1, <3>2 DEF AfterRecord, Owed
  <2>4. CASE AfterRecordNext
    <3>1. at = "recordNext" /\ saved # "none" /\ saved' = "none"
      BY <2>4 DEF AfterRecordNext, Resumed
    <3>2. delivered' \subseteq delivered \cup {item}
      BY <2>4 DEF AfterRecordNext
    <3> QED
      BY <2>4, <3>1, <3>2 DEF AfterRecordNext, Owed
  <2>5. CASE AfterQueue
    <3>1. saved = "ok" /\ saved' = "none"
      BY <2>5 DEF AfterQueue, Resumed, Placed, TypeOK
    <3> QED
      BY <2>5, <3>1 DEF AfterQueue, Owed
  <2>6. CASE AfterMark
    BY <2>6 DEF AfterMark, Resumed, Owed
  <2> QED
    BY <1>1, <2>1, <2>2, <2>3, <2>4, <2>5, <2>6 DEF Jobs
<1>2. CASE Vendor
  <2>1. CASE PortOpens \/ Window \/ PortCloses
    BY <2>1 DEF PortOpens, Window, PortCloses, Owed
  <2>2. CASE Finish \/ \E how \in {"cancelled", "failed"} : Break(how)
    <3>1. turn # "claiming" /\ UNCHANGED <<memVars, diskVars, delivered, at, item,
                                          saved, takeback, back, ran, held>>
      BY <2>2 DEF Finish, Break, AttemptOver
    <3> QED
      BY <3>1 DEF Owed
  <2>3. ASSUME NEW m \in Msgs, Unheard(m)
        PROVE  Owed'
    <3>1. In(memQ') = In(memQ) \cup {m}
      BY <2>3, AddedIs DEF TypeOK, NoTwice, Unheard
    <3>2. at = "ready" /\ m \in delivered
      BY <2>3 DEF Unheard, JobsShape
    <3> QED
      BY <2>3, <3>1, <3>2 DEF Unheard, Owed
  <2>4. CASE OfferTaken \/ OfferLeft
    <3>1. tail # <<>> /\ bound /\ ~Wrote("job", None) /\ item \in Msgs
          /\ saved = "none" /\ turn # "claiming"
      BY <2>4, DoingIs DEF OfferTaken, OfferLeft, JobsShape, Awaits, Shape
    <3>2. at = "offer" => Nowhere(item)
      BY <3>1, DoingIs DEF JobsShape, FreshIsNowhere
    <3>3. UNCHANGED <<base, diskQ, savedTurn, ran, turn, active, delivered,
                      saved, takeback, back, held>>
      BY <2>4 DEF OfferTaken, OfferLeft
    <3>4. CASE QueueIt(item, TRUE) /\ at = "offer" /\ inTurn' = inTurn
      <4>1. In(memQ') = In(memQ) \cup {item} /\ at' = "queue"
        BY <3>1, <3>4, QueuedIs
      <4> QED
        BY <3>2, <3>3, <3>4, <4>1 DEF Nowhere, Owed
    <3>5. CASE JobDone(delivered) /\ UNCHANGED <<memQ, inTurn>>
      BY <3>1, <3>3, <3>5 DEF JobDone, Owed
    <3>6. CASE RecordSteer(item) /\ UNCHANGED item
      <4>1. In(memQ') = In(memQ) \ {item} /\ inTurn' = inTurn \cup {item}
        BY <3>6, WithoutIs DEF TypeOK, RecordSteer
      <4> QED
        BY <3>1, <3>3, <3>6, <4>1 DEF Owed
    <3> QED
      BY <2>4, <3>4, <3>5, <3>6 DEF OfferTaken, OfferLeft
  <2> QED
    BY <1>2, <2>1, <2>2, <2>3, <2>4 DEF Vendor
<1>3. CASE TurnSteps
  <2>1. CASE ReadCopy
    <3>1. at = "ready" /\ delivered = {}
      BY <2>1, UnboundIs DEF ReadCopy, Shape
    <3> QED
      BY <2>1, <3>1 DEF ReadCopy, Owed
  <2>2. CASE Claim
    <3>1. In(Without(memQ, {active})) = In(memQ) \ {active}
      BY WithoutIs DEF TypeOK
    <3>2. inTurn = savedTurn
      BY <2>2 DEF Claim, Shape, Placed
    <3>3. CASE active \in In(memQ)
      BY <2>2, <3>1, <3>2, <3>3 DEF Claim, Owed
    <3>4. CASE active \notin In(memQ)
      BY <2>2, <3>4 DEF Claim, EndsUnbound, Owed
    <3> QED
      BY <3>3, <3>4
  <2>3. CASE BeginFresh \/ Complete \/ Count
    BY <2>3 DEF BeginFresh, Bind, Complete, Count, Owed
  <2>4. CASE ReadHeld
    <3>1. held = {} /\ turn # "claiming"
      BY <2>4 DEF ReadHeld, Settled
    <3> QED
      BY <2>4, <3>1 DEF ReadHeld, Owed
  <2>5. CASE EndTurn
    <3>1. /\ In(memQ') = {} /\ inTurn' = savedTurn /\ delivered' = {} /\ base' = {}
          /\ at' = "ready"
      BY <2>5 DEF EndTurn, In
    <3> QED
      BY <2>5, <3>1 DEF EndTurn, Owed
  <2>6. ASSUME NEW ok \in BOOLEAN, ReturnHeld(ok)
        PROVE  Owed'
    <3>1. DiskDrop(held) /\ back' \cup held' = back \cup held
      BY <2>6 DEF ReturnHeld, Usual
    <3>2. In(diskQ') = In(diskQ) \ held /\ savedTurn' = savedTurn
      BY <3>1, WithoutIs DEF DiskDrop, TypeOK
    <3> QED
      BY <2>6, <3>1, <3>2 DEF ReturnHeld, Owed
  <2>7. ASSUME NEW ok \in BOOLEAN, Discard(ok)
        PROVE  Owed'
    <3>1. keeps \/ savedTurn = earlier
      BY <2>7 DEF Discard, Settled
    <3>2. savedTurn' = savedTurn /\ back' = back \cup held
      BY <2>7, <3>1 DEF Discard, Usual
    <3> QED
      BY <2>7, <3>2 DEF Discard, Owed
  <2>8. ASSUME NEW ok \in BOOLEAN, Consume(ok)
        PROVE  Owed'
    <3>1. In(Without(diskQ, {active})) = In(diskQ) \ {active}
      BY WithoutIs DEF TypeOK
    <3>2. /\ In(diskQ') = In(diskQ) \ {active} /\ savedTurn' = savedTurn
          /\ ran' = IF active \in In(diskQ) THEN ran \cup {active} ELSE ran
      BY <2>8, <3>1 DEF Consume, DiskDrop, Usual
    <3> QED
      BY <2>8, <3>2 DEF Consume, Owed
  <2> QED
    BY <1>3, <2>1, <2>2, <2>3, <2>4, <2>5, <2>6, <2>7, <2>8 DEF TurnSteps
<1>4. CASE People \/ \E x \in Msgs : Commands(x) \/ TakeBackResumes(x)
  <2>1. CASE SendQueued
    BY <2>1 DEF SendQueued, Owed
  <2>2. ASSUME NEW x, StartTurn(x)
        PROVE  Owed'
    BY <2>2 DEF StartTurn, Owed
  <2>3. ASSUME NEW x \in Msgs, Pick(x) \/ DropPick(x) \/ Type(x)
        PROVE  Owed'
    BY <2>3 DEF Pick, DropPick, Type, Owed
  <2>4. ASSUME NEW x \in Msgs, TakeBack(x) \/ TakeBackResumes(x) \/ ReadTakeBack(x)
        PROVE  Owed'
    <3>1. takeback[x] # "saving" /\ \A y \in Msgs \ {x} : takeback'[y] = takeback[y]
      BY <2>4 DEF TakeBack, TakeBackResumes, ReadTakeBack, TypeOK
    <3>2. UNCHANGED <<base, inTurn, diskVars, ran, back, delivered, turn, active,
                      at, item, saved, held>>
      BY <2>4 DEF TakeBack, TakeBackResumes, ReadTakeBack
    <3>3. In(Without(memQ, {x})) = In(memQ) \ {x}
      BY WithoutIs DEF TypeOK
    <3>4. \/ In(memQ') = In(memQ)
          \/ In(memQ') = In(memQ) \ {x} /\ takeback'[x] = "saving"
      BY <2>4, <3>3 DEF TakeBack, TakeBackResumes, ReadTakeBack, TypeOK
    <3>5. base \subseteq Msgs /\ savedTurn \subseteq Msgs
      BY DEF TypeOK
    <3> QED
      BY <3>1, <3>2, <3>4, <3>5 DEF Owed
  <2>5. ASSUME NEW x \in Msgs, NEW ok \in BOOLEAN, TypeToDisk(x, ok)
        PROVE  Owed'
    <3>1. In(diskQ') = In(diskQ) \cup {x} /\ savedTurn' = savedTurn
      BY <2>5, AddedIs DEF TypeOK, NoTwice, TypeToDisk, DiskAdd, Usual
    <3> QED
      BY <2>5, <3>1 DEF TypeToDisk, Owed
  <2>6. ASSUME NEW x \in Msgs, NEW ok \in BOOLEAN, SubmitRejected(x) \/ Submit(x, ok)
        PROVE  Owed'
    BY <2>6 DEF SubmitRejected, Submit, Owed
  <2>7. ASSUME NEW x \in Msgs, NEW ok \in BOOLEAN, WriteTakeBack(x, ok)
        PROVE  Owed'
    <3>1. DiskDrop({x}) /\ Returned(x) /\ takeback[x] = "writing"
      BY <2>7 DEF WriteTakeBack, Usual
    <3>2. /\ In(diskQ') = In(diskQ) \ {x} /\ savedTurn' = savedTurn
          /\ back' = back \cup {x}
          /\ \A y \in Msgs \ {x} : takeback'[y] = takeback[y]
      BY <3>1, WithoutIs DEF TypeOK, DiskDrop, Returned
    <3>3. base \subseteq Msgs /\ savedTurn \subseteq Msgs
      BY DEF TypeOK
    <3> QED
      BY <2>7, <3>1, <3>2, <3>3 DEF WriteTakeBack, Owed
  <2> QED
    BY <1>4, <2>1, <2>2, <2>3, <2>4, <2>5, <2>6, <2>7 DEF People, Commands
<1>5. ASSUME NEW ok \in BOOLEAN, ChainSaves(ok)
      PROVE  Owed'
  <2>1. /\ Store \/ UNCHANGED <<memVars, diskVars, saved>>
        /\ ran \subseteq ran' /\ back \subseteq back'
        /\ UNCHANGED <<at, item, delivered>>
    BY <1>5, SavePays DEF Usual
  <2>2. held' = held
    BY <1>5 DEF ChainSaves, SaveStart, SaveJob, SaveEnd, SaveFlush,
       SaveTakeBack, SaveRequeue
  <2>3. CASE Store
    <3>1. /\ base' = In(memQ') /\ savedTurn' = inTurn'
          /\ delivered \subseteq savedTurn' \ base'
          /\ at \in {"record", "recordNext"} => item \in savedTurn' \ base'
          /\ In(memQ') \subseteq In(diskQ') \cup back \cup ran \cup held
      BY <2>3, StorePays
    <3> QED
      BY <2>1, <2>2, <3>1 DEF Owed
  <2>4. CASE ~Store
    <3>1. SaveFlush(ok)
      BY <1>5, <2>4 DEF ChainSaves, SaveStart, SaveJob, SaveEnd, StoreOrFail,
         SaveTakeBack, SaveRequeue, Usual
    <3>2. turn = "unwinding" /\ UNCHANGED <<takeback, back, ran>>
      BY <3>1, SaveOver DEF SaveFlush, Shape, Wrote
    <3> QED
      BY <2>1, <2>2, <2>4, <3>2 DEF Owed
  <2> QED
    BY <2>3, <2>4
<1>6. CASE UNCHANGED vars
  BY <1>6 DEF vars, Owed
<1>7. ~LateSaves
  BY DEF LateSaves, Placed
<1> QED
  BY <1>1, <1>2, <1>3, <1>4, <1>5, <1>6, <1>7 DEF Next

\* A step that leaves the running job where it is.
LEMMA ToldStays ==
  ASSUME IInv, ToldSafe, UNCHANGED <<at, saved>>,
         tail # <<>> => Doing' = Doing,
         \A m \in Msgs : Safe(m) => Safe(m)',
         \A m \in Msgs : answer'[m] \in {"steered", "queued"} =>
           answer[m] \in {"steered", "queued"} \/ Safe(m)',
         \A m \in Msgs : at = "queue" /\ saved = "none"
             /\ (m \in In(memQ) \cup back \/ takeback[m] = "saving") =>
           m \in In(memQ') \cup back' \/ takeback'[m] = "saving"
  PROVE  ToldSafe'
<1>1. \A m \in Msgs : answer'[m] \in {"steered", "queued"} => Safe(m)'
  BY DEF ToldSafe
<1>2. CASE tail = <<>>
  BY <1>1, <1>2 DEF IInv, JobsShape, ToldSafe
<1>3. CASE tail # <<>>
  <2>1. Doing' = Doing /\ (Doing.kind = "submit" => Doing.msg \in Msgs)
    BY <1>3, DoingIs
  <2>2. at = "queue" => Doing.kind = "submit"
    BY DEF IInv, JobsShape
  <2> QED
    BY <1>1, <1>3, <2>1, <2>2 DEF ToldSafe
<1> QED
  BY <1>2, <1>3

\* A job that offers the next message, or answers and is done.
LEMMA JobTells ==
  ASSUME IInv, tail # <<>>, NEW known, NextOffer(known) \/ JobDone(known),
         \A m \in Msgs : answer[m] \in {"steered", "queued"} => Safe(m)',
         Doing.kind = "submit" => Doing.msg \in Msgs,
         \A m \in Msgs : Doing.kind = "submit" /\ Doing.msg = m => Safe(m)'
  PROVE  ToldSafe'
<1>1. CASE JobDone(known)
  <2>1. \A m \in Msgs : answer'[m] \in {"steered", "queued"} => Safe(m)'
    <3>1. CASE Doing.kind = "submit"
      <4>1. \A m \in Msgs \ {Doing.msg} : answer'[m] = answer[m]
        BY <1>1, <3>1 DEF JobDone, IInv, TypeOK
      <4> QED
        BY <3>1, <4>1
    <3>2. CASE Doing.kind # "submit"
      BY <1>1, <3>2 DEF JobDone
    <3> QED
      BY <3>1, <3>2
  <2>2. at' = "ready"
    BY <1>1 DEF JobDone
  <2> QED
    BY <2>1, <2>2 DEF ToldSafe
<1>2. CASE NextOffer(known) /\ ~JobDone(known)
  <2>1. at' = "offerNext" /\ UNCHANGED <<tail, answer>>
    BY <1>2 DEF NextOffer
  <2>2. Doing' = Doing
    BY <2>1 DEF Doing
  <2> QED
    BY <2>1, <2>2 DEF ToldSafe
<1> QED
  BY <1>1, <1>2

\* Every step keeps what was accepted.
LEMMA ToldHolds ==
  ASSUME IInv, Placed, Settled, Owed, ToldSafe, Usual, [Next]_vars
  PROVE  ToldSafe'
<1> USE DEF IInv
<1>1. \A m \in Msgs : Safe(m) => Safe(m)'
  BY SafeStays
<1>2. \A m \in Msgs : answer[m] \in {"steered", "queued"} => Safe(m)'
  BY <1>1 DEF ToldSafe
<1>3. CASE Jobs
  <2>0. /\ tail # <<>> /\ (Doing.kind = "submit" => Doing.msg \in Msgs)
        /\ UNCHANGED <<back, takeback>>
    BY <1>3, DoingIs DEF Jobs, StartSubmit, StartDeliver, StartSendNow,
       AfterRecord, AfterRecordNext, AfterQueue, AfterMark, Resumed, JobsShape
  <2>1. CASE StartSubmit
    <3>1. at = "ready" /\ Doing.kind = "submit" /\ saved' = "none"
      BY <2>1 DEF StartSubmit, JobsShape, Awaits
    <3>2. Doing.msg \in Msgs /\ Doing' = Doing /\ answer' = answer
      BY <2>0, <2>1, <3>1 DEF StartSubmit, Doing
    <3>3. CASE QueueIt(Doing.msg, Doing.steer)
      <4>1. In(memQ') = In(memQ) \cup {Doing.msg} /\ at' = "queue"
        BY <2>1, <3>1, <3>2, <3>3, QueuedIs DEF JobsShape, Awaits
      <4> QED
        BY <1>2, <3>1, <3>2, <4>1 DEF ToldSafe
    <3>4. CASE at' = "offer"
      BY <1>2, <3>2, <3>4 DEF ToldSafe
    <3> QED
      BY <2>1, <3>3, <3>4 DEF StartSubmit
  <2>2. CASE StartDeliver
    BY <1>2, <2>0, <2>2, JobTells DEF StartDeliver
  <2>3. CASE StartSendNow
    <3>1. CASE at' = "mark"
      <4>1. Doing' = Doing /\ Doing.kind = "sendNow" /\ answer' = answer
        BY <2>3, <3>1 DEF StartSendNow, Doing, JobDone, NextOffer
      <4> QED
        BY <1>2, <3>1, <4>1 DEF ToldSafe
    <3>2. CASE NextOffer(delivered) \/ JobDone(delivered)
      BY <1>2, <2>0, <2>3, <3>2, JobTells DEF StartSendNow
    <3> QED
      BY <2>3, <3>1, <3>2 DEF StartSendNow
  <2>4. CASE AfterRecord
    <3>1. saved = "ok" /\ at = "record"
      BY <2>4 DEF AfterRecord, Resumed, Placed, TypeOK
    <3>2. Doing.kind = "submit" /\ item = Doing.msg
      BY <3>1 DEF JobsShape
    <3>3. Safe(Doing.msg)
      BY <3>1, <3>2 DEF Owed, Safe
    <3>4. JobDone(delivered')
      BY <2>4, <3>1 DEF AfterRecord
    <3> QED
      BY <1>1, <1>2, <2>0, <3>2, <3>3, <3>4, JobTells
  <2>5. CASE AfterRecordNext
    <3>1. saved # "none" /\ at = "recordNext"
      BY <2>5 DEF AfterRecordNext, Resumed
    <3>2. Doing.kind = "submit" => Safe(Doing.msg)
      BY <2>0, <3>1 DEF ToldSafe
    <3>3. NextOffer(delivered') \/ JobDone(delivered)
      BY <2>5 DEF AfterRecordNext
    <3> QED
      BY <1>1, <1>2, <2>0, <3>2, <3>3, JobTells
  <2>6. CASE AfterQueue
    <3>1. saved = "ok" /\ at = "queue"
      BY <2>6 DEF AfterQueue, Resumed, Placed, TypeOK
    <3>2. Doing.kind = "submit" => Safe(Doing.msg)
      BY <2>0, <3>1 DEF ToldSafe
    <3>3. NextOffer(delivered) \/ JobDone(delivered)
      BY <2>6, <3>1 DEF AfterQueue
    <3> QED
      BY <1>1, <1>2, <2>0, <3>2, <3>3, JobTells
  <2>7. CASE AfterMark
    <3>1. Doing.kind # "submit"
      BY <2>7 DEF AfterMark, Resumed, ToldSafe
    <3>2. NextOffer(delivered) \/ JobDone(delivered)
      BY <2>7 DEF AfterMark
    <3> QED
      BY <1>2, <2>0, <3>1, <3>2, JobTells
  <2> QED
    BY <1>3, <2>1, <2>2, <2>3, <2>4, <2>5, <2>6, <2>7 DEF Jobs
<1>4. CASE Vendor
  <2>1. CASE PortOpens \/ Window
    <3>1. \/ tail' = tail
          \/ \E e \in {Job("deliver", None, FALSE), Job("sendNow", None, TRUE)} :
               tail' = Append(tail, e)
      BY <2>1 DEF PortOpens, Window, DeliverSoon
    <3>2. tail # <<>> => Doing' = Doing
      BY <3>1, JobComes
    <3> QED
      BY <1>1, <1>2, <2>1, <3>2, ToldStays DEF PortOpens, Window
  <2>2. CASE PortCloses \/ Finish \/ \E how \in {"cancelled", "failed"} : Break(how)
    <3>1. UNCHANGED <<tail, at, saved, memQ, back, takeback, answer>>
      BY <2>2 DEF PortCloses, Finish, Break
    <3>2. Doing' = Doing
      BY <3>1 DEF Doing
    <3> QED
      BY <1>1, <1>2, <3>1, <3>2, ToldStays
  <2>3. ASSUME NEW m \in Msgs, Unheard(m)
        PROVE  ToldSafe'
    BY <1>2, <2>3 DEF Unheard, JobsShape, ToldSafe
  <2>4. CASE OfferTaken \/ OfferLeft
    <3>1. tail # <<>> /\ bound /\ ~Wrote("job", None) /\ item \in Msgs
          /\ saved = "none" /\ saved' = "none"
      BY <2>4, DoingIs DEF OfferTaken, OfferLeft, JobsShape, Awaits
    <3>2. at = "offer" => Doing.kind = "submit" /\ item = Doing.msg
      BY DEF JobsShape
    <3>3. Doing.kind = "submit" => Doing.msg \in Msgs
      BY <3>1, DoingIs
    <3>4. \A m \in Msgs : at = "offerNext" /\ Doing.kind = "submit" /\ Doing.msg = m
            => Safe(m)'
      BY <1>1, <3>1, DoingIs DEF ToldSafe
    <3>5. CASE QueueIt(item, TRUE) /\ at = "offer" /\ UNCHANGED <<tail, answer>>
      <4>1. In(memQ') = In(memQ) \cup {item} /\ at' = "queue"
        BY <3>1, <3>5, QueuedIs
      <4>2. Doing' = Doing
        BY <3>5 DEF Doing
      <4> QED
        BY <1>2, <3>1, <3>2, <3>5, <4>1, <4>2 DEF ToldSafe
    <3>6. CASE JobDone(delivered) /\ at = "offerNext"
      BY <1>2, <3>1, <3>4, <3>6, <3>3, JobTells
    <3>7. CASE /\ at \in {"offer", "offerNext"} /\ UNCHANGED <<tail, answer>>
               /\ at' = IF at = "offer" THEN "record" ELSE "recordNext"
      <4>1. Doing' = Doing
        BY <3>7 DEF Doing
      <4> QED
        BY <1>2, <3>1, <3>4, <3>7, <3>3, <4>1 DEF ToldSafe
    <3> QED
      BY <2>4, <3>5, <3>6, <3>7 DEF OfferTaken, OfferLeft
  <2> QED
    BY <1>4, <2>1, <2>2, <2>3, <2>4 DEF Vendor
<1>5. CASE TurnSteps
  <2>1. CASE EndTurn
    <3>1. tail' = <<>> /\ at' = "ready" /\ answer' = answer
      BY <2>1 DEF EndTurn
    <3> QED
      BY <1>2, <3>1 DEF ToldSafe
  <2>2. CASE ~EndTurn
    <3>1. UNCHANGED <<tail, at, saved, answer>>
      BY <1>5, <2>2 DEF TurnSteps, ReadCopy, Claim, BeginFresh, Complete, Count,
         ReadHeld, ReturnHeld, Discard, Consume
    <3>2. Doing' = Doing
      BY <3>1 DEF Doing
    <3>3. CASE ~bound
      BY <1>2, <3>1, <3>3, UnboundIs DEF ToldSafe
    <3>4. CASE bound
      <4>1. at = "queue" => UNCHANGED <<memQ, takeback>> /\ back \subseteq back'
        BY <1>5, <2>2, <3>4 DEF TurnSteps, ReadCopy, Claim, BeginFresh, Complete,
           Count, ReadHeld, ReturnHeld, Discard, Consume, Shape, JobsShape
      <4> QED
        BY <1>1, <1>2, <3>1, <3>2, <4>1, ToldStays
    <3> QED
      BY <3>3, <3>4
  <2> QED
    BY <2>1, <2>2
<1>6. CASE People \/ \E x \in Msgs : Commands(x) \/ TakeBackResumes(x)
  <2>1. CASE SendQueued
    <3>1. tail # <<>> => Doing' = Doing
      BY <2>1, JobComes DEF SendQueued
    <3> QED
      BY <1>1, <1>2, <2>1, <3>1, ToldStays DEF SendQueued
  <2>2. ASSUME NEW x, StartTurn(x)
        PROVE  ToldSafe'
    BY <1>1, <1>2, <2>2, ToldStays DEF StartTurn, Doing
  <2>3. ASSUME NEW x \in Msgs, Pick(x) \/ DropPick(x)
        PROVE  ToldSafe'
    BY <1>1, <1>2, <2>3, ToldStays DEF Pick, DropPick, Doing
  <2>4. ASSUME NEW x \in Msgs, TakeBack(x) \/ TakeBackResumes(x) \/ ReadTakeBack(x)
        PROVE  ToldSafe'
    <3>1. takeback[x] # "saving" /\ \A y \in Msgs \ {x} : takeback'[y] = takeback[y]
      BY <2>4 DEF TakeBack, TakeBackResumes, ReadTakeBack, TypeOK
    <3>2. UNCHANGED <<back, tail, answer, at, saved>>
      BY <2>4 DEF TakeBack, TakeBackResumes, ReadTakeBack
    <3>3. In(Without(memQ, {x})) = In(memQ) \ {x}
      BY WithoutIs DEF TypeOK
    <3>4. \/ In(memQ') = In(memQ)
          \/ In(memQ') = In(memQ) \ {x} /\ takeback'[x] = "saving"
      BY <2>4, <3>3 DEF TakeBack, TakeBackResumes, ReadTakeBack, TypeOK
    <3>5. Doing' = Doing
      BY <3>2 DEF Doing
    <3>6. \A m \in Msgs : m \in In(memQ) \cup back \/ takeback[m] = "saving" =>
            m \in In(memQ') \cup back' \/ takeback'[m] = "saving"
      BY <3>1, <3>2, <3>4
    <3> QED
      BY <1>1, <1>2, <3>2, <3>5, <3>6, ToldStays
  <2>5. ASSUME NEW x \in Msgs, NEW ok \in BOOLEAN, TypeToDisk(x, ok)
        PROVE  ToldSafe'
    <3>1. In(diskQ') = In(diskQ) \cup {x}
      BY <2>5, AddedIs DEF TypeOK, NoTwice, TypeToDisk, DiskAdd, Usual
    <3>2. \A m \in Msgs : answer'[m] \in {"steered", "queued"} =>
            answer[m] \in {"steered", "queued"} \/ Safe(m)'
      BY <2>5, <3>1 DEF TypeToDisk, TypeOK, Safe
    <3> QED
      BY <1>1, <2>5, <3>2, ToldStays DEF TypeToDisk, Doing
  <2>6. ASSUME NEW x \in Msgs, Type(x) \/ SubmitRejected(x)
        PROVE  ToldSafe'
    <3>1. \A m \in Msgs : answer'[m] \in {"steered", "queued"} =>
            answer[m] \in {"steered", "queued"}
      BY <2>6 DEF Type, SubmitRejected, TypeOK
    <3> QED
      BY <1>1, <2>6, <3>1, ToldStays DEF Type, SubmitRejected, Doing
  <2>7. ASSUME NEW x \in Msgs, NEW steer \in BOOLEAN, Submit(x, steer)
        PROVE  ToldSafe'
    <3>1. \A m \in Msgs : answer'[m] \in {"steered", "queued"} =>
            answer[m] \in {"steered", "queued"}
      BY <2>7 DEF Submit, TypeOK
    <3>2. Job("submit", x, steer) \in JobType
      BY DEF Job, JobType
    <3>3. tail # <<>> => Doing' = Doing
      BY <2>7, <3>2, AppendIs DEF Submit, TypeOK, Doing
    <3> QED
      BY <1>1, <2>7, <3>1, <3>3, ToldStays DEF Submit
  <2>8. ASSUME NEW x \in Msgs, NEW ok \in BOOLEAN, WriteTakeBack(x, ok)
        PROVE  ToldSafe'
    <3>1. Returned(x) /\ takeback[x] = "writing"
      BY <2>8 DEF WriteTakeBack, Usual
    <3>2. back' = back \cup {x} /\ \A y \in Msgs \ {x} : takeback'[y] = takeback[y]
      BY <3>1 DEF TypeOK, Returned
    <3>3. UNCHANGED <<tail, answer, at, saved, memQ>>
      BY <2>8 DEF WriteTakeBack
    <3>4. Doing' = Doing
      BY <3>3 DEF Doing
    <3> QED
      BY <1>1, <1>2, <3>1, <3>2, <3>3, <3>4, ToldStays
  <2> QED
    BY <1>6, <2>1, <2>2, <2>3, <2>4, <2>5, <2>6, <2>7, <2>8 DEF People, Commands
<1>7. ASSUME NEW ok \in BOOLEAN, ChainSaves(ok)
      PROVE  ToldSafe'
  <2>1. /\ Store \/ UNCHANGED <<memVars, diskVars, saved>>
        /\ ran \subseteq ran' /\ back \subseteq back'
        /\ \A m \in Msgs : takeback[m] = "saving" =>
             takeback'[m] = "saving" \/ m \in back'
        /\ UNCHANGED <<tail, at, answer>>
        /\ saved' = saved \/ (saved = "none" /\ at \in Awaits)
    BY <1>7, SavePays DEF Usual
  <2>2. /\ memQ' = memQ /\ held' = held
        /\ saved' # saved =>
             In(memQ) \subseteq In(diskQ') \cup back \cup ran \cup held
    <3>1. memQ' = memQ
      BY <2>1, StorePays
    <3>2. held' = held
      BY <1>7 DEF ChainSaves, SaveStart, SaveJob, SaveEnd, SaveFlush,
         SaveTakeBack, SaveRequeue
    <3>3. saved' # saved =>
            In(memQ) \subseteq In(diskQ') \cup back \cup ran \cup held
      BY <2>1, <3>1, StorePays
    <3> QED
      BY <3>1, <3>2, <3>3
  <2>3. Doing' = Doing
    BY <2>1 DEF Doing
  <2>4. CASE saved' = saved
    BY <1>1, <1>2, <2>1, <2>2, <2>3, <2>4, ToldStays
  <2>5. CASE saved' # saved
    <3>1. saved = "none" /\ at \in Awaits /\ tail # <<>>
      BY <2>1, <2>5 DEF JobsShape, Awaits
    <3>2. ASSUME NEW m \in Msgs, Doing.kind = "submit", Doing.msg = m,
                 at = "queue"
          PROVE  Safe(m)'
      <4>1. m \in In(memQ) \cup back \/ takeback[m] = "saving"
        BY <3>1, <3>2 DEF ToldSafe
      <4> QED
        BY <2>1, <2>2, <2>5, <4>1 DEF Safe
    <3>3. \A m \in Msgs : Doing.kind = "submit" /\ Doing.msg = m
            /\ at = "recordNext" => Safe(m)'
      BY <1>1, <3>1, DoingIs DEF ToldSafe
    <3>4. at = "mark" => Doing.kind # "submit"
      BY DEF ToldSafe
    <3>5. at # "offerNext" /\ (at = "queue" => saved' # "none")
      BY <2>5, <3>1 DEF Awaits
    <3>6. Doing.kind = "submit" => Doing.msg \in Msgs
      BY <3>1, DoingIs
    <3> QED
      BY <1>2, <2>1, <2>3, <3>2, <3>3, <3>4, <3>5, <3>6 DEF ToldSafe
  <2> QED
    BY <2>4, <2>5
<1>8. CASE UNCHANGED vars
  BY <1>1, <1>2, <1>8, ToldStays DEF vars, Doing
<1>9. ~LateSaves
  BY DEF LateSaves, Placed
<1> QED
  BY <1>3, <1>4, <1>5, <1>6, <1>7, <1>8, <1>9 DEF Next

\* (NothingDropped) A message the user was told is steered or queued is
\* stored, in a queue or a turn, or was given back, or about to be: no
\* interleaving loses one, as long as every save is made before its turn ends
\* and no turn is ended by force.
THEOREM NothingIsDropped ==
  ASSUME ~SavesFail, ~Lingers, ~HardStops
  PROVE  Spec => []NothingDropped
<1> USE DEF Usual
<1>1. Init => Placed /\ Settled /\ Owed /\ ToldSafe
  BY DEF Init, Placed, Settled, Recording, Awaits, Wrote, Owed, ToldSafe, In
<1>2. IInv /\ Placed /\ Settled /\ Owed /\ ToldSafe /\ [Next]_vars
        => Placed' /\ Settled' /\ Owed' /\ ToldSafe'
  BY PlacedHolds, SettledHolds, OwedHolds, ToldHolds
<1>3. ToldSafe => NothingDropped
  BY DEF ToldSafe, Safe, NothingDropped
<1> QED
  BY <1>1, <1>2, <1>3, Invariant, PTL DEF Spec
-----------------------------------------------------------------------------
(* A message that was given back is not run.                               *)

\* A take-back that is being saved is in the chain of saves.
Waited == \A m \in Msgs : takeback[m] = "saving" => Wrote("takeBack", m)

\* One more save in the chain leaves the others in it.
LEMMA AskedWaits ==
  ASSUME IInv, Waited, takeback' = takeback,
         writes' = writes \/ \E e \in SaveType : writes' = Append(writes, e)
  PROVE  Waited'
<1>1. In(writes) \subseteq In(writes')
  <2>1. ASSUME NEW e \in SaveType, writes' = Append(writes, e)
        PROVE  In(writes) \subseteq In(writes')
    <3>1. writes \in Seq(SaveType)
      BY DEF IInv, TypeOK
    <3> HIDE DEF SaveType
    <3> QED
      BY <2>1, <3>1, AppendIs
  <2> QED
    BY <2>1
<1> QED
  BY <1>1 DEF Waited, Wrote

\* Every step keeps a take-back that is being saved in the chain.
LEMMA WaitedHolds ==
  ASSUME IInv, Placed, Waited, Usual, [Next]_vars
  PROVE  Waited'
<1> USE DEF IInv
<1>0. /\ <<"job", None>> \in SaveType /\ <<"start", None>> \in SaveType
      /\ <<"end", None>> \in SaveType /\ <<"flush", None>> \in SaveType
      /\ \A m \in Msgs : /\ <<"requeue", m>> \in SaveType
                         /\ <<"takeBack", m>> \in SaveType
  BY DEF SaveType
<1>1. CASE Jobs
  <2>1. /\ takeback' = takeback
        /\ writes' = writes \/ writes' = Append(writes, <<"job", None>>)
    BY <1>1 DEF Jobs, StartSubmit, StartDeliver, StartSendNow, AfterRecord,
       AfterRecordNext, AfterQueue, AfterMark, QueueIt, Ask
  <2> QED
    BY <1>0, <2>1, AskedWaits
<1>2. CASE Vendor
  <2>1. /\ takeback' = takeback
        /\ \/ writes' \in {writes, Append(writes, <<"job", None>>),
                           Append(writes, <<"flush", None>>)}
           \/ \E m \in Msgs : writes' = Append(writes, <<"requeue", m>>)
    BY <1>2 DEF Vendor, PortOpens, Window, PortCloses, OfferTaken, OfferLeft,
       Finish, Unheard, Break, Unwinds, QueueIt, RecordSteer, Ask
  <2> QED
    BY <1>0, <2>1, AskedWaits
<1>3. CASE TurnSteps
  <2>1. CASE EndTurn
    <3>1. \A m \in Msgs : ~Wrote("takeBack", m)
      BY <2>1 DEF EndTurn, Usual, Wrote, In
    <3> QED
      BY <2>1, <3>1 DEF EndTurn, Waited
  <2>2. CASE ~EndTurn
    <3>1. /\ takeback' = takeback
          /\ writes' \in {writes, Append(writes, <<"start", None>>),
                         Append(writes, <<"end", None>>)}
      BY <1>3, <2>2 DEF TurnSteps, ReadCopy, Claim, BeginFresh, Complete, Count,
         ReadHeld, ReturnHeld, Discard, Consume, Ask
    <3> QED
      BY <1>0, <3>1, AskedWaits
  <2> QED
    BY <2>1, <2>2
<1>4. CASE People \/ \E m \in Msgs : Commands(m) \/ TakeBackResumes(m)
  <2>1. ASSUME NEW x \in Msgs, TakeBack(x) \/ TakeBackResumes(x)
        PROVE  Waited'
    <3>1. \A y \in Msgs \ {x} : takeback'[y] = takeback[y]
      BY <2>1 DEF TakeBack, TakeBackResumes, TypeOK
    <3>2. \/ takeback'[x] # "saving" /\ writes' = writes
          \/ writes' = Append(writes, <<"takeBack", x>>)
      BY <2>1 DEF TakeBack, TakeBackResumes, TypeOK
    <3> DEFINE e == <<"takeBack", x>>
    <3>3. writes' = Append(writes, e) =>
            e \in In(writes') /\ In(writes) \subseteq In(writes')
      <4>1. e \in SaveType /\ writes \in Seq(SaveType)
        BY <1>0 DEF TypeOK
      <4> HIDE DEF e
      <4> QED
        BY <4>1, AppendIs
    <3> QED
      BY <3>1, <3>2, <3>3 DEF Waited, Wrote
  <2>2. ASSUME NEW x \in Msgs,
               ReadTakeBack(x) \/ \E ok \in BOOLEAN : WriteTakeBack(x, ok)
        PROVE  Waited'
    <3>1. /\ writes' = writes /\ takeback'[x] # "saving"
          /\ \A y \in Msgs \ {x} : takeback'[y] = takeback[y]
      BY <2>2 DEF ReadTakeBack, WriteTakeBack, Returned, TypeOK
    <3> QED
      BY <3>1 DEF Waited, Wrote
  <2>3. CASE UNCHANGED <<takeback, writes>>
    BY <2>3 DEF Waited, Wrote
  <2> QED
    BY <1>4, <2>1, <2>2, <2>3 DEF People, Commands, SendQueued, StartTurn, Pick,
       DropPick, Type, TypeToDisk, SubmitRejected, Submit
<1>5. ASSUME NEW ok \in BOOLEAN, ChainSaves(ok)
      PROVE  Waited'
  <2>1. /\ In(writes) = {Head(writes)} \cup In(Tail(writes))
        /\ In(Tail(writes)) \subseteq In(Append(Tail(writes), <<"flush", None>>))
    <3>1. writes # <<>>
      BY <1>5 DEF ChainSaves, SaveStart, SaveJob, SaveEnd, SaveFlush,
         SaveTakeBack, SaveRequeue
    <3>2. /\ Tail(writes) \in Seq(SaveType)
          /\ In(writes) = {Head(writes)} \cup In(Tail(writes))
      BY <3>1, TailIs DEF TypeOK
    <3> DEFINE t == Tail(writes)
               e == <<"flush", None>>
    <3>3. In(t) \subseteq In(Append(t, e))
      <4>1. t \in Seq(SaveType) /\ e \in SaveType
        BY <1>0, <3>2
      <4> HIDE DEF t, e
      <4> QED
        BY <4>1, AppendIs
    <3> QED
      BY <3>2, <3>3
  <2>2. In(Tail(writes)) \subseteq In(writes')
    BY <1>5, <2>1 DEF ChainSaves, SaveStart, SaveJob, SaveEnd, SaveFlush,
       SaveTakeBack, SaveRequeue
  <2>3. \A m \in Msgs : takeback'[m] = "saving" =>
          takeback[m] = "saving" /\ Head(writes) # <<"takeBack", m>>
    <3>1. ASSUME NEW x \in Msgs, SaveTakeBack(x, ok)
          PROVE  \A m \in Msgs : takeback'[m] = "saving" =>
                   takeback[m] = "saving" /\ Head(writes) # <<"takeBack", m>>
      <4>1. Returned(x) /\ Head(writes) = <<"takeBack", x>>
        BY <3>1 DEF SaveTakeBack, Usual, StoreOrFail
      <4> QED
        BY <4>1 DEF Returned, TypeOK
    <3>2. CASE ~\E x \in Msgs : SaveTakeBack(x, ok)
      <4>1. /\ takeback' = takeback
            /\ \/ Head(writes) \in {<<"start", None>>, <<"job", None>>,
                                   <<"end", None>>, <<"flush", None>>}
               \/ \E x \in Msgs : Head(writes) = <<"requeue", x>>
        BY <1>5, <3>2 DEF ChainSaves, SaveStart, SaveJob, SaveEnd, SaveFlush,
           SaveRequeue
      <4> QED
        BY <4>1
    <3> QED
      BY <3>1, <3>2
  <2> QED
    BY <2>1, <2>2, <2>3 DEF Waited, Wrote
<1>6. CASE UNCHANGED vars
  BY <1>6 DEF vars, Waited, Wrote
<1>7. ~LateSaves
  BY DEF LateSaves, Placed
<1> QED
  BY <1>1, <1>2, <1>3, <1>4, <1>5, <1>6, <1>7 DEF Next

\* The turn's copy of the queue is one that was read and is not given up.
Working == Attempt \cup {"read", "claiming", "settling", "counted", "returning"}

\* What is the user's again, or about to be.
Given ==
  /\ back \cap (inTurn \cup savedTurn \cup ran \cup In(diskQ)) = {}
  /\ turn \in Working => back \cap In(memQ) = {}
  /\ back \cap In(memQ) \subseteq base
  /\ turn = "claiming" => active \notin back
  /\ \A m \in Msgs : takeback[m] = "saving" =>
       /\ m \notin In(memQ) \cup inTurn \cup ran
       /\ m \in In(diskQ) => m \in base
  /\ \A m \in Msgs : takeback[m] \in {"reading", "writing"} =>
       turn \in {"none", "closing"}
  /\ \A m \in Msgs : takeback[m] = "writing" =>
       /\ m \notin inTurn \cup savedTurn \cup ran
       /\ m \in In(memQ) => m \in base
  /\ held \cap (inTurn \cup savedTurn \cup ran) = {}
  /\ held \cap In(memQ) \subseteq base
  /\ turn = "discarding" => held \cap In(diskQ) = {}

\* The broker's jobs take nothing that was given back.
LEMMA GivenByJobs ==
  ASSUME IInv, Placed, Given, Jobs
  PROVE  Given'
<1> USE DEF IInv
<1>1. UNCHANGED <<turnVars, base, inTurn, diskVars, held, takeback, back, ran>>
  <2>1. saved # "failed"
    BY DEF Placed
  <2> QED
    BY <2>1 DEF Jobs, StartSubmit, StartDeliver, StartSendNow, AfterRecord,
       AfterRecordNext, AfterQueue, AfterMark
<1>2. CASE memQ' = memQ
  BY <1>1, <1>2 DEF Given
<1>3. CASE memQ' # memQ
  <2>1. /\ tail # <<>> /\ at = "ready" /\ Doing.kind = "submit"
        /\ QueueIt(Doing.msg, Doing.steer)
    BY <1>3 DEF Jobs, StartSubmit, StartDeliver, StartSendNow, AfterRecord,
       AfterRecordNext, AfterQueue, AfterMark, Resumed, Placed, TypeOK
  <2>2. Doing.msg \in Msgs /\ Nowhere(Doing.msg) /\ ~Wrote("job", None)
    BY <2>1, DoingIs DEF FreshIsNowhere, JobsShape, Awaits
  <2>3. In(memQ') = In(memQ) \cup {Doing.msg}
    BY <2>1, <2>2, QueuedIs
  <2> QED
    BY <1>1, <2>2, <2>3 DEF Given, Nowhere
<1> QED
  BY <1>2, <1>3

\* The vendor is offered nothing that was given back.
LEMMA GivenByVendor ==
  ASSUME IInv, Placed, Settled, Given, Usual, Vendor
  PROVE  Given'
<1> USE DEF IInv
<1>1. CASE PortOpens \/ Window \/ PortCloses
  BY <1>1 DEF PortOpens, Window, PortCloses, Given
<1>2. CASE Finish \/ \E how \in {"cancelled", "failed"} : Break(how)
  <2>1. /\ turn \in {"starting", "open"}
        /\ turn' \in {"completing", "settling", "unwinding"}
        /\ UNCHANGED <<memVars, diskVars, held, takeback, back, ran>>
    BY <1>2 DEF Finish, Break, AttemptOver, Unwinds
  <2>2. turn = "starting" => In(memQ) = {}
    BY DEF Shape, In
  <2>3. \A m \in Msgs : takeback[m] \notin {"reading", "writing"}
    BY <2>1 DEF Given
  <2> QED
    BY <2>1, <2>2, <2>3 DEF Given, Working, Attempt
<1>3. ASSUME NEW m \in Msgs, Unheard(m)
      PROVE  Given'
  <2>1. In(memQ') = In(memQ) \cup {m} /\ m \in inTurn /\ inTurn' = inTurn \ {m}
    BY <1>3, AddedIs DEF TypeOK, NoTwice, Unheard, Placed
  <2>2. UNCHANGED <<turn, active, base, diskVars, held, takeback, back, ran>>
    BY <1>3 DEF Unheard
  <2>3. turn = "open"
    BY <1>3 DEF Unheard
  <2> QED
    BY <2>1, <2>2, <2>3 DEF Given, Working, Attempt
<1>4. CASE OfferTaken \/ OfferLeft
  <2>1. tail # <<>> /\ bound /\ ~Wrote("job", None) /\ item \in Msgs
    BY <1>4, DoingIs DEF OfferTaken, OfferLeft, JobsShape, Awaits
  <2>2. at = "offer" => Nowhere(item)
    BY <2>1, DoingIs DEF JobsShape, FreshIsNowhere
  <2>3. UNCHANGED <<turn, active, base, diskVars, held, takeback, back, ran>>
    BY <1>4 DEF OfferTaken, OfferLeft
  <2>4. CASE QueueIt(item, TRUE) /\ at = "offer" /\ inTurn' = inTurn
    <3>1. In(memQ') = In(memQ) \cup {item}
      BY <2>1, <2>4, QueuedIs
    <3> QED
      BY <2>2, <2>3, <2>4, <3>1 DEF Nowhere, Given
  <2>5. CASE UNCHANGED <<memQ, inTurn>>
    BY <2>3, <2>5 DEF Given
  <2>6. CASE RecordSteer(item) /\ at \in {"offer", "offerNext"} /\ port
    <3>1. In(memQ') = In(memQ) \ {item} /\ inTurn' = inTurn \cup {item}
      BY <2>6, WithoutIs DEF TypeOK, RecordSteer
    <3>2. turn \in Attempt
      BY <2>6 DEF Settled
    <3>3. item \notin back \cup held /\ takeback[item] \notin {"writing", "saving"}
      <4>1. CASE at = "offer"
        BY <2>2, <4>1 DEF Nowhere
      <4>2. CASE at = "offerNext"
        <5>1. item \in In(memQ)
          BY <4>2 DEF InOrder
        <5> QED
          BY <2>1, <3>2, <5>1 DEF Given, Working, Attempt, Settled
      <4> QED
        BY <2>6, <4>1, <4>2
    <3> QED
      BY <2>3, <3>1, <3>2, <3>3 DEF Given
  <2> QED
    BY <1>4, <2>4, <2>5, <2>6 DEF OfferTaken, OfferLeft
<1> QED
  BY <1>1, <1>2, <1>3, <1>4 DEF Vendor

\* A turn's own steps: the copy it reads has nothing in it that was given
\* back.
LEMMA GivenByTurn ==
  ASSUME IInv, Placed, Settled, Waited, Given, Usual, TurnSteps
  PROVE  Given'
<1> USE DEF IInv
<1>1. CASE ReadCopy
  <2>1. \A m \in Msgs : takeback[m] \notin {"saving", "reading", "writing"}
    BY <1>1, UnboundIs DEF ReadCopy, Shape, Waited, Given
  <2>2. held = {}
    BY <1>1 DEF ReadCopy, Settled
  <2> QED
    BY <1>1, <2>1, <2>2 DEF ReadCopy, Given
<1>2. CASE Claim
  <2>1. In(Without(memQ, {active})) = In(memQ) \ {active}
    BY WithoutIs DEF TypeOK
  <2>2. In(memQ') \subseteq In(memQ) /\ turn' \in {"claiming", "settling"}
        /\ (turn' = "claiming" => active \in In(memQ))
    BY <1>2, <2>1 DEF Claim, EndsUnbound
  <2>3. turn = "read" /\ UNCHANGED <<active, base, inTurn, diskVars, held,
                                     takeback, back, ran>>
    BY <1>2 DEF Claim
  <2> QED
    BY <2>2, <2>3 DEF Given, Working
<1>3. CASE BeginFresh \/ Complete \/ Count
  BY <1>3 DEF BeginFresh, Bind, Complete, Count, Given, Working, Attempt
<1>4. CASE ReadHeld
  <2>1. held' = diskFlag /\ turn \in {"settling", "counted"} /\ turn' = "returning"
        /\ UNCHANGED <<active, memVars, diskVars, takeback, back, ran>>
    BY <1>4 DEF ReadHeld
  <2>2. inTurn = savedTurn /\ diskFlag \subseteq In(diskQ)
    BY <2>1, SettledIs DEF Attempt, Settled
  <2>3. diskFlag \cap (inTurn \cup savedTurn \cup ran) = {}
        /\ diskFlag \cap In(memQ) \subseteq base
    BY <2>2 DEF Placed, RanIsOver
  <2> QED
    BY <2>1, <2>3 DEF Given, Working
<1>5. CASE EndTurn
  <2>1. \A m \in Msgs : takeback[m] # "saving"
    BY <1>5 DEF EndTurn, Usual, Waited, Wrote, In
  <2>2. In(memQ') = {} /\ inTurn' = savedTurn /\ turn' = "none"
    BY <1>5 DEF EndTurn, In
  <2> QED
    BY <1>5, <2>1, <2>2 DEF EndTurn, Given, Working, Attempt
<1>6. ASSUME NEW ok \in BOOLEAN, ReturnHeld(ok)
      PROVE  Given'
  <2>1. In(diskQ') = In(diskQ) \ held /\ savedTurn' = savedTurn
    BY <1>6, WithoutIs DEF ReturnHeld, DiskDrop, TypeOK, Usual
  <2>2. /\ turn = "returning" /\ UNCHANGED <<memVars, takeback, ran>>
        /\ \/ turn' = "discarding" /\ UNCHANGED <<held, back>>
           \/ /\ turn' \in {"consuming", "closing"} /\ held' = {}
              /\ back' = back \cup held
    BY <1>6 DEF ReturnHeld, Usual
  <2> QED
    BY <2>1, <2>2 DEF Given, Working, Attempt
<1>8. ASSUME NEW ok \in BOOLEAN, Discard(ok)
      PROVE  Given'
  <2>1. turn = "discarding" /\ (keeps \/ savedTurn = earlier)
    BY <1>8 DEF Discard, Settled
  <2>2. /\ turn' = "closing" /\ held' = {} /\ back' = back \cup held
        /\ UNCHANGED <<memVars, diskVars, takeback, ran>>
    BY <1>8, <2>1 DEF Discard, Usual
  <2> QED
    BY <2>1, <2>2 DEF Given, Working, Attempt
<1>7. ASSUME NEW ok \in BOOLEAN, Consume(ok)
      PROVE  Given'
  <2>1. /\ In(diskQ') = In(diskQ) \ {active} /\ savedTurn' = savedTurn
        /\ ran' = IF active \in In(diskQ) THEN ran \cup {active} ELSE ran
    BY <1>7, WithoutIs DEF Consume, DiskDrop, TypeOK, Usual
  <2>2. turn = "consuming" /\ turn' = "closing"
        /\ UNCHANGED <<memVars, held, takeback, back>>
    BY <1>7 DEF Consume
  <2>3. active \in In(diskQ) => ~bound
    BY LiveInputAssumption DEF RanIsOver, TypeOK, In
  <2>4. active \in In(diskQ) => \A m \in Msgs : takeback[m] # "saving"
    BY <2>3, UnboundIs DEF Waited
  <2>5. held = {} /\ \A m \in Msgs : takeback[m] \notin {"reading", "writing"}
    BY <2>2 DEF Given, Settled
  <2> QED
    BY <2>1, <2>2, <2>4, <2>5 DEF Given, Working, Attempt
<1> QED
  BY <1>1, <1>2, <1>3, <1>4, <1>5, <1>6, <1>7, <1>8 DEF TurnSteps

\* What is typed is new, and a stored message is given back only while no
\* turn works on a copy of the queue.
LEMMA GivenByPeople ==
  ASSUME IInv, Placed, Settled, Given, Usual, ~Overlaps,
         People \/ \E m \in Msgs : Commands(m) \/ TakeBackResumes(m)
  PROVE  Given'
<1> USE DEF IInv
<1>1. CASE SendQueued
  BY <1>1 DEF SendQueued, Given
<1>2. ASSUME NEW x, StartTurn(x)
      PROVE  Given'
  BY <1>2 DEF StartTurn, Given, Working, Attempt
<1>3. ASSUME NEW x \in Msgs, Pick(x) \/ DropPick(x) \/ Type(x) \/ SubmitRejected(x)
      PROVE  Given'
  BY <1>3 DEF Pick, DropPick, Type, SubmitRejected, Given
<1>4. ASSUME NEW x \in Msgs, TakeBack(x) \/ TakeBackResumes(x)
      PROVE  Given'
  <2>1. /\ \A y \in Msgs \ {x} : takeback'[y] = takeback[y]
        /\ takeback'[x] # "writing"
        /\ takeback'[x] = "reading" => turn \in {"none", "closing"}
    BY <1>4 DEF TakeBack, TakeBackResumes, TypeOK, Live, Running
  <2>2. UNCHANGED <<turn, active, base, inTurn, diskVars, held, back, ran>>
    BY <1>4 DEF TakeBack, TakeBackResumes
  <2>3. In(Without(memQ, {x})) = In(memQ) \ {x}
    BY WithoutIs DEF TypeOK
  <2>4. \/ takeback'[x] # "saving" /\ memQ' = memQ
        \/ bound /\ x \in In(memQ) /\ In(memQ') = In(memQ) \ {x}
    BY <1>4, <2>3 DEF TakeBack, TakeBackResumes, TypeOK
  <2>5. takeback'[x] = "saving" =>
          x \notin inTurn \cup ran /\ (x \in In(diskQ) => x \in base)
    BY <2>4 DEF Placed, RanIsOver
  <2> QED
    BY <2>1, <2>2, <2>4, <2>5 DEF Given
<1>5. ASSUME NEW x \in Msgs, NEW ok \in BOOLEAN, TypeToDisk(x, ok)
      PROVE  Given'
  <2>1. Nowhere(x)
    BY <1>5 DEF TypeToDisk, FreshIsNowhere, Fresh
  <2>2. In(diskQ') = In(diskQ) \cup {x} /\ savedTurn' = savedTurn
    BY <1>5, AddedIs DEF TypeOK, NoTwice, TypeToDisk, DiskAdd, Usual
  <2>3. UNCHANGED <<turn, active, memVars, held, takeback, back, ran>>
    BY <1>5 DEF TypeToDisk
  <2> QED
    BY <2>1, <2>2, <2>3 DEF Nowhere, Given
<1>6. ASSUME NEW x \in Msgs, NEW steer \in BOOLEAN, Submit(x, steer)
      PROVE  Given'
  BY <1>6 DEF Submit, Given
<1>7. ASSUME NEW x \in Msgs, ReadTakeBack(x)
      PROVE  Given'
  <2>1. UNCHANGED <<turn, active, memVars, diskVars, held, back, ran>>
    BY <1>7 DEF ReadTakeBack
  <2>2. /\ \A y \in Msgs \ {x} : takeback'[y] = takeback[y]
        /\ takeback'[x] \in {"writing", "gone"} /\ takeback[x] = "reading"
        /\ takeback'[x] = "writing" => x \in In(diskQ)
    BY <1>7 DEF ReadTakeBack, TypeOK
  <2>3. turn \in {"none", "closing"}
    BY <2>2 DEF Given
  <2>4. inTurn = savedTurn
    BY <2>3, SettledIs DEF Attempt
  <2>5. x \in In(diskQ) => /\ x \notin inTurn \cup savedTurn \cup ran
                           /\ x \in In(memQ) => x \in base
    BY <2>4 DEF Placed, RanIsOver
  <2> QED
    BY <2>1, <2>2, <2>3, <2>5 DEF Given
<1>8. ASSUME NEW x \in Msgs, NEW ok \in BOOLEAN, WriteTakeBack(x, ok)
      PROVE  Given'
  <2>1. DiskDrop({x}) /\ Returned(x) /\ takeback[x] = "writing"
        /\ UNCHANGED <<turn, active, memVars, held, ran>>
    BY <1>8 DEF WriteTakeBack, Usual
  <2>2. /\ In(diskQ') = In(diskQ) \ {x} /\ savedTurn' = savedTurn
        /\ back' = back \cup {x} /\ takeback'[x] = "removed"
        /\ \A y \in Msgs \ {x} : takeback'[y] = takeback[y]
    BY <2>1, WithoutIs DEF TypeOK, DiskDrop, Returned
  <2>3. turn \in {"none", "closing"}
    BY <2>1 DEF Given
  <2> QED
    BY <2>1, <2>2, <2>3 DEF Given, Working, Attempt
<1> QED
  BY <1>1, <1>2, <1>3, <1>4, <1>5, <1>6, <1>7, <1>8 DEF People, Commands

\* The saves of the chain store no message that was given back.
LEMMA GivenBySaves ==
  ASSUME IInv, Placed, Settled, Waited, Given, Usual, NEW ok \in BOOLEAN,
         ChainSaves(ok)
  PROVE  Given'
<1> USE DEF IInv
<1>1. held' = held
  BY DEF ChainSaves, SaveStart, SaveJob, SaveEnd, SaveFlush, SaveTakeBack,
     SaveRequeue
<1>2. Store =>
      /\ In(diskQ') = (In(diskQ) \ (base \ In(memQ))) \cup (In(memQ) \ base)
      /\ base' = In(memQ) /\ savedTurn' = inTurn
      /\ memQ' = memQ /\ inTurn' = inTurn
  BY StoreIs
<1>3. ASSUME Store \/ UNCHANGED <<memVars, diskVars>>,
             UNCHANGED <<takeback, back>>, ran' \cap back = {},
             \A m \in ran' \ ran :
               takeback[m] \notin {"saving", "writing"} /\ m \notin held,
             \/ turn' = turn
             \/ turn' \in {"open", "unwinding", "settling", "closing"},
             turn' \in Working => turn \in Working,
             turn' # "claiming",
             \A m \in Msgs : takeback[m] \in {"reading", "writing"} =>
               turn' \in {"none", "closing"}
      PROVE  Given'
  BY <1>1, <1>2, <1>3 DEF Given
<1>4. CASE SaveStart(ok)
  <2>1. /\ turn' = "open" /\ ran' = ran \cup {active} /\ Store
        /\ UNCHANGED <<takeback, back>>
    BY <1>4 DEF SaveStart, Bind, Usual
  <2>2. ~bound
    BY <1>4, SaveOver DEF SaveStart, Shape, Wrote
  <2>3. turn = "claiming"
    BY <1>4, <2>2, UnboundIs DEF SaveStart
  <2>4. active \in Msgs /\ active \in base /\ active \notin In(memQ)
    BY <2>3 DEF Shape, TypeOK, RanIsOver
  <2>5. /\ active \notin back /\ held = {}
        /\ \A m \in Msgs : takeback[m] \notin {"reading", "writing"}
    BY <2>3 DEF Given, Settled
  <2>6. \A m \in Msgs : takeback[m] # "saving"
    BY <2>2, UnboundIs DEF Waited
  <2> QED
    BY <1>3, <2>1, <2>3, <2>4, <2>5, <2>6 DEF Given, Working
<1>5. CASE SaveJob(ok) \/ \E m \in Msgs : SaveRequeue(m, ok)
  <2>1. bound
    BY <1>5, SaveOver, UnboundIs DEF SaveJob, SaveRequeue, Wrote
  <2>2. turn # "claiming"
    BY <2>1 DEF Shape
  <2>3. Store /\ UNCHANGED <<turn, ran, takeback, back>>
    BY <1>5 DEF SaveJob, SaveRequeue, StoreOrFail, Usual
  <2> QED
    BY <1>3, <2>2, <2>3 DEF Given
<1>6. CASE SaveEnd(ok) \/ SaveFlush(ok)
  <2>1. turn \in {"saving", "unwinding"}
    <3>1. writes # <<>> /\ Head(writes) \in {<<"end", None>>, <<"flush", None>>}
      BY <1>6 DEF SaveEnd, SaveFlush
    <3>2. Head(writes) \in In(writes)
      BY <3>1, TailIs DEF TypeOK
    <3> QED
      BY <3>1, <3>2 DEF Shape, Wrote
  <2>2. /\ turn' \in {"unwinding", "closing", "settling"}
        /\ Store \/ UNCHANGED <<memVars, diskVars>>
        /\ UNCHANGED <<ran, takeback, back>>
    BY <1>6 DEF SaveEnd, SaveFlush, StoreOrFail, Usual
  <2>3. \A m \in Msgs : takeback[m] \notin {"reading", "writing"}
    BY <2>1 DEF Given
  <2> QED
    BY <1>3, <2>1, <2>2, <2>3 DEF Given, Working, Attempt
<1>7. ASSUME NEW m \in Msgs, SaveTakeBack(m, ok)
      PROVE  Given'
  <2>1. Wrote("takeBack", m)
    BY <1>7, SaveOver DEF SaveTakeBack, Wrote
  <2>2. takeback[m] = "saving" /\ bound
    BY <2>1, UnboundIs DEF WritesShape
  <2>3. turn # "claiming"
    BY <2>2 DEF Shape
  <2>4. Returned(m) /\ Store /\ UNCHANGED <<turn, ran>>
    BY <1>7 DEF SaveTakeBack, StoreOrFail, Usual
  <2>5. back' = back \cup {m} /\ takeback'[m] = "removed"
        /\ \A y \in Msgs \ {m} : takeback'[y] = takeback[y]
    BY <2>4 DEF Returned, TypeOK
  <2>6. m \notin In(memQ) \cup inTurn \cup ran /\ (m \in In(diskQ) => m \in base)
    BY <2>2 DEF Given
  <2> QED
    BY <1>1, <1>2, <2>3, <2>4, <2>5, <2>6 DEF Given
<1> QED
  BY <1>4, <1>5, <1>6, <1>7 DEF ChainSaves

\* Every step keeps what was given back with the user.
LEMMA GivenHolds ==
  ASSUME IInv, Placed, Settled, Waited, Given, Usual, ~Overlaps, [Next]_vars
  PROVE  Given'
<1>1. CASE UNCHANGED vars
  BY <1>1 DEF vars, Given
<1>2. ~LateSaves
  BY DEF LateSaves, Placed
<1>3. CASE Next
  BY <1>2, <1>3, GivenByJobs, GivenByVendor, GivenByTurn, GivenByPeople,
     GivenBySaves DEF Next
<1> QED
  BY <1>1, <1>3

\* (BackIsBack) A message given back to the user is in no turn, and no
\* turn has run it: no interleaving of a take-back with the broker's offers
\* runs it, as long as every save is made before its turn ends and before the
\* next one starts, and no turn is ended by force.
THEOREM TakenBackIsNotRun ==
  ASSUME ~SavesFail, ~Lingers, ~HardStops, ~Overlaps
  PROVE  Spec => []BackIsBack
<1>1. Usual
  BY DEF Usual
<1>2. Init => Placed /\ Settled /\ Waited /\ Given
  BY DEF Init, Placed, Settled, Waited, Given, Recording, Wrote, In, Awaits,
     Working, Attempt
<1>3. IInv /\ Placed /\ Settled /\ Waited /\ Given /\ [Next]_vars
        => Placed' /\ Settled' /\ Waited' /\ Given'
  BY <1>1, PlacedHolds, SettledHolds, WaitedHolds, GivenHolds DEF Usual
<1>4. Given => BackIsBack
  BY DEF Given, BackIsBack
<1> QED
  BY <1>2, <1>3, <1>4, Invariant, PTL DEF Spec
=============================================================================
