--------------------------- MODULE RegistryProofs ---------------------------
(* Proofs about who runs a conversation: the types, the invariant behind   *)
(* exclusion, exclusion itself, and that a process takes away nothing of   *)
(* another's, for any number of processes, crashes and hangs.              *)
EXTENDS Registry, TLAPS

-----------------------------------------------------------------------------

\* The types of the registry's state, for every instance.
THEOREM RegistryTypes == Spec => []TypeOK
<1> USE RegistryAssumption DEF Clients, Runners, Procs
<1>1. Init => TypeOK
  <2> SUFFICES ASSUME Init PROVE TypeOK
    OBVIOUS
  <2>1. apart \in BOOLEAN /\ ownerAged \in BOOLEAN
    BY DEF Init
  <2>2. /\ pc \in [Procs -> Labels] /\ raw \in [Runners -> Runners \cup {None}]
        /\ turn \in [Workers -> Clients \cup {None}] /\ hung \in SUBSET Workers
        /\ seen \in [Clients -> Workers \cup {None}]
        /\ try \in [Clients -> {"existing", "attach", "last"}]
        /\ crashes \in 0..MaxCrashes /\ hangs \in 0..MaxHangs
    BY DEF Init, Labels, Talking
  <2>3. /\ owner = None /\ marker = None /\ socket = None /\ record = None
        /\ handoff = None
    BY DEF Init
  <2> QED
    BY <2>1, <2>2, <2>3 DEF TypeOK
<1>2. TypeOK /\ [Next]_vars => TypeOK'
  <2> SUFFICES ASSUME TypeOK, [Next]_vars PROVE TypeOK'
    OBVIOUS
  <2> USE DEF TypeOK, Goto, Labels, Talking, Taking, Starting, Open, Stopping,
              Holding, Over, ownerVars, diskVars, clientVars, faultVars,
              ClientStep, Without, NoneRuns, Dies, Place, At
  <2>1. ASSUME NEW p \in Runners, Take(p) \/ ReadOwner(p) PROVE TypeOK'
    <3>1. CASE Take(p) /\ owner = None
      <4>1. ownerAged' \in BOOLEAN /\ apart' \in BOOLEAN
        BY <3>1 DEF Take
      <4> QED
        BY <3>1, <4>1 DEF Take
    <3>2. CASE Take(p) /\ owner # None
      BY <3>2 DEF Take
    <3>3. CASE ReadOwner(p)
      BY <3>3 DEF ReadOwner
    <3> QED
      BY <2>1, <3>1, <3>2, <3>3
  <2>2. ASSUME NEW p \in Runners, Judge(p) \/ Reach(p) \/ Wait(p)
        PROVE  TypeOK'
    BY <2>2 DEF Judge, Reach, Wait, Yielded
  <2>3. ASSUME NEW p \in Runners,
               Mark(p) \/ LookAgain(p) \/ SetAside(p) \/ Unmark(p)
        PROVE  TypeOK'
    BY <2>3 DEF Mark, LookAgain, SetAside, Unmark
  <2>4. ASSUME NEW p \in Runners, Release(p) \/ RemoveOwner(p) PROVE TypeOK'
    BY <2>4 DEF Release, RemoveOwner, OverAs
  <2>5. ASSUME NEW p \in Runners, Crash(p) PROVE TypeOK'
    BY <2>5 DEF Crash
  <2>6. ASSUME NEW w \in Workers, WorkerStep(w) PROVE TypeOK'
    BY <2>6 DEF WorkerStep, Probe, ClearPath, Listen, WriteRecord,
                CloseServer, Forget, RemoveRecord, HeldStill, RemoveSocket,
                EndTurn
  <2>7. ASSUME NEW w \in Workers,
               Start(w) \/ IdleExit(w) \/ HandOver(w) \/ Signal(w)
        PROVE  TypeOK'
    BY <2>7 DEF Start, IdleExit, HandOver, Signal, Shutdown
  <2>8. ASSUME NEW w \in Runners,
               Hang(w) \/ Wake(w) \/ (w \in Workers /\ Watchdog(w))
        PROVE  TypeOK'
    <3>1. CASE Hang(w)
      BY <3>1 DEF Hang
    <3>3. CASE w \in Workers /\ Watchdog(w)
      BY <3>3 DEF Watchdog
    <3>2. CASE Wake(w)
      <4>1. ownerAged' \in BOOLEAN /\ apart' \in BOOLEAN
        BY <3>2 DEF Wake
      <4>2. UNCHANGED <<pc, owner, marker, raw, socket, record, handoff, turn,
                        clientVars, crashes, hangs>>
            /\ hung' \in SUBSET Runners
        BY <3>2 DEF Wake
      <4> QED
        BY <4>1, <4>2
    <3> QED
      BY <2>8, <3>1, <3>2, <3>3
  <2>9. ASSUME NEW c \in Clients,
               Ask(c) \/ ReadRecord(c) \/ CheckRecord(c) \/ Released(c)
        PROVE  TypeOK'
    BY <2>9 DEF Ask, ReadRecord, CheckRecord, Released
  <2>10. ASSUME NEW c \in Clients, Retire(c) PROVE TypeOK'
    BY <2>10 DEF Retire
  <2>11. ASSUME NEW c \in Clients, Spawn(c) \/ Replace(c) PROVE TypeOK'
    BY <2>11 DEF Spawn, Replace
  <2>12. ASSUME NEW c \in Clients,
                PollRecord(c) \/ PollTimesOut(c) \/ Connect(c)
         PROVE  TypeOK'
    BY <2>12 DEF PollRecord, PollTimesOut, Connect
  <2>13. ASSUME NEW c \in Clients,
                Submit(c) \/ RunQueued(c) \/ WorkerGone(c) \/ AskHandoff(c)
         PROVE  TypeOK'
    BY <2>13 DEF Submit, RunQueued, WorkerGone, AskHandoff
  <2>14. ASSUME NEW s \in Scripts, EndOwnTurn(s) PROVE TypeOK'
    BY <2>14 DEF EndOwnTurn
  <2>15. CASE OwnerAges \/ HandoffAges
    BY <2>15 DEF OwnerAges, HandoffAges
  <2>16. CASE UNCHANGED vars
    BY <2>16 DEF vars
  <2> QED
    BY <2>1, <2>2, <2>3, <2>4, <2>5, <2>6, <2>7, <2>8, <2>9, <2>10, <2>11,
       <2>12, <2>13, <2>14, <2>15, <2>16 DEF Next, TakingStep, AskingStep
<1> QED
  BY <1>1, <1>2, PTL DEF Spec

-----------------------------------------------------------------------------
(* The invariant.  Most steps only move processes along: they touch none   *)
(* of the files the invariant is about.                                    *)

\* The moves of one process that leave the files alone.
Calm == Talking \cup {"take", "read", "wait"}

Moved(p) ==
  \/ pc'[p] = pc[p]
  \/ pc[p] \in Calm /\ pc'[p] \in Calm \cup {"gone", "done", "failed"}
  \/ /\ pc[p] \in Holding \ {"serve"} /\ pc'[p] \in Holding
     /\ pc'[p] \in Open => pc[p] \in Open
  \/ /\ pc[p] = "serve" /\ pc'[p] = "close"
     /\ p \notin hung /\ ~Stalled(p)
  \/ pc[p] \notin Over /\ pc'[p] = "dead" /\ p \notin hung' /\ pc[p] # "unborn"

\* Steps that only move processes along preserve the invariant.
LEMMA MovesKeepInv ==
  ASSUME TypeOK, RegistryInv,
         UNCHANGED <<ownerVars, socket, apart>>,
         pc' \in [Procs -> Labels], hung' \subseteq hung,
         \A w \in hung \ hung' : pc'[w] = "dead",
         \A p \in Procs : Moved(p)
  PROVE  RegistryInv'
<1> USE RegistryAssumption DEF Clients, Runners, Procs, TypeOK, RegistryInv,
        ownerVars, Moved, Calm
<1>1. HolderIsOwner'
  <2> USE DEF HolderIsOwner, Holding, Starting, Open, Stopping, Over, Talking
  <2>1. ASSUME NEW p \in Runners, pc'[p] \in Holding PROVE owner' = p
    BY <2>1
  <2>2. ASSUME owner' # None PROVE pc'[owner'] \in Holding \cup {"dead"}
    BY <2>2
  <2>3. ASSUME NEW w \in hung' PROVE w \in Workers /\ pc'[w] = "serve"
    BY <2>3
  <2>4. ASSUME owner' # None, ownerAged'
        PROVE  pc'[owner'] = "dead" \/ (owner' \in hung' /\ ~apart')
    BY <2>4
  <2> QED
    BY <2>1, <2>2, <2>3, <2>4
<1>2. ListenerAtPath'
  BY DEF ListenerAtPath, Holding, Starting, Open, Stopping, Over, Talking
<1>3. MarkerIsTurn'
  BY DEF MarkerIsTurn, Holding, Starting, Open, Stopping, Over, Talking
<1>4. JudgedIsOver'
  <2> SUFFICES ASSUME NEW p \in Runners
               PROVE  /\ raw[p] # None => pc'[raw[p]] \in Holding \cup Over
                      /\ pc'[p] = "judge" => raw[p] # None
                      /\ pc'[p] = "reach" =>
                           /\ raw[p] \in Workers /\ Place(raw[p])' = Place(p)'
                           /\ pc'[raw[p]] \in Over \cup {"serve"}
                      /\ pc'[p] \in {"mark", "look", "rename"}
                           => raw[p] = None \/ pc'[raw[p]] \in Over
    BY DEF JudgedIsOver
  <2> USE DEF JudgedIsOver, Holding, Starting, Open, Stopping, Over, Talking
  <2>1. raw[p] # None => pc'[raw[p]] \in Holding \cup Over
    OBVIOUS
  <2>2. pc'[p] \in {"judge", "reach", "mark", "look", "rename"}
          => pc[p] = pc'[p]
    OBVIOUS
  <2>3. ASSUME NEW q \in Runners, pc[q] \in Over PROVE pc'[q] = pc[q]
    BY <2>3
  <2>4. ASSUME pc'[p] = "reach"
        PROVE  /\ raw[p] \in Workers /\ Place(raw[p])' = Place(p)'
               /\ pc'[raw[p]] \in Over \cup {"serve"}
    BY <2>2, <2>3, <2>4 DEF Stalled, Place
  <2> QED
    BY <2>1, <2>2, <2>3, <2>4
<1> QED
  BY <1>1, <1>2, <1>3, <1>4

\* The steps that only move processes along.
LEMMA MovesOnly ==
  ASSUME ~LateReach, TypeOK, TypeOK', RegistryInv,
         \/ \E w \in Workers :
              \/ Probe(w) \/ WriteRecord(w) \/ Forget(w) \/ RemoveRecord(w)
              \/ HeldStill(w) \/ EndTurn(w) \/ Start(w) \/ IdleExit(w)
              \/ HandOver(w) \/ Signal(w) \/ Watchdog(w)
         \/ \E p \in Runners : Wait(p) \/ Release(p) \/ Crash(p)
         \/ \E s \in Scripts : EndOwnTurn(s)
         \/ \E c \in Clients : AskingStep(c) \/ Ask(c) \/ AskHandoff(c)
         \/ HandoffAges
         \/ UNCHANGED vars
  PROVE  RegistryInv'
<1> USE RegistryAssumption DEF Clients, Runners, Procs
<1> DEFINE Only == /\ UNCHANGED <<ownerVars, socket, apart>>
                   /\ hung' \subseteq hung
                   /\ \A w \in hung \ hung' : pc'[w] = "dead"
                   /\ \A p \in Procs : Moved(p)
<1>1. Only
  <2> USE DEF TypeOK, Goto, Labels, Talking, Taking, Starting, Open, Stopping,
              Holding, Over, ownerVars, diskVars, clientVars, faultVars,
              ClientStep, Without, NoneRuns, Dies, Calm, Moved, At
  <2>1. ASSUME NEW w \in Workers,
               \/ Probe(w) \/ WriteRecord(w) \/ Forget(w) \/ RemoveRecord(w)
               \/ HeldStill(w) \/ Start(w)
        PROVE  Only
    BY <2>1 DEF Probe, WriteRecord, Forget, RemoveRecord, HeldStill, Start
  <2>2. ASSUME NEW w \in Workers, EndTurn(w) PROVE Only
    BY <2>2 DEF EndTurn
  <2>3. ASSUME NEW w \in Workers, IdleExit(w) \/ HandOver(w) \/ Signal(w)
        PROVE  Only
    BY <2>3 DEF IdleExit, HandOver, Signal, Shutdown, Serves, CanLeave
  <2>4. ASSUME NEW w \in Workers, Watchdog(w) PROVE Only
    BY <2>4 DEF Watchdog, RegistryInv, HolderIsOwner
  <2>5. ASSUME NEW p \in Runners, Wait(p) \/ Release(p) PROVE Only
    BY <2>5 DEF Wait, Release, OverAs, RegistryInv, HolderIsOwner
  <2>6. ASSUME NEW p \in Runners, Crash(p) PROVE Only
    BY <2>6 DEF Crash, Alive
  <2>7. ASSUME NEW s \in Scripts, EndOwnTurn(s) PROVE Only
    BY <2>7 DEF EndOwnTurn
  <2>8. ASSUME NEW c \in Clients,
               Ask(c) \/ ReadRecord(c) \/ CheckRecord(c) \/ Released(c)
        PROVE  Only
    BY <2>8 DEF Ask, ReadRecord, CheckRecord, Released
  <2>9. ASSUME NEW c \in Clients, Retire(c) PROVE Only
    BY <2>9 DEF Retire, RecordIsLive, Reachable, CanLeave
  <2>10. ASSUME NEW c \in Clients, Spawn(c) PROVE Only
    BY <2>10 DEF Spawn
  <2>11. ASSUME NEW c \in Clients, Replace(c) PROVE Only
    <3>1. CASE seen[c] = None
      BY <2>11, <3>1 DEF Replace, Serves
    <3>2. CASE UNCHANGED <<hung, turn>> /\ seen[c] \in Workers
      BY <2>11, <3>2 DEF Replace, Serves, CanLeave, Alive
    <3>3. CASE /\ seen[c] \in Workers /\ Alive(seen[c])
               /\ pc' = [pc EXCEPT ![c] = "spawn", ![seen[c]] = "dead"]
               /\ Dies(seen[c])
      BY <2>11, <3>3 DEF Replace, Alive
    <3> QED
      BY <2>11, <3>1, <3>2, <3>3 DEF Replace
  <2>12. ASSUME NEW c \in Clients,
                PollRecord(c) \/ PollTimesOut(c) \/ Connect(c)
         PROVE  Only
    BY <2>12 DEF PollRecord, PollTimesOut, Connect
  <2>13. ASSUME NEW c \in Clients,
                Submit(c) \/ RunQueued(c) \/ WorkerGone(c) \/ AskHandoff(c)
         PROVE  Only
    BY <2>13 DEF Submit, RunQueued, WorkerGone, AskHandoff
  <2>14. CASE HandoffAges
    BY <2>14 DEF HandoffAges
  <2>15. CASE UNCHANGED vars
    BY <2>15 DEF vars
  <2> QED
    BY <2>1, <2>2, <2>3, <2>4, <2>5, <2>6, <2>7, <2>8, <2>9, <2>10, <2>11,
       <2>12, <2>13, <2>14, <2>15 DEF AskingStep
<1>2. pc' \in [Procs -> Labels]
  BY DEF TypeOK
<1> QED
  BY <1>1, <1>2, MovesKeepInv

\* The steps that change a file, or judge one.
LEMMA FilesKeepInv ==
  ASSUME ~LongHangs, ~Suspends, TypeOK, TypeOK', RegistryInv,
         \/ \E p \in Runners :
              \/ Take(p) \/ ReadOwner(p) \/ Judge(p) \/ Reach(p) \/ Mark(p)
              \/ LookAgain(p) \/ SetAside(p) \/ Unmark(p) \/ RemoveOwner(p)
              \/ Hang(p) \/ Wake(p)
         \/ \E w \in Workers : \/ ClearPath(w) \/ Listen(w) \/ CloseServer(w)
                               \/ RemoveSocket(w)
         \/ OwnerAges
  PROVE  RegistryInv'
<1> USE RegistryAssumption
    DEF Clients, Runners, Procs, TypeOK, Goto, Labels, Talking, Taking,
        Starting, Open, Stopping, Holding, Over, ownerVars, diskVars,
        clientVars, faultVars, RegistryInv, HolderIsOwner, ListenerAtPath,
        MarkerIsTurn, JudgedIsOver, Place, At
<1>1. ASSUME NEW p \in Runners, Take(p) PROVE RegistryInv'
  BY <1>1 DEF Take
<1>2. ASSUME NEW p \in Runners, ReadOwner(p) PROVE RegistryInv'
  BY <1>2 DEF ReadOwner
<1>3. ASSUME NEW p \in Runners, Judge(p) PROVE RegistryInv'
  BY <1>3 DEF Judge, Yielded, Alive
<1>4. ASSUME NEW p \in Runners, Reach(p) PROVE RegistryInv'
  BY <1>4 DEF Reach, Yielded, Reachable
<1>5. ASSUME NEW p \in Runners, Mark(p) PROVE RegistryInv'
  BY <1>5 DEF Mark
<1>6. ASSUME NEW p \in Runners, LookAgain(p) PROVE RegistryInv'
  BY <1>6 DEF LookAgain
<1>7. ASSUME NEW p \in Runners, SetAside(p) PROVE RegistryInv'
  BY <1>7 DEF SetAside
<1>8. ASSUME NEW p \in Runners, Unmark(p) PROVE RegistryInv'
  BY <1>8 DEF Unmark
<1>9. ASSUME NEW p \in Runners, RemoveOwner(p) PROVE RegistryInv'
  BY <1>9 DEF RemoveOwner, OverAs
<1>10. ASSUME NEW w \in Workers, ClearPath(w) \/ RemoveSocket(w)
       PROVE  RegistryInv'
  BY <1>10 DEF ClearPath, RemoveSocket
<1>11. ASSUME NEW w \in Workers, Listen(w) PROVE RegistryInv'
  BY <1>11 DEF Listen
<1>12. ASSUME NEW w \in Workers, CloseServer(w) PROVE RegistryInv'
  BY <1>12 DEF CloseServer
<1>13. ASSUME NEW p \in Runners, Hang(p) PROVE RegistryInv'
  BY <1>13 DEF Hang
<1>14. ASSUME NEW p \in Runners, Wake(p) PROVE RegistryInv'
  <2>1. /\ UNCHANGED <<pc, owner, marker, raw, socket, apart>>
        /\ hung' = hung \ {p} /\ p \in hung
        /\ ownerAged' => ownerAged /\ owner # p
    BY <1>14 DEF Wake
  <2>2. HolderIsOwner'
    <3> HIDE DEF TypeOK
    <3>1. owner' # None /\ ownerAged'
            => pc'[owner'] = "dead" \/ (owner' \in hung' /\ ~apart')
      BY <2>1
    <3> QED
      BY <2>1, <3>1
  <2>3. ListenerAtPath' /\ MarkerIsTurn' /\ JudgedIsOver'
    BY <2>1
  <2> QED
    BY <2>2, <2>3
<1>15. CASE OwnerAges
  BY <1>15 DEF OwnerAges, Alive
<1> QED
  BY <1>1, <1>2, <1>3, <1>4, <1>5, <1>6, <1>7, <1>8, <1>9, <1>10, <1>11,
     <1>12, <1>13, <1>14, <1>15

\* The invariant of every reachable state, for any number of processes, where
\* nobody that has the conversation stands still past OWNER_STALE_MS but a
\* worker that serves, with no other machine looking on, and none found so
\* leaves while its socket is about to be tried (registry.ts:288-298).
THEOREM RegistryInvariant ==
  ASSUME ~LateReach, ~LongHangs, ~Suspends
  PROVE  Spec => []RegistryInv
<1>1. Init => RegistryInv
  BY RegistryAssumption
  DEF Init, RegistryInv, HolderIsOwner, ListenerAtPath, MarkerIsTurn,
      JudgedIsOver, Holding, Starting, Open, Stopping, Clients, Runners, Procs
<1>2. TypeOK /\ TypeOK' /\ RegistryInv /\ [Next]_vars => RegistryInv'
  BY MovesOnly, FilesKeepInv DEF Next, TakingStep, WorkerStep
<1> QED
  BY <1>1, <1>2, RegistryTypes, PTL DEF Spec

-----------------------------------------------------------------------------
(* What the invariant is for.                                              *)

\* The owner file changes hands through nobody.
LEMMA OwnerThroughNobody ==
  ASSUME [Next]_vars
  PROVE  owner' = owner \/ owner' = None \/ owner = None
<1> USE DEF ownerVars, diskVars, ClientStep
<1>1. ASSUME NEW p \in Runners,
             TakingStep(p) \/ Crash(p) \/ Hang(p) \/ Wake(p)
      PROVE  owner' = owner \/ owner' = None \/ owner = None
  BY <1>1 DEF TakingStep, Take, ReadOwner, Judge, Reach, Wait, Mark,
              LookAgain, SetAside, Unmark, Release, RemoveOwner, Crash, Hang,
              Wake
<1>2. ASSUME NEW w \in Workers,
             \/ WorkerStep(w) \/ Start(w) \/ IdleExit(w) \/ HandOver(w)
             \/ Signal(w) \/ Watchdog(w)
      PROVE  owner' = owner
  BY <1>2 DEF WorkerStep, Probe, ClearPath, Listen, WriteRecord, CloseServer,
              Forget, RemoveRecord, HeldStill, RemoveSocket, EndTurn, Start,
              IdleExit, HandOver, Signal, Shutdown, Watchdog
<1>3. ASSUME NEW c \in Clients, AskingStep(c) \/ Ask(c) \/ AskHandoff(c)
      PROVE  owner' = owner
  BY <1>3 DEF AskingStep, ReadRecord, CheckRecord, Retire, Released, Spawn,
              PollRecord, PollTimesOut, Connect, Replace, Submit, RunQueued,
              WorkerGone, Ask, AskHandoff
<1>4. ASSUME NEW s \in Scripts, EndOwnTurn(s) PROVE owner' = owner
  BY <1>4 DEF EndOwnTurn
<1>5. CASE OwnerAges \/ HandoffAges \/ UNCHANGED vars
  BY <1>5 DEF OwnerAges, HandoffAges, vars
<1> QED
  BY <1>1, <1>2, <1>3, <1>4, <1>5 DEF Next

\* Exactly one process at a time has the conversation, and the next takes it
\* only once that one let go or died: for any number of workers and scripted
\* sends, of crashes, and of hangs of a worker that serves.  A process that
\* holds it and does not serve is assumed not to stand still past the limit.
THEOREM OneRunnerAtATime ==
  ASSUME ~LateReach, ~LongHangs, ~Suspends
  PROVE  Spec => OneRunner
<1>1. Init => Abstract!Init
  BY DEF Init, Abstract!Init, Holding, Starting, Open, Stopping, Clients,
         Runners, Procs
<1>2. TypeOK /\ RegistryInv /\ RegistryInv' /\ [Next]_vars
        => [Abstract!Next]_{p \in Runners : pc[p] \in Holding}
  <2> DEFINE H == {p \in Runners : pc[p] \in Holding}
  <2> SUFFICES ASSUME TypeOK, RegistryInv, RegistryInv', [Next]_vars
               PROVE  \/ H' = H
                      \/ \E p \in Runners : \/ H = {} /\ H' = {p}
                                            \/ H = {p} /\ H' = {}
    BY DEF Abstract!Next, Abstract!Acquire, Abstract!Drop
  <2>1. \A p \in H : owner = p
    BY DEF RegistryInv, HolderIsOwner
  <2>2. \A p \in H' : owner' = p
    BY DEF RegistryInv, HolderIsOwner
  <2>3. H \subseteq Runners /\ H' \subseteq Runners
    OBVIOUS
  <2>4. None \notin Runners
    BY RegistryAssumption DEF Runners, Procs, Clients
  <2>5. owner' = owner \/ owner' = None \/ owner = None
    BY OwnerThroughNobody
  <2> DEFINE K == H'
  <2>6. (\A q \in H : owner = q) /\ (\A q \in K : owner' = q)
        /\ H \subseteq Runners /\ K \subseteq Runners
    BY <2>1, <2>2, <2>3
  <2>7. \/ K = H
        \/ \E p \in Runners : (H = {} /\ K = {p}) \/ (H = {p} /\ K = {})
    <3> HIDE DEF H, K
    <3>1. CASE H = {} /\ K # {}
      <4>1. PICK p \in Runners : p \in K
        BY <3>1, <2>6
      <4>2. \A q : q \in K <=> q = p
        BY <4>1, <2>6
      <4>3. K = {p}
        BY <4>2
      <4> QED
        BY <4>1, <4>3, <3>1
    <3>2. CASE H # {} /\ K = {}
      <4>1. PICK p \in Runners : p \in H
        BY <3>2, <2>6
      <4>2. \A q : q \in H <=> q = p
        BY <4>1, <2>6
      <4>3. H = {p}
        BY <4>2
      <4> QED
        BY <4>1, <4>3, <3>2
    <3>3. CASE H # {} /\ K # {}
      <4>1. PICK p \in Runners, q \in Runners : p \in H /\ q \in K
        BY <3>3, <2>6
      <4>2. p = owner /\ q = owner'
        BY <4>1, <2>6
      <4>3. p = q
        BY <4>1, <4>2, <2>4, <2>5
      <4>4. (\A x : x \in H <=> x = p) /\ (\A x : x \in K <=> x = p)
        BY <4>1, <4>2, <4>3, <2>6
      <4>5. H = {p} /\ K = {p}
        BY <4>4
      <4> QED
        BY <4>5
    <3>4. CASE H = {} /\ K = {}
      BY <3>4
    <3> QED
      BY <3>1, <3>2, <3>3, <3>4
  <2> QED
    BY <2>7
<1> QED
  BY <1>1, <1>2, RegistryTypes, RegistryInvariant, PTL
  DEF Spec, OneRunner, Abstract!Spec

\* A process's file is changed by a process that moves: one that has the
\* conversation, or one that sets aside an owner it found over.
LEMMA FilesChangeHands ==
  ASSUME TypeOK, [Next]_vars
  PROVE  /\ socket' # socket \/ record' # record
              => \E r \in Runners : pc'[r] # pc[r] /\ pc[r] \in Holding
         /\ owner' # owner
              => \/ owner = None
                 \/ \E r \in Runners :
                      /\ pc'[r] # pc[r]
                      /\ pc[r] \in Holding \/ (pc[r] = "rename" /\ raw[r] = owner)
<1> DEFINE HolderMoved(r) == pc'[r] # pc[r] /\ pc[r] \in Holding
           SetsAside(r) == pc'[r] # pc[r] /\ pc[r] = "rename" /\ raw[r] = owner
           Good == /\ socket' # socket \/ record' # record
                        => \E r \in Runners : HolderMoved(r)
                   /\ owner' # owner
                        => \/ owner = None
                           \/ \E r \in Runners : HolderMoved(r) \/ SetsAside(r)
<1> USE DEF ownerVars, diskVars, ClientStep
<1>1. ASSUME NEW p \in Runners,
             TakingStep(p) \/ Crash(p) \/ Hang(p) \/ Wake(p)
      PROVE  Good
  <2>1. CASE SetAside(p) \/ RemoveOwner(p)
    <3>1. HolderMoved(p) \/ SetsAside(p) \/ owner' = owner
      <4>1. p \in Procs
        BY DEF Runners, Procs, Clients
      <4>2. CASE SetAside(p)
        BY <4>1, <4>2 DEF SetAside, Goto, TypeOK
      <4>3. CASE RemoveOwner(p)
        BY <4>1, <4>3 DEF RemoveOwner, OverAs, Goto, At, TypeOK, Holding, Stopping
      <4> QED
        BY <2>1, <4>2, <4>3
    <3>2. socket' = socket /\ record' = record
      BY <2>1 DEF SetAside, RemoveOwner
    <3> QED
      BY <3>1, <3>2
  <2>2. CASE Take(p)
    BY <2>2 DEF Take
  <2>3. CASE \/ ReadOwner(p) \/ Judge(p) \/ Reach(p) \/ Wait(p) \/ Mark(p)
             \/ LookAgain(p) \/ Unmark(p) \/ Release(p) \/ Crash(p)
             \/ Hang(p) \/ Wake(p)
    BY <2>3 DEF ReadOwner, Judge, Reach, Wait, Mark, LookAgain, Unmark,
                Release, Crash, Hang, Wake
  <2> QED
    BY <1>1, <2>1, <2>2, <2>3 DEF TakingStep
<1>2. ASSUME NEW w \in Workers, WorkerStep(w) PROVE Good
  <2>1. w \in Runners
    BY DEF Runners
  <2>2. CASE \/ ClearPath(w) \/ Listen(w) \/ WriteRecord(w) \/ CloseServer(w)
             \/ RemoveRecord(w) \/ RemoveSocket(w)
    <3>1. HolderMoved(w) /\ owner' = owner
      BY <2>1, <2>2
      DEF ClearPath, Listen, WriteRecord, CloseServer, RemoveRecord,
          RemoveSocket, Goto, At, TypeOK, Holding, Starting, Open, Stopping,
          Runners, Procs
    <3> QED
      BY <2>1, <3>1
  <2>3. CASE Probe(w) \/ Forget(w) \/ HeldStill(w) \/ EndTurn(w)
    BY <2>3 DEF Probe, Forget, HeldStill, EndTurn
  <2> QED
    BY <1>2, <2>2, <2>3 DEF WorkerStep
<1>3. ASSUME NEW w \in Workers,
             \/ Start(w) \/ IdleExit(w) \/ HandOver(w) \/ Signal(w)
             \/ Watchdog(w)
      PROVE  UNCHANGED <<owner, socket, record>>
  BY <1>3 DEF Start, IdleExit, HandOver, Signal, Shutdown, Watchdog
<1>4. ASSUME NEW c \in Clients, AskingStep(c) \/ Ask(c) \/ AskHandoff(c)
      PROVE  UNCHANGED <<owner, socket, record>>
  BY <1>4 DEF AskingStep, ReadRecord, CheckRecord, Retire, Released, Spawn,
              PollRecord, PollTimesOut, Connect, Replace, Submit, RunQueued,
              WorkerGone, Ask, AskHandoff
<1>5. ASSUME NEW s \in Scripts, EndOwnTurn(s)
      PROVE  UNCHANGED <<owner, socket, record>>
  BY <1>5 DEF EndOwnTurn
<1>6. CASE OwnerAges \/ HandoffAges \/ UNCHANGED vars
  BY <1>6 DEF OwnerAges, HandoffAges, vars
<1> QED
  BY <1>1, <1>2, <1>3, <1>4, <1>5, <1>6 DEF Next

\* Nobody takes away the owner file, the socket or the record of a process
\* that has the conversation, under the assumptions of RegistryInvariant.
THEOREM OthersAreKept ==
  ASSUME ~LateReach, ~LongHangs, ~Suspends
  PROVE  Spec => OthersKept
<1>1. ASSUME TypeOK, RegistryInv, [Next]_vars,
             NEW p \in Runners, NEW q \in Runners,
             p # q, pc[p] \in Holding, pc'[p] = pc[p]
      PROVE  /\ owner = p => owner' = p
             /\ socket = p => socket' = p
             /\ record = p => record' = p
  <2>1. owner = p /\ p # None
    BY <1>1, RegistryAssumption
    DEF RegistryInv, HolderIsOwner, Runners, Procs, Clients
  <2>2. \A r \in Runners : pc[r] \in Holding => r = p
    BY <1>1, <2>1 DEF RegistryInv, HolderIsOwner
  <2>3. \A r \in Runners : ~(pc[r] = "rename" /\ raw[r] = owner)
    BY <1>1, <2>1
    DEF RegistryInv, JudgedIsOver, Holding, Starting, Open, Stopping, Over
  <2> QED
    BY <1>1, <2>1, <2>2, <2>3, FilesChangeHands
<1>2. TypeOK /\ RegistryInv /\ [Next]_vars
        => [\A p, q \in Runners :
              p # q /\ pc'[q] # pc[q] /\ pc[p] \in Holding /\ pc'[p] = pc[p]
                => /\ owner = p => owner' = p
                   /\ socket = p => socket' = p
                   /\ record = p => record' = p]_vars
  BY <1>1
<1> QED
  BY <1>2, RegistryTypes, RegistryInvariant, PTL DEF Spec, OthersKept

-----------------------------------------------------------------------------
(* What lies at the conversation's paths, and whose it is.  This needs     *)
(* neither assumption: it does not say that the conversation has one       *)
(* owner, only that a process over of its own accord left nothing.         *)

FilesHaveMakers ==
  /\ owner # None => pc[owner] \in Holding \cup {"dead"}
  /\ marker # None => pc[marker] \in {"look", "rename", "unmark", "dead"}
  /\ socket # None => pc[socket] \in Open \cup {"dead"}
  /\ record # None
       => pc[record] \in {"serve", "close", "forget", "forget2", "dead"}
  /\ \A c \in Clients : seen[c] # None => pc[seen[c]] \in Holding \cup Over

\* A file is its maker's for as long as it lies there: each way to let go of
\* one removes it first, or finds that it is another's.
LEMMA MakersKept ==
  ASSUME TypeOK, FilesHaveMakers, [Next]_vars PROVE FilesHaveMakers'
<1> USE RegistryAssumption
    DEF Clients, Runners, Procs, TypeOK, Goto, Labels, Talking, Taking,
        Starting, Open, Stopping, Holding, Over, ownerVars, diskVars,
        clientVars, faultVars, ClientStep, Without, NoneRuns, Dies, At,
        FilesHaveMakers
<1>1. ASSUME NEW p \in Runners, Take(p) PROVE FilesHaveMakers'
  BY <1>1 DEF Take
<1>2. ASSUME NEW p \in Runners, ReadOwner(p) \/ Judge(p) \/ Reach(p) \/ Wait(p)
      PROVE  FilesHaveMakers'
  BY <1>2 DEF ReadOwner, Judge, Reach, Wait, Yielded
<1>3. ASSUME NEW p \in Runners,
             Mark(p) \/ LookAgain(p) \/ SetAside(p) \/ Unmark(p)
      PROVE  FilesHaveMakers'
  BY <1>3 DEF Mark, LookAgain, SetAside, Unmark
<1>4. ASSUME NEW p \in Runners, Release(p) \/ RemoveOwner(p)
      PROVE  FilesHaveMakers'
  BY <1>4 DEF Release, RemoveOwner, OverAs
<1>5. ASSUME NEW p \in Runners, Crash(p) PROVE FilesHaveMakers'
  BY <1>5 DEF Crash, Alive
<1>6. ASSUME NEW w \in Workers,
             Probe(w) \/ ClearPath(w) \/ Listen(w) \/ WriteRecord(w)
      PROVE  FilesHaveMakers'
  BY <1>6 DEF Probe, ClearPath, Listen, WriteRecord
<1>7. ASSUME NEW w \in Workers,
             \/ CloseServer(w) \/ Forget(w) \/ RemoveRecord(w) \/ HeldStill(w)
             \/ RemoveSocket(w)
      PROVE  FilesHaveMakers'
  BY <1>7 DEF CloseServer, Forget, RemoveRecord, HeldStill, RemoveSocket
<1>8. ASSUME NEW w \in Workers, EndTurn(w) PROVE FilesHaveMakers'
  BY <1>8 DEF EndTurn
<1>9. ASSUME NEW w \in Workers,
             Start(w) \/ IdleExit(w) \/ HandOver(w) \/ Signal(w)
      PROVE  FilesHaveMakers'
  BY <1>9 DEF Start, IdleExit, HandOver, Signal, Shutdown, Serves
<1>10. ASSUME NEW w \in Runners,
              Hang(w) \/ Wake(w) \/ (w \in Workers /\ Watchdog(w))
       PROVE  FilesHaveMakers'
  <2>1. CASE Hang(w)
    BY <2>1 DEF Hang
  <2>2. CASE Wake(w)
    <3>1. UNCHANGED <<pc, owner, marker, socket, record, seen>>
      BY <2>2 DEF Wake
    <3> QED
      BY <3>1
  <2>3. CASE w \in Workers /\ Watchdog(w)
    BY <2>3 DEF Watchdog
  <2> QED
    BY <1>10, <2>1, <2>2, <2>3
<1>11. ASSUME NEW c \in Clients,
              Ask(c) \/ ReadRecord(c) \/ CheckRecord(c) \/ Released(c)
       PROVE  FilesHaveMakers'
  BY <1>11 DEF Ask, ReadRecord, CheckRecord, Released
<1>12. ASSUME NEW c \in Clients, Retire(c) PROVE FilesHaveMakers'
  BY <1>12 DEF Retire, RecordIsLive, Reachable
<1>13. ASSUME NEW c \in Clients, Spawn(c) PROVE FilesHaveMakers'
  BY <1>13 DEF Spawn
<1>14. ASSUME NEW c \in Clients, Replace(c) PROVE FilesHaveMakers'
  <2>1. CASE seen[c] = None
    BY <1>14, <2>1 DEF Replace, Serves
  <2>2. CASE UNCHANGED <<hung, turn>> /\ seen[c] \in Workers
    BY <1>14, <2>2 DEF Replace, Serves
  <2>3. CASE /\ seen[c] \in Workers /\ Alive(seen[c])
             /\ pc' = [pc EXCEPT ![c] = "spawn", ![seen[c]] = "dead"]
             /\ Dies(seen[c])
    BY <1>14, <2>3 DEF Replace
  <2> QED
    BY <1>14, <2>1, <2>2, <2>3 DEF Replace
<1>15. ASSUME NEW c \in Clients,
              PollRecord(c) \/ PollTimesOut(c) \/ Connect(c)
       PROVE  FilesHaveMakers'
  BY <1>15 DEF PollRecord, PollTimesOut, Connect, RecordIsLive
<1>16. ASSUME NEW c \in Clients,
              Submit(c) \/ RunQueued(c) \/ WorkerGone(c) \/ AskHandoff(c)
       PROVE  FilesHaveMakers'
  BY <1>16 DEF Submit, RunQueued, WorkerGone, AskHandoff
<1>17. ASSUME NEW s \in Scripts, EndOwnTurn(s) PROVE FilesHaveMakers'
  BY <1>17 DEF EndOwnTurn
<1>18. CASE OwnerAges \/ HandoffAges \/ UNCHANGED vars
  BY <1>18 DEF OwnerAges, HandoffAges, vars
<1> QED
  BY <1>1, <1>2, <1>3, <1>4, <1>5, <1>6, <1>7, <1>8, <1>9, <1>10, <1>11,
     <1>12, <1>13, <1>14, <1>15, <1>16, <1>17, <1>18
  DEF Next, TakingStep, WorkerStep, AskingStep

\* Every file has a maker that is not over, or was killed.
THEOREM FilesInvariant == Spec => []FilesHaveMakers
<1>1. Init => FilesHaveMakers
  BY DEF Init, FilesHaveMakers
<1> QED
  BY <1>1, MakersKept, RegistryTypes, PTL DEF Spec

\* Processes that are over and were not killed leave no owner file, marker,
\* socket or record behind (worker-shutdown.ts, registry.ts), whoever waited,
\* hung or was replaced in between.
THEOREM ExitIsClean == Spec => []CleanExit
<1>1. TypeOK /\ FilesHaveMakers => CleanExit
  BY RegistryAssumption
  DEF TypeOK, FilesHaveMakers, CleanExit, Holding, Starting, Open, Stopping,
      Over, Runners, Clients, Procs
<1> QED
  BY <1>1, RegistryTypes, FilesInvariant, PTL

\* Who a client finds live by its record listens at the path (client.ts): the
\* one that answers has the conversation, and so has the one whose record it
\* is, and only one has it.
THEOREM FoundListens ==
  ASSUME ~LateReach, ~LongHangs, ~Suspends
  PROVE  Spec => FoundIsListening
<1>1. ASSUME TypeOK, RegistryInv, FilesHaveMakers,
             NEW c \in Clients, NEW w \in Workers \cup {None},
             RecordIsLive(c, w), pc[w] \in Holding \cup Over
      PROVE  socket = w
  <2>1. w \in Runners /\ pc[w] \in Holding
    BY <1>1 DEF RecordIsLive, Alive, Runners
  <2>2. socket \in Runners /\ pc[socket] \in Holding
    BY <1>1 DEF RecordIsLive, Reachable, Holding, TypeOK, Runners
  <2> QED
    BY <1>1, <2>1, <2>2 DEF RegistryInv, HolderIsOwner
<1>2. ASSUME TypeOK, RegistryInv, FilesHaveMakers, [Next]_vars,
             NEW c \in Clients,
             pc[c] \in {"check", "poll"}, pc'[c] \in {"connect", "join"}
      PROVE  \/ RecordIsLive(c, seen[c]) /\ seen' = seen
             \/ PollRecord(c)
  <2> USE <1>2, RegistryAssumption
      DEF Clients, Runners, Procs, TypeOK, Goto, Without, NoneRuns
  <2>1. ASSUME NEW p \in Runners, TakingStep(p) \/ Crash(p) PROVE FALSE
    BY <2>1 DEF At, TakingStep, Take, ReadOwner, Judge, Reach, Wait, Mark,
                LookAgain, SetAside, Unmark, Release, RemoveOwner, Crash,
                Yielded, OverAs
  <2>2. ASSUME NEW w \in Workers,
               \/ WorkerStep(w) \/ Start(w) \/ IdleExit(w) \/ HandOver(w)
               \/ Signal(w) \/ Watchdog(w)
        PROVE  FALSE
    <3>2. CASE EndTurn(w)
      BY <3>2 DEF EndTurn, Serves, At
    <3>3. CASE Start(w) \/ IdleExit(w) \/ HandOver(w) \/ Signal(w) \/ Watchdog(w)
      BY <3>3 DEF Start, IdleExit, HandOver, Signal, Shutdown, Watchdog, Serves,
                  At
    <3>4. CASE \/ Probe(w) \/ ClearPath(w) \/ Listen(w) \/ WriteRecord(w)
               \/ CloseServer(w) \/ Forget(w) \/ RemoveRecord(w)
               \/ HeldStill(w) \/ RemoveSocket(w)
      BY <3>4 DEF Probe, ClearPath, Listen, WriteRecord, CloseServer, Forget,
                  RemoveRecord, HeldStill, RemoveSocket, At
    <3> QED
      BY <2>2, <3>2, <3>3, <3>4 DEF WorkerStep
  <2>3. ASSUME NEW d \in Clients, CheckRecord(d) \/ PollRecord(d)
        PROVE  \/ RecordIsLive(c, seen[c]) /\ seen' = seen
               \/ PollRecord(c)
    BY <2>3 DEF CheckRecord, PollRecord
  <2>4. ASSUME NEW d \in Clients,
               \/ ReadRecord(d) \/ Retire(d) \/ Released(d) \/ Spawn(d)
               \/ PollTimesOut(d)
        PROVE  FALSE
    BY <2>4 DEF ReadRecord, Retire, Released, Spawn, PollTimesOut
  <2>5. ASSUME NEW d \in Clients,
               \/ Connect(d) \/ Replace(d) \/ Submit(d) \/ RunQueued(d)
               \/ WorkerGone(d) \/ Ask(d) \/ AskHandoff(d)
        PROVE  FALSE
    BY <2>5 DEF Connect, Replace, Submit, RunQueued, WorkerGone, Ask,
                AskHandoff
  <2>6. ASSUME NEW s \in Scripts, EndOwnTurn(s) PROVE FALSE
    BY <2>6 DEF EndOwnTurn, At
  <2>7. CASE OwnerAges \/ HandoffAges \/ UNCHANGED vars
    BY <2>7 DEF OwnerAges, HandoffAges, vars
  <2>8. ASSUME NEW p \in Runners, Hang(p) \/ Wake(p) PROVE FALSE
    <3>1. pc' = pc
      BY <2>8 DEF Hang, Wake
    <3> QED
      BY <3>1
  <2> QED
    BY <2>1, <2>2, <2>3, <2>4, <2>5, <2>6, <2>7, <2>8 DEF Next, AskingStep
<1>3. ASSUME TypeOK, RegistryInv, FilesHaveMakers, [Next]_vars,
             NEW c \in Clients,
             pc[c] \in {"check", "poll"}, pc'[c] \in {"connect", "join"}
      PROVE  socket = seen'[c]
  <2>1. CASE RecordIsLive(c, seen[c]) /\ seen' = seen
    BY <1>1, <1>3, <2>1 DEF TypeOK, FilesHaveMakers, RecordIsLive
  <2>2. CASE PollRecord(c)
    <3>1. pc[record] \in Holding \cup Over
      <4>1. record # None
        BY <2>2 DEF PollRecord, RecordIsLive
      <4> QED
        BY <1>3, <4>1
        DEF FilesHaveMakers, Holding, Open, Stopping, Over
    <3>2. socket = record
      BY <1>1, <1>3, <2>2, <3>1 DEF PollRecord, TypeOK
    <3> QED
      BY <1>3, <2>2, <3>2 DEF PollRecord, TypeOK
  <2> QED
    BY <1>2, <1>3, <2>1, <2>2
<1>4. TypeOK /\ RegistryInv /\ FilesHaveMakers /\ [Next]_vars
        => [\A c \in Clients :
              pc[c] \in {"check", "poll"} /\ pc'[c] \in {"connect", "join"}
                => socket = seen'[c]]_vars
  BY <1>3
<1> QED
  BY <1>4, RegistryTypes, RegistryInvariant, FilesInvariant, PTL
  DEF Spec, FoundIsListening

=============================================================================
