--------------------------- MODULE FileLockProofs ---------------------------
(* Proofs about the file lock: its types, mutual exclusion and the order of *)
(* breakers, for any number of processes and rounds.                        *)
EXTENDS FileLock, TLAPS

-----------------------------------------------------------------------------

\* The types of the lock's state, for every instance.
THEOREM LockTypes == Spec => []TypeOK
<1>1. Init => TypeOK
  <2> SUFFICES ASSUME Init PROVE TypeOK
    OBVIOUS
  <2>1. lockAged \in BOOLEAN /\ markerAged \in BOOLEAN
    BY DEF Init
  <2>2. /\ ahead \in [Procs -> SUBSET Procs] /\ found \in [Procs -> SUBSET Procs]
        /\ passed \in [Procs -> SUBSET Procs]
    BY DEF Init
  <2>3. posted \in SUBSET Procs /\ ticketAged \in SUBSET Procs
        /\ overdue \in SUBSET Procs /\ marker \in SUBSET Procs
    BY DEF Init
  <2>4. /\ pc \in [Procs -> {"idle", "dead"} \cup Waiting \cup Holding]
        /\ round \in [Procs -> Nat] /\ lock \in Files \cup {NoFile}
        /\ seen \in [Procs -> Files \cup {NoFile}]
        /\ judged \in [Procs -> Files \cup {NoFile}]
        /\ aside \in [Procs -> Files \cup {NoFile}]
    BY DEF Init
  <2> QED
    BY <2>1, <2>2, <2>3, <2>4 DEF TypeOK
<1>2. TypeOK /\ [Next]_vars => TypeOK'
  <2> SUFFICES ASSUME TypeOK, [Next]_vars PROVE TypeOK'
    OBVIOUS
  <2> USE DEF TypeOK, Goto, Top, Files, Mine, Forget, OutOfLine,
              lockVars, markVars, breakVars, lineVars, Waiting, Judging,
              Turn, Holding, NoLongerFound
  <2>1. ASSUME NEW p \in Procs, Arrive(p) PROVE TypeOK'
    <3>1. \A S \in Earlier : S \subseteq Procs
      BY DEF Earlier, InLine
    <3>2. CASE Fair
      <4>1. PICK S \in Earlier :
              LET waiters == {q \in posted : pc[q] \in Waiting}
              IN /\ ahead' = [q \in Procs |-> IF q = p THEN S
                                 ELSE ahead[q] \cup {x \in {p} : q \in InLine \ S}]
                 /\ found' = [found EXCEPT ![p] = waiters \cap S]
                 /\ passed' = [passed EXCEPT ![p] = waiters \ S]
        BY <2>1, <3>2 DEF Arrive
      <4>2. \A q \in Procs : (IF q = p THEN S ELSE ahead[q] \cup {x \in {p} : q \in InLine \ S})
                               \in SUBSET Procs
        BY <3>1
      <4>3. ahead' \in [Procs -> SUBSET Procs]
        BY <4>1, <4>2
      <4>4. found' \in [Procs -> SUBSET Procs] /\ passed' \in [Procs -> SUBSET Procs]
        BY <4>1
      <4>5. /\ pc' = [pc EXCEPT ![p] = "ticket"] /\ round' = [round EXCEPT ![p] = @ + 1]
            /\ UNCHANGED <<posted, ticketAged, lockVars, markVars, breakVars, overdue>>
        BY <2>1, <3>2 DEF Arrive
      <4> QED
        BY <4>3, <4>4, <4>5
    <3>3. CASE ~Fair
      BY <2>1, <3>3 DEF Arrive
    <3> QED
      BY <3>2, <3>3
  <2>2. ASSUME NEW p \in Procs, PostTicket(p) PROVE TypeOK'
    BY <2>2 DEF PostTicket
  <2>3. ASSUME NEW p \in Procs, CheckLine(p) PROVE TypeOK'
    BY <2>3 DEF CheckLine
  <2>4. ASSUME NEW p \in Procs, Create(p) PROVE TypeOK'
    <3>1. CASE lock = NoFile
      <4>1. lock' \in Files
        BY <2>4, <3>1 DEF Create
      <4>2. lockAged' \in BOOLEAN /\ markerAged' \in BOOLEAN
        BY <2>4, <3>1 DEF Create
      <4>3. found' \in [Procs -> SUBSET Procs] /\ passed' \in [Procs -> SUBSET Procs]
        <5>1. /\ found' = [q \in Procs |-> found[q] \ {p}]
              /\ passed' = [q \in Procs |-> passed[q] \ {p}]
          BY <2>4, <3>1 DEF Create
        <5>2. \A q \in Procs : found[q] \ {p} \in SUBSET Procs /\ passed[q] \ {p} \in SUBSET Procs
          OBVIOUS
        <5> QED
          BY <5>1, <5>2
      <4>4. pc' \in [Procs -> {"idle", "dead"} \cup Waiting \cup Holding]
        BY <2>4, <3>1 DEF Create
      <4>5. UNCHANGED <<round, markVars, breakVars, posted, ahead, ticketAged,
                        overdue>>
        BY <2>4, <3>1 DEF Create
      <4> QED
        BY <4>1, <4>2, <4>3, <4>4, <4>5
    <3>2. CASE lock # NoFile
      BY <2>4, <3>2 DEF Create
    <3> QED
      BY <3>1, <3>2
  <2>5. ASSUME NEW p \in Procs, Read(p) PROVE TypeOK'
    BY <2>5 DEF Read
  <2>6. ASSUME NEW p \in Procs, Judge(p) PROVE TypeOK'
    BY <2>6 DEF Judge
  <2>7. ASSUME NEW p \in Procs, Mark(p) PROVE TypeOK'
    BY <2>7 DEF Mark
  <2>8. ASSUME NEW p \in Procs, Clear(p) PROVE TypeOK'
    BY <2>8 DEF Clear
  <2>9. ASSUME NEW p \in Procs, StatLock(p) \/ Reread(p) \/ StillStale(p)
        PROVE TypeOK'
    BY <2>9 DEF StatLock, Reread, StillStale
  <2>10. ASSUME NEW p \in Procs, Rename(p) PROVE TypeOK'
    BY <2>10 DEF Rename
  <2>11. ASSUME NEW p \in Procs, CheckTaken(p) PROVE TypeOK'
    BY <2>11 DEF CheckTaken
  <2>12. ASSUME NEW p \in Procs, Unmark(p) PROVE TypeOK'
    BY <2>12 DEF Unmark
  <2>13. ASSUME NEW p \in Procs, Leave(p) PROVE TypeOK'
    BY <2>13 DEF Leave
  <2>14. ASSUME NEW p \in Procs, Release(p) \/ Unlink(p) \/ Overstay(p)
         PROVE TypeOK'
    BY <2>14 DEF Release, Unlink, Overstay
  <2>15. ASSUME NEW p \in Procs, Crash(p) PROVE TypeOK'
    BY <2>15 DEF Crash
  <2>16. ASSUME NEW p \in Procs, TicketAges(p) PROVE TypeOK'
    BY <2>16 DEF TicketAges
  <2>17. CASE LockAges \/ MarkerAges
    BY <2>17 DEF LockAges, MarkerAges
  <2>18. CASE UNCHANGED vars
    BY <2>18 DEF vars
  <2> QED
    BY <2>1, <2>2, <2>3, <2>4, <2>5, <2>6, <2>7, <2>8, <2>9, <2>10, <2>11,
       <2>12, <2>13, <2>14, <2>15, <2>16, <2>17, <2>18 DEF Next, Step,
     TimePasses
<1> QED
  BY <1>1, <1>2, PTL DEF Spec

-----------------------------------------------------------------------------

LEMMA InitLockInv == Init => LockInv
BY DEF Init, LockInv, HolderHasLock, MarkerIsTurn, JudgedIsStale, Holds,
       Holding, Turn

LEMMA FileNotEmpty == \A p, r : <<p, r>> # NoFile
BY DEF NoFile

LEMMA LockInvStep ==
  ASSUME ~Overstays, ~BreakersCrash, TypeOK, LockInv, [Next]_vars
  PROVE  LockInv'
<1> USE DEF TypeOK, LockInv, HolderHasLock, MarkerIsTurn, JudgedIsStale,
            Goto, Top, Mine, Owner, Used, Holds, Alive, Forget, OutOfLine,
            lockVars, markVars, breakVars, lineVars, Files, Waiting, Judging,
            Turn, Holding
<1>1. ASSUME NEW p \in Procs, Arrive(p) PROVE LockInv'
  <2>1. /\ round' = [round EXCEPT ![p] = @ + 1] /\ pc[p] = "idle"
        /\ pc' = [pc EXCEPT ![p] = IF Fair THEN "ticket" ELSE "create"]
        /\ UNCHANGED <<lockVars, markVars, breakVars>>
        /\ overdue' = {}
    BY <1>1 DEF Arrive
  <2>2. \A f \in Files : Used(f) => Used(f)'
    BY <2>1
  <2>3. HolderHasLock'
    BY <2>1, <2>2
  <2>4. MarkerIsTurn'
    BY <2>1
  <2>5. JudgedIsStale'
    BY <2>1, <2>2
  <2> QED
    BY <2>3, <2>4, <2>5
<1>2. ASSUME NEW p \in Procs, PostTicket(p) \/ CheckLine(p) \/ Leave(p)
      PROVE LockInv'
  BY <1>2 DEF PostTicket, CheckLine, Leave
<1>3. ASSUME NEW p \in Procs, Create(p) PROVE LockInv'
  <2>1. CASE lock = NoFile
    <3>1. /\ lock' = <<p, round[p]>> /\ ~lockAged'
          /\ pc' = [pc EXCEPT ![p] = "leave"]
          /\ UNCHANGED <<round, markVars, breakVars, overdue>>
      BY <1>3, <2>1 DEF Create
    <3>2. \A q \in Procs : ~Holds(q)
      <4> SUFFICES ASSUME NEW q \in Procs, Holds(q) PROVE FALSE
        OBVIOUS
      <4>1. lock = Mine(q)
        OBVIOUS
      <4> QED
        BY <4>1, <2>1, FileNotEmpty
    <3>3. HolderHasLock'
      BY <3>1, <3>2
    <3>4. MarkerIsTurn'
      BY <3>1, <1>3 DEF Create
    <3>5. JudgedIsStale'
      BY <3>1, <1>3 DEF Create
    <3> QED
      BY <3>3, <3>4, <3>5
  <2>2. CASE lock # NoFile
    BY <1>3, <2>2 DEF Create
  <2> QED
    BY <2>1, <2>2
<1>4. ASSUME NEW p \in Procs, Read(p) PROVE LockInv'
  BY <1>4 DEF Read
<1>5. ASSUME NEW p \in Procs, Judge(p) PROVE LockInv'
  <2>1. CASE LooksStale(p, seen[p])
    <3>1. seen[p] # NoFile /\ (~Alive(Owner(seen[p])) \/ lock # seen[p])
      BY <1>5, <2>1 DEF Judge, LooksStale, CanSeeDead
    <3>2. /\ pc' = [pc EXCEPT ![p] = "mark"]
          /\ UNCHANGED <<round, lockVars, markVars, breakVars, overdue>>
      BY <1>5, <2>1 DEF Judge
    <3>3. HolderHasLock' /\ MarkerIsTurn'
      BY <1>5, <3>2 DEF Judge
    <3>4. JudgedIsStale'
      BY <1>5, <3>1, <3>2 DEF Judge
    <3> QED
      BY <3>3, <3>4
  <2>2. CASE ~LooksStale(p, seen[p])
    BY <1>5, <2>2 DEF Judge
  <2> QED
    BY <2>1, <2>2
<1>6. ASSUME NEW p \in Procs, Mark(p) PROVE LockInv'
  BY <1>6 DEF Mark
<1>7. ASSUME NEW p \in Procs, Clear(p) PROVE LockInv'
  BY <1>7 DEF Clear
<1>8. ASSUME NEW p \in Procs, StatLock(p) PROVE LockInv'
  BY <1>8 DEF StatLock
<1>9. ASSUME NEW p \in Procs, Reread(p) \/ StillStale(p) PROVE LockInv'
  BY <1>9 DEF Reread, StillStale
<1>10. ASSUME NEW p \in Procs, Rename(p) PROVE LockInv'
  BY <1>10 DEF Rename
<1>11. ASSUME NEW p \in Procs, CheckTaken(p) PROVE LockInv'
  <2>1. CASE lock' = lock
    BY <1>11, <2>1 DEF CheckTaken
  <2>2. CASE lock = NoFile /\ lock' = aside[p] /\ lock' # NoFile
    <3>1. Used(lock') /\ ~Alive(Owner(lock'))
      BY <2>2
    <3>2. \A q \in Procs : ~Holds(q)
      <4> SUFFICES ASSUME NEW q \in Procs, Holds(q) PROVE FALSE
        OBVIOUS
      <4>1. lock = Mine(q)
        OBVIOUS
      <4> QED
        BY <4>1, <2>2, FileNotEmpty
    <3>3. HolderHasLock'
      BY <1>11, <2>2, <3>1, <3>2 DEF CheckTaken
    <3>4. MarkerIsTurn'
      BY <1>11 DEF CheckTaken
    <3>5. JudgedIsStale'
      BY <1>11, <2>2, <3>1 DEF CheckTaken
    <3> QED
      BY <3>3, <3>4, <3>5
  <2> QED
    BY <1>11, <2>1, <2>2 DEF CheckTaken
<1>12. ASSUME NEW p \in Procs, Unmark(p) PROVE LockInv'
  BY <1>12 DEF Unmark
<1>13. ASSUME NEW p \in Procs, Release(p) PROVE LockInv'
  BY <1>13 DEF Release
<1>14. ASSUME NEW p \in Procs, Unlink(p) PROVE LockInv'
  <2>1. lock = Mine(p) /\ \A q \in Procs : Holds(q) => q = p
    BY <1>14 DEF Unlink
  <2>2. HolderHasLock'
    BY <1>14, <2>1 DEF Unlink
  <2>3. MarkerIsTurn'
    BY <1>14 DEF Unlink
  <2>4. JudgedIsStale'
    BY <1>14, <2>1 DEF Unlink
  <2> QED
    BY <2>2, <2>3, <2>4
<1>15. ASSUME NEW p \in Procs, Overstay(p) \/ TicketAges(p) PROVE LockInv'
  BY <1>15 DEF Overstay, TicketAges
<1>16. ASSUME NEW p \in Procs, Crash(p) PROVE LockInv'
  BY <1>16 DEF Crash
<1>17. CASE LockAges
  BY <1>17 DEF LockAges, Refreshed
<1>18. CASE MarkerAges
  BY <1>18 DEF MarkerAges
<1>19. CASE UNCHANGED vars
  BY <1>19 DEF vars
<1> QED
  BY <1>1, <1>2, <1>3, <1>4, <1>5, <1>6, <1>7, <1>8, <1>9, <1>10, <1>11,
     <1>12, <1>13, <1>14, <1>15, <1>16, <1>17, <1>18, <1>19 DEF Next, Step,
     TimePasses

\* The invariant behind mutual exclusion holds throughout, as long as holders
\* stay within maxHoldMs and no process dies in its breaking turn.
THEOREM LockInvariant ==
  ASSUME ~Overstays, ~BreakersCrash
  PROVE  Spec => []LockInv
<1>1. TypeOK /\ LockInv /\ [Next]_vars => LockInv'
  BY LockInvStep
<1> QED
  BY <1>1, InitLockInv, LockTypes, PTL DEF Spec

\* Two live processes are never both inside run(), for any number of
\* processes on any hosts, fair or not.
THEOREM LockExcludes ==
  ASSUME ~Overstays, ~BreakersCrash
  PROVE  Spec => []MutualExclusion
<1>1. LockInv => MutualExclusion
  BY DEF LockInv, HolderHasLock, MutualExclusion, Mine
<1> QED
  BY <1>1, LockInvariant, PTL

\* No rename takes a lock its live holder keeps fresh.
THEOREM FreshLockStays ==
  ASSUME ~Overstays, ~BreakersCrash
  PROVE  Spec => FreshLockKept
<1>1. LockInv /\ [Next]_vars
        => [\A p \in Procs : pc[p] = "rename" /\ pc'[p] = "check"
              => ~Refreshed(lock)]_vars
  <2> SUFFICES ASSUME LockInv, NEW p \in Procs, pc[p] = "rename"
               PROVE  ~Refreshed(lock)
    OBVIOUS
  <2>1. lock = seen[p] /\ pc[Owner(lock)] = "dead"
    BY DEF LockInv, JudgedIsStale, Turn, Alive
  <2> QED
    BY <2>1 DEF Refreshed, Owner, Holding
<1> QED
  BY <1>1, LockInvariant, PTL DEF Spec, FreshLockKept

\* A release removes its own file or none.
THEOREM ReleaseOwn ==
  ASSUME ~Overstays, ~BreakersCrash
  PROVE  Spec => OwnLockRemoved
<1>1. LockInv /\ [Next]_vars
        => [\A p \in Procs : pc[p] = "unlink" /\ pc'[p] = "idle"
              => lock \in {Mine(p), NoFile}]_vars
  BY DEF LockInv, HolderHasLock, Holds, Holding
<1> QED
  BY <1>1, LockInvariant, PTL DEF Spec, OwnLockRemoved

\* One process at a time is in its breaking turn.
THEOREM BreakersTakeTurns ==
  ASSUME ~Overstays, ~BreakersCrash
  PROVE  Spec => []OneBreaker
<1>1. LockInv => OneBreaker
  BY DEF LockInv, MarkerIsTurn, OneBreaker
<1> QED
  BY <1>1, LockInvariant, PTL
-----------------------------------------------------------------------------

\* Every behaviour of the lock files is one of the abstract lock: nobody comes
\* in before the last one is out or dead.
THEOREM LockRefinesMutex ==
  ASSUME ~Overstays, ~BreakersCrash
  PROVE  Spec => ImplementsMutex
<1> DEFINE H == {p \in Procs : Holds(p)}
<1>1. Init => Abstract!Init
  BY DEF Init, Abstract!Init, Holds, Holding
<1>2. TypeOK /\ LockInv /\ LockInv' /\ [Next]_vars => [Abstract!Next]_H
  <2> SUFFICES ASSUME TypeOK, LockInv, LockInv', [Next]_vars, H' # H
               PROVE  Abstract!Next
    OBVIOUS
  <2>1. \A p, q \in Procs : Holds(p) /\ Holds(q) => p = q
    BY DEF LockInv, HolderHasLock, Mine
  <2>2. PICK p \in Procs : \/ Create(p) /\ lock = NoFile
                           \/ Release(p) \/ Unlink(p) \/ Crash(p)
    <3> SUFFICES ASSUME \A p \in Procs :
                          /\ Create(p) => lock # NoFile
                          /\ ~(Release(p) \/ Unlink(p) \/ Crash(p))
                 PROVE  H' = H
      OBVIOUS
    <3>1. ASSUME NEW p \in Procs, Step(p) \/ Arrive(p)
          PROVE  \A q \in Procs : Holds(q)' <=> Holds(q)
      BY <3>1 DEF TypeOK, Step, PostTicket, CheckLine, Create, Read, Judge,
         Mark, Clear, StatLock, Reread, StillStale, Rename, CheckTaken, Unmark,
         Leave, Arrive, Goto, Top, Holds, Holding
    <3>2. ASSUME UNCHANGED pc PROVE H' = H
      BY <3>2 DEF Holds
    <3> QED
      BY <3>1, <3>2 DEF Next, TimePasses, Overstay, TicketAges, LockAges,
         MarkerAges, vars
  <2>3. \A q \in Procs : q # p => (Holds(q)' <=> Holds(q))
    BY <2>2 DEF TypeOK, Create, Release, Unlink, Crash, Goto, Holds
  <2>4. CASE Create(p) /\ lock = NoFile
    <3>1. H = {}
      BY <2>4, FileNotEmpty DEF LockInv, HolderHasLock, Mine
    <3>2. Holds(p)'
      BY <2>4 DEF TypeOK, Create, Goto, Holds, Holding
    <3>3. H' = {p}
      BY <2>3, <3>1, <3>2
    <3> QED
      BY <3>1, <3>3 DEF Abstract!Next, Abstract!Acquire
  <2>5. CASE Release(p) \/ Unlink(p) \/ Crash(p)
    <3>1. Holds(p) /\ ~Holds(p)'
      <4>1. \A q \in Procs : q # p => (q \in H' <=> q \in H)
        BY <2>3
      <4>2. (p \in H') # (p \in H)
        BY <4>1
      <4> QED
        BY <2>5, <4>2 DEF TypeOK, Release, Unlink, Crash, Goto, Holds, Holding
    <3>2. H = {p}
      BY <2>1, <3>1
    <3>3. H' = {}
      BY <2>3, <3>1, <3>2
    <3> QED
      BY <3>2, <3>3 DEF Abstract!Next, Abstract!Drop
  <2> QED
    BY <2>2, <2>4, <2>5
<1> QED
  BY <1>1, <1>2, LockTypes, LockInvariant, PTL
     DEF Spec, ImplementsMutex, Abstract!Spec

-----------------------------------------------------------------------------
(* The line of a fair lock.  Neither assumption is needed: what is proved  *)
(* is the order of the tickets, whoever holds the lock and whatever clocks *)
(* named them.                                                             *)

\* Only the dead let their ticket age; who found another alive in line before
\* it has its ticket ahead of its own until it is that one's turn or its death,
\* and until then does not try for the lock.
LineInv ==
  /\ \A q \in ticketAged : ~Alive(q)
  /\ \A p \in Procs : Alive(p) => \A q \in found[p] :
       /\ Fair /\ pc[p] \in Waiting \ {"create"}
       /\ pc[q] \in Waiting /\ q \in posted \cap ahead[p]

\* A ticket ahead is taken out of line by nobody but its owner while that one
\* lives (firstInLine, leaveLine).
LEMMA LineInvStep ==
  ASSUME TypeOK, LineInv, [Next]_vars PROVE LineInv'
<1> USE DEF TypeOK, LineInv, Goto, Top, Alive, Forget, lockVars, markVars,
            breakVars, lineVars, Waiting, Judging, Turn, Holding, NoLongerFound
<1>1. ASSUME NEW p \in Procs, Arrive(p) PROVE LineInv'
  BY <1>1 DEF Arrive
<1>2. ASSUME NEW p \in Procs, PostTicket(p) PROVE LineInv'
  BY <1>2 DEF PostTicket
<1>3. ASSUME NEW p \in Procs, CheckLine(p) PROVE LineInv'
  <2> DEFINE names == ahead[p] \cap posted
             kept == {q \in names : ~TicketStale(p, q)}
             Out == {q \in names \ kept : \A r \in kept : r \notin ahead[q]}
  <2>1. /\ pc[p] = "line" /\ OutOfLine(Out)
        /\ Goto(p, IF kept = {} THEN "create" ELSE "read")
        /\ UNCHANGED found
    BY <1>3 DEF CheckLine
  <2>2. \A q \in Out : ~Alive(q)
    BY DEF TicketStale, CanSeeDead
  <2>3. kept = {} => found[p] = {}
    <3>1. Alive(p)
      BY <1>3 DEF CheckLine
    <3> QED
      BY <3>1 DEF TicketStale, CanSeeDead
  <2>4. \A q \in Procs : Alive(q) => \A r \in found[q] : r \notin Out
    BY <2>2
  <2> HIDE DEF kept, Out
  <2> QED
    BY <2>1, <2>3, <2>4 DEF OutOfLine
<1>4. ASSUME NEW p \in Procs, Create(p) PROVE LineInv'
  BY <1>4 DEF Create
<1>5. ASSUME NEW p \in Procs,
             Read(p) \/ Judge(p) \/ Mark(p) \/ Clear(p) \/ Unmark(p)
      PROVE  LineInv'
  BY <1>5 DEF Read, Judge, Mark, Clear, Unmark
<1>6. ASSUME NEW p \in Procs,
             \/ StatLock(p) \/ Reread(p) \/ StillStale(p) \/ Rename(p)
             \/ CheckTaken(p)
      PROVE  LineInv'
  BY <1>6 DEF StatLock, Reread, StillStale, Rename, CheckTaken
<1>7. ASSUME NEW p \in Procs, Leave(p) PROVE LineInv'
  BY <1>7 DEF Leave
<1>8. ASSUME NEW p \in Procs, Release(p) \/ Unlink(p) \/ Overstay(p)
      PROVE  LineInv'
  BY <1>8 DEF Release, Unlink, Overstay
<1>9. ASSUME NEW p \in Procs, Crash(p) PROVE LineInv'
  <2>1. /\ pc' = [pc EXCEPT ![p] = "dead"]
        /\ found' = [q \in Procs |-> found[q] \ {p}]
        /\ UNCHANGED <<posted, ahead, ticketAged>>
    BY <1>9 DEF Crash
  <2>2. \A q \in Procs : Alive(q)' => q # p /\ Alive(q) /\ pc'[q] = pc[q]
    BY <2>1
  <2>3. \A q \in Procs : \A r \in found'[q] : r \in Procs /\ r # p /\ r \in found[q]
    BY <2>1
  <2>4. \A r \in Procs : r # p => pc'[r] = pc[r]
    BY <2>1
  <2> QED
    BY <2>1, <2>2, <2>3, <2>4
<1>10. ASSUME NEW q \in Procs, TicketAges(q) PROVE LineInv'
  BY <1>10 DEF TicketAges
<1>11. CASE LockAges \/ MarkerAges \/ UNCHANGED vars
  BY <1>11 DEF LockAges, MarkerAges, vars
<1> QED
  BY <1>1, <1>2, <1>3, <1>4, <1>5, <1>6, <1>7, <1>8, <1>9, <1>10, <1>11
  DEF Next, Step, TimePasses

\* The line is kept: who holds a fair lock has nobody alive left of those it
\* found in line with an earlier name, whatever clocks named them and whatever
\* overstayed or died meanwhile.
THEOREM LineIsKept == Spec => []LineOrder
<1>1. Init => LineInv
  BY DEF Init, LineInv
<1>2. TypeOK /\ LineInv /\ [Next]_vars => LineInv'
  BY LineInvStep
<1>3. TypeOK /\ LineInv => LineOrder
  BY DEF TypeOK, LineInv, LineOrder, Holds, Alive, Holding, Waiting, Judging, Turn
<1> QED
  BY <1>1, <1>2, <1>3, LockTypes, PTL DEF Spec

\* Tickets that are named in the order they are drawn (one clock that never goes
\* back, no two in a millisecond: takeTicket) make that the order of arrival.
THEOREM LineIsArrivalOrder ==
  ASSUME SameClock
  PROVE  Spec => []ArrivalOrder
<1> DEFINE NonePassed == \A p \in Procs : passed[p] = {}
<1>1. Init => NonePassed
  BY DEF Init
<1>2. TypeOK /\ NonePassed /\ [Next]_vars => NonePassed'
  <2> SUFFICES ASSUME TypeOK, NonePassed, [Next]_vars PROVE NonePassed'
    OBVIOUS
  <2>1. ASSUME NEW p \in Procs, Arrive(p), Fair PROVE NonePassed'
    <3>1. Earlier = {InLine} /\ {q \in posted : pc[q] \in Waiting} \ InLine = {}
      BY DEF Earlier, InLine
    <3>2. passed' = [passed EXCEPT ![p] = {}]
      BY <2>1, <3>1 DEF Arrive
    <3> QED
      BY <3>2 DEF TypeOK
  <2>2. ASSUME NEW p \in Procs, Create(p) \/ Crash(p) PROVE NonePassed'
    BY <2>2 DEF Create, Crash, NoLongerFound
  <2>3. ASSUME NEW p \in Procs,
               \/ PostTicket(p) \/ CheckLine(p) \/ Read(p) \/ Judge(p)
               \/ Mark(p) \/ Clear(p) \/ StatLock(p) \/ Reread(p) \/ StillStale(p)
               \/ Rename(p) \/ CheckTaken(p) \/ Unmark(p) \/ Leave(p) \/ Unlink(p)
               \/ Release(p) \/ Overstay(p) \/ TicketAges(p) \/ (Arrive(p) /\ ~Fair)
        PROVE  passed' = passed
    BY <2>3 DEF PostTicket, CheckLine, Read, Judge, Mark, Clear, StatLock, Reread,
       StillStale, Rename, CheckTaken, Unmark, Leave, Unlink, Release, Overstay,
       TicketAges, Arrive, lineVars
  <2>4. CASE LockAges \/ MarkerAges \/ UNCHANGED vars
    BY <2>4 DEF LockAges, MarkerAges, vars, lineVars
  <2> QED
    BY <2>1, <2>2, <2>3, <2>4 DEF Next, Step, TimePasses
<1>3. NonePassed /\ LineOrder => ArrivalOrder
  BY DEF LineOrder, ArrivalOrder
<1> QED
  BY <1>1, <1>2, <1>3, LockTypes, LineIsKept, PTL DEF Spec

=============================================================================
