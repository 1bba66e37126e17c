---------------------------- MODULE PromiseProofs ----------------------------
(* That the files do what the state store promises: no message is in a log  *)
(* twice, and writeState, with whatever stale copy it is called, implements *)
(* Store.  For any copies, chats, edits and faults, when history is undone  *)
(* only by a copy that has seen all of it.                                  *)
EXTENDS StateStoreProofs

USE DEF Is

-----------------------------------------------------------------------------
(* The inductive invariant behind NoneTwice.                                 *)

\* The messages of a chat in a log, and wherever a copy has them.
Of(ch, held) ==
  IF Is(ch, held) /\ held[ch].msgs # None THEN Messages(held[ch].msgs) ELSE {}
InLog(ch) == IF Is(ch, log) THEN Messages(log[ch].msgs) ELSE {}
InTail(ch) == IF Is(ch, log) THEN Messages(log[ch].tail) ELSE {}
Storing(c, ch) == At(c, "store") /\ write[c].chat = ch
Now(c, ch) == IF Storing(c, ch) THEN Messages(write[c].now) ELSE {}
Has(c, ch) ==
  Of(ch, copy[c]) \cup Of(ch, base[c]) \cup Now(c, ch) \cup Of(ch, write[c].taken)

\* Those of a copy that no store of it began with: they are in no log.
Unsaid(c, ch) ==
  IF Is(ch, base[c]) THEN (Of(ch, copy[c]) \cup Now(c, ch)) \ Of(ch, base[c])
  ELSE IF Is(ch, write[c].taken) THEN Of(ch, copy[c]) \ Of(ch, write[c].taken)
  ELSE {}

\* A log has no message twice, and no generation that is still to come.
LogWell(ch) ==
  Is(ch, log) =>
    /\ log[ch].gen <= gens[ch]
    /\ Once(log[ch].msgs) /\ Once(log[ch].tail)

\* Messages are numbered as they are made.
Numbered(ch) ==
  /\ InLog(ch) \cup InTail(ch) \subseteq 0..edits
  /\ \A c \in Copies : Has(c, ch) \subseteq 0..edits

\* A torn record is nobody's, and what a copy still has to say is its own.
Apart(ch) ==
  /\ \A n \in InTail(ch) : n \notin InLog(ch) /\ \A c \in Copies : n \notin Has(c, ch)
  /\ \A c \in Copies : \A n \in Unsaid(c, ch) :
       n \notin InLog(ch) /\ \A d \in Copies \ {c} : n \notin Has(d, ch)

\* A chat being stored is locked, so its log stays; and no base is had of the
\* chats a write is to list.
Locked(c, ch) ==
  /\ Storing(c, ch) => chatLock[ch] = c /\ Is(ch, log)
  /\ At(c, "files") /\ ch \in write[c].files => ~Is(ch, base[c])

OnceIn(ch, held) == Is(ch, held) /\ held[ch].msgs # None => Once(held[ch].msgs)
OnceHeld(c, ch) ==
  /\ OnceIn(ch, copy[c]) /\ OnceIn(ch, base[c]) /\ OnceIn(ch, write[c].taken)
  /\ Storing(c, ch) => Once(write[c].now)

\* While what a copy holds is being stored, the copy only goes on from it, and
\* gets nothing back that its base has.
Taking(c, ch, msgs) ==
  /\ msgs # None /\ Extends(copy[c][ch].msgs, msgs)
  /\ Of(ch, copy[c]) \cap Of(ch, base[c]) \subseteq Messages(msgs)
Snap(c, ch) ==
  Loaded(c, ch) =>
    /\ Storing(c, ch) => Taking(c, ch, write[c].now)
    /\ Is(ch, write[c].taken) =>
         \/ Is(ch, base[c]) /\ write[c].taken[ch].msgs = base[c][ch].msgs
         \/ Taking(c, ch, write[c].taken[ch].msgs)

\* A copy that has undone some of what was stored: it is the only one, and
\* until that is stored the log goes on from where it began.
Cut(c, ch) ==
  /\ Is(ch, base[c]) /\ base[c][ch].msgs # None
  /\ \/ Loaded(c, ch) /\ ~Extends(copy[c][ch].msgs, base[c][ch].msgs)
     \/ Storing(c, ch) /\ ~Extends(write[c].now, base[c][ch].msgs)
OneCut == \A c, d \in Copies, ch \in Chats : c # d => ~(Cut(c, ch) /\ Cut(d, ch))
CutStands(c, ch) ==
  Cut(c, ch) /\ Is(ch, log) /\ (Is(ch, index) \/ Storing(c, ch))
    => Extends(log[ch].msgs, base[c][ch].msgs)

OnceInv ==
  /\ \A ch \in Chats : LogWell(ch) /\ Numbered(ch) /\ Apart(ch)
  /\ \A c \in Copies, ch \in Chats :
       Locked(c, ch) /\ OnceHeld(c, ch) /\ Snap(c, ch) /\ CutStands(c, ch)
  /\ OneCut


\* Where a message is, and those that are in no log so far; a step brings
\* neither more than it makes.
Everywhere(ch) == InLog(ch) \cup InTail(ch) \cup UNION {Has(c, ch) : c \in Copies}
Yet(ch) == InTail(ch) \cup UNION {Unsaid(c, ch) : c \in Copies}
New == {n \in Nat : edits < n /\ n <= edits'}
SpreadIn(ch) ==
  /\ Everywhere(ch)' \subseteq Everywhere(ch) \cup New
  /\ Yet(ch)' \subseteq Yet(ch) \cup New
Spreads == \A ch \in Chats : SpreadIn(ch)

-----------------------------------------------------------------------------
(* Types of the parts.                                                       *)

\* What is had is numbers, and histories.
LEMMA HeldIs ==
  ASSUME TypeOK, NEW c \in Copies, NEW ch \in Chats
  PROVE  /\ Is(ch, copy[c]) => copy[c][ch].msgs \in {None} \cup Histories
         /\ Is(ch, base[c]) => base[c][ch].msgs \in {None} \cup Histories
         /\ Is(ch, write[c].taken) => write[c].taken[ch].msgs \in {None} \cup Histories
         /\ write[c].now \in Histories /\ write[c] \in Writes
         /\ Is(ch, log) => /\ log[ch] \in Logs(1..MaxEdits) /\ log[ch].msgs \in Histories
                           /\ log[ch].tail \in Histories /\ log[ch].gen \in Nat \ {0}
         /\ gens[ch] \in Nat /\ edits \in Nat
<1>1. copy[c][ch] \in {None} \cup Held /\ base[c][ch] \in {None} \cup Held
  BY DEF TypeOK
<1>2. write[c] \in Writes
  BY DEF TypeOK
<1>3. write[c].taken[ch] \in {None} \cup Held /\ write[c].now \in Histories
  BY <1>2 DEF Writes
<1>4. Is(ch, log) => log[ch] \in Logs(1..MaxEdits)
  BY DEF TypeOK
<1>5. gens[ch] \in Nat /\ edits \in Nat
  BY DEF TypeOK
<1>6. \A held \in Held : held.msgs \in {None} \cup Histories
  BY DEF Held
<1>7. \A l \in Logs(1..MaxEdits) :
        l.msgs \in Histories /\ l.tail \in Histories /\ l.gen \in Nat \ {0}
  BY DEF Logs, Histories
<1> QED
  BY <1>1, <1>2, <1>3, <1>4, <1>5, <1>6, <1>7

LEMMA HistoryIs ==
  /\ None \notin Histories
  /\ \A s \in Histories : s \in Seq(1..MaxEdits) /\ Messages(s) \subseteq 1..MaxEdits
<1>1. ASSUME NEW s \in Seq(1..MaxEdits) PROVE Messages(s) \subseteq 1..MaxEdits
  <2> DEFINE S == 1..MaxEdits
  <2> HIDE DEF S
  <2>1. \A i \in 1..Len(s) : s[i] \in S
    <3>1. s \in Seq(S)
      BY DEF S
    <3> QED
      BY <3>1
  <2> QED
    BY <2>1 DEF Messages, S
<1> QED
  BY <1>1, StateStoreAssumption DEF Histories

-----------------------------------------------------------------------------
(* At the start.                                                             *)

LEMMA StartsOnce == Init => OnceInv
<1> SUFFICES ASSUME Init PROVE OnceInv
  OBVIOUS
<1>1. \A ch \in Chats : NoChats[ch] = None
  BY DEF NoChats
<1>2. \A c \in Copies : write[c] = Closed /\ copy[c] = NoChats /\ base[c] = NoChats
  BY DEF Init
<1>3. Closed.pc = "closed" /\ Closed.taken = NoChats
  BY DEF Closed, NoWrite
<1>4. Messages(<<>>) = {} /\ Once(<<>>)
  BY DEF Messages, Once
<1>5. \A ch \in Chats : Is(ch, log) =>
        log[ch].msgs = <<>> /\ log[ch].tail = <<>> /\ log[ch].gen = 1 /\ gens[ch] = 1
  BY DEF Init, Rewritten
<1>6. \A ch \in Chats : InLog(ch) = {} /\ InTail(ch) = {}
  BY <1>4, <1>5 DEF InLog, InTail
<1>7. \A c \in Copies, ch \in Chats :
        /\ ~Is(ch, copy[c]) /\ ~Is(ch, base[c]) /\ ~Is(ch, write[c].taken)
        /\ ~Storing(c, ch) /\ ~At(c, "files")
  BY <1>1, <1>2, <1>3 DEF Storing, At
<1>8. \A c \in Copies, ch \in Chats : Has(c, ch) = {} /\ Unsaid(c, ch) = {}
  BY <1>7 DEF Has, Unsaid, Of, Now
<1>9. \A ch \in Chats : LogWell(ch) /\ Numbered(ch) /\ Apart(ch)
  BY <1>4, <1>5, <1>6, <1>8 DEF LogWell, Numbered, Apart
<1> QED
  BY <1>7, <1>9 DEF OnceInv, Locked, OnceHeld, OnceIn, Snap, Loaded, CutStands, OneCut, Cut

-----------------------------------------------------------------------------
(* Steps.                                                                    *)

\* A copy nothing happened to has what it had.
LEMMA SameHas ==
  ASSUME NEW d \in Copies, NEW ch \in Chats,
         copy'[d] = copy[d], base'[d] = base[d], write'[d] = write[d]
  PROVE  Has(d, ch)' = Has(d, ch) /\ Unsaid(d, ch)' = Unsaid(d, ch)
<1>1. /\ Of(ch, copy[d])' = Of(ch, copy[d]) /\ Of(ch, base[d])' = Of(ch, base[d])
      /\ Of(ch, write[d].taken)' = Of(ch, write[d].taken)
  BY DEF Of
<1>2. Now(d, ch)' = Now(d, ch)
  BY DEF Now, Storing, At
<1> QED
  BY <1>1, <1>2 DEF Has, Unsaid

\* A step of c at one chat: what it adds to the log was torn or its own, what
\* it learns was in the log or is new.
LEMMA ApartKeeps ==
  ASSUME TypeOK, edits <= edits', edits' \in Nat, NEW c \in Copies, NEW ch \in Chats,
         Apart(ch), Numbered(ch),
         \A d \in Copies \ {c} : Has(d, ch)' = Has(d, ch) /\ Unsaid(d, ch)' = Unsaid(d, ch),
         NEW X \in SUBSET Has(c, ch), NEW E,
         \A n \in E : n \in Nat /\ edits < n /\ n <= edits',
         InLog(ch)' \subseteq InLog(ch) \cup InTail(ch) \cup X,
         InTail(ch)' \subseteq InTail(ch), InLog(ch)' \cap InTail(ch)' = {},
         Has(c, ch)' \subseteq Has(c, ch) \cup InLog(ch) \cup E,
         Unsaid(c, ch)' \subseteq (Unsaid(c, ch) \ X) \cup E
  PROVE  Apart(ch)' /\ Numbered(ch)' /\ SpreadIn(ch)
<1>0. edits \in Nat
  BY DEF TypeOK
<1>1. \A n \in 0..edits : n \in 0..edits' /\ n \notin E
  BY <1>0
<1>2. \A n \in E : n \in 0..edits'
  BY <1>0
<1>3. InLog(ch) \cup InTail(ch) \subseteq 0..edits /\ \A d \in Copies : Has(d, ch) \subseteq 0..edits
  BY DEF Numbered
<1>4. \A d \in Copies : Has(d, ch)' \subseteq Has(d, ch) \cup InLog(ch) \cup E
  OBVIOUS
<1>5. Numbered(ch)'
  <2>1. InLog(ch)' \cup InTail(ch)' \subseteq 0..edits'
    BY <1>1, <1>3
  <2>2. \A d \in Copies : Has(d, ch)' \subseteq 0..edits'
    BY <1>1, <1>2, <1>3, <1>4
  <2> QED
    BY <2>1, <2>2 DEF Numbered
<1>6. \A d \in Copies : Unsaid(d, ch) \subseteq Has(d, ch)
  BY DEF Unsaid, Has
<1>7. ASSUME NEW n \in InTail(ch)', NEW d \in Copies
      PROVE  n \notin InLog(ch)' /\ n \notin Has(d, ch)'
  <2>1. n \in InTail(ch) /\ n \notin InLog(ch) /\ n \notin Has(d, ch) /\ n \notin E
    BY <1>1, <1>3, <1>7 DEF Apart
  <2> QED
    BY <1>4, <1>7, <2>1
<1>8. ASSUME NEW d \in Copies, NEW n \in Unsaid(d, ch)', NEW e \in Copies \ {d}
      PROVE  n \notin InLog(ch)' /\ n \notin Has(e, ch)'
  <2>1. CASE n \in E
    <3>1. d = c
      <4>1. CASE d # c
        <5>1. n \in Has(d, ch)
          BY <1>6, <1>8, <4>1
        <5> QED
          BY <1>1, <1>3, <2>1, <5>1
      <4> QED
        BY <4>1
    <3>2. n \notin InLog(ch) /\ n \notin InTail(ch) /\ \A x \in Copies : n \notin Has(x, ch)
      BY <1>1, <1>3, <2>1
    <3> QED
      BY <3>1, <3>2
  <2>2. CASE n \notin E
    <3>1. n \in Unsaid(d, ch) /\ (d = c => n \notin X)
      BY <1>8, <2>2
    <3>2. /\ n \in Has(d, ch) /\ n \notin InLog(ch)
          /\ \A x \in Copies \ {d} : n \notin Has(x, ch)
      BY <1>6, <3>1 DEF Apart
    <3>3. n \notin InTail(ch)
      BY <3>2 DEF Apart
    <3>4. n \notin X
      BY <3>1, <3>2
    <3>5. n \notin InLog(ch)'
      BY <3>2, <3>3, <3>4
    <3>6. n \notin Has(e, ch)'
      BY <1>4, <1>8, <2>2, <3>2
    <3> QED
      BY <3>5, <3>6
  <2> QED
    BY <2>1, <2>2
<1>9. ASSUME NEW n \in InTail(ch)' PROVE n \notin InLog(ch)'
  BY <1>9
<1>10. ASSUME NEW d \in Copies, NEW n \in Unsaid(d, ch)' PROVE n \notin InLog(ch)'
  <2>1. CASE n \in E /\ d = c
    BY <1>1, <1>3, <2>1
  <2>2. CASE n \in E /\ d # c
    BY <1>1, <1>3, <1>6, <2>2, <1>10
  <2>3. CASE n \notin E
    <3>1. n \in Unsaid(d, ch) /\ (d = c => n \notin X)
      BY <1>10, <2>3
    <3> QED
      BY <1>6, <3>1 DEF Apart
  <2> QED
    BY <2>1, <2>2, <2>3
<1>11. Apart(ch)'
  BY <1>7, <1>8, <1>9, <1>10 DEF Apart
<1>12. E \subseteq New
  BY DEF New
<1>13. Everywhere(ch)' \subseteq Everywhere(ch) \cup New
  <2>1. \A d \in Copies : Has(d, ch)' \subseteq Everywhere(ch) \cup New
    BY <1>4, <1>12 DEF Everywhere
  <2>2. InLog(ch)' \cup InTail(ch)' \subseteq Everywhere(ch)
    BY DEF Everywhere
  <2> QED
    BY <2>1, <2>2 DEF Everywhere
<1>14. Yet(ch)' \subseteq Yet(ch) \cup New
  <2>1. \A d \in Copies : Unsaid(d, ch)' \subseteq Yet(ch) \cup New
    BY <1>12 DEF Yet
  <2>2. InTail(ch)' \subseteq Yet(ch)
    BY DEF Yet
  <2> QED
    BY <2>1, <2>2 DEF Yet
<1> QED
  BY <1>5, <1>11, <1>13, <1>14 DEF SpreadIn

\* So it is enough to look at the copy that made the step, and at what the
\* others have undone.
LEMMA OneStep ==
  ASSUME TypeOK, OnceInv, NEW c \in Copies,
         \A d \in Copies \ {c} :
           copy'[d] = copy[d] /\ base'[d] = base[d] /\ write'[d] = write[d],
         \A ch \in Chats : LogWell(ch)' /\ Numbered(ch)' /\ Apart(ch)' /\ SpreadIn(ch),
         \A ch \in Chats : Locked(c, ch)' /\ OnceHeld(c, ch)' /\ Snap(c, ch)' /\ CutStands(c, ch)',
         \A d \in Copies \ {c}, ch \in Chats :
           /\ chatLock[ch] = d => chatLock'[ch] = d /\ (Is(ch, log) => Is(ch, log)')
           /\ Cut(c, ch)' => ~Cut(d, ch)
           /\ Cut(d, ch) => CutStands(d, ch)'
  PROVE  OnceInv' /\ Spreads
<1>1. ASSUME NEW d \in Copies \ {c}, NEW ch \in Chats
      PROVE  /\ Locked(d, ch)' /\ OnceHeld(d, ch)' /\ Snap(d, ch)' /\ CutStands(d, ch)'
             /\ Cut(d, ch)' <=> Cut(d, ch)
  <2>0. Locked(d, ch) /\ OnceHeld(d, ch) /\ Snap(d, ch)
    BY DEF OnceInv
  <2>1. Storing(d, ch)' <=> Storing(d, ch)
    BY DEF Storing, At
  <2>2. Cut(d, ch)' <=> Cut(d, ch)
    BY <2>1 DEF Cut, Loaded
  <2>3. Locked(d, ch)'
    BY <2>0, <2>1 DEF Locked, At
  <2>4. OnceHeld(d, ch)' /\ Snap(d, ch)'
    BY <2>0, <2>1 DEF OnceHeld, OnceIn, Snap, Taking, Loaded, Of
  <2>5. CutStands(d, ch)'
    BY <2>2 DEF CutStands
  <2> QED
    BY <2>2, <2>3, <2>4, <2>5
<1>2. OneCut'
  BY <1>1 DEF OnceInv, OneCut
<1> QED
  BY <1>1, <1>2 DEF OnceInv, Spreads

\* The logs stay, and nobody has undone any of what is listed anew: it is enough
\* that what the copy has was had, or is in the log, and that it undoes nothing
\* more.
LEMMA QuietKeeps ==
  ASSUME TypeOK, OnceInv, NEW c \in Copies,
         UNCHANGED <<log, gens, edits>>,
         \A ch \in Chats : Is(ch, index)' =>
           Is(ch, index) \/ \A d \in Copies : ~Cut(d, ch),
         \A d \in Copies \ {c} :
           copy'[d] = copy[d] /\ base'[d] = base[d] /\ write'[d] = write[d],
         \A d \in Copies \ {c}, ch \in Chats : chatLock[ch] = d => chatLock'[ch] = d,
         \A ch \in Chats :
           /\ Has(c, ch)' \subseteq Has(c, ch) \cup InLog(ch)
           /\ Unsaid(c, ch)' \subseteq Unsaid(c, ch)
           /\ Locked(c, ch)' /\ OnceHeld(c, ch)' /\ Snap(c, ch)'
           /\ Cut(c, ch)' => /\ Cut(c, ch) /\ base'[c][ch].msgs = base[c][ch].msgs
                             /\ Storing(c, ch)' => Storing(c, ch) \/ Is(ch, index)
  PROVE  OnceInv' /\ Spreads
<1>0. edits <= edits' /\ edits' \in Nat
  BY DEF TypeOK
<1>1. ASSUME NEW ch \in Chats
      PROVE  LogWell(ch)' /\ Numbered(ch)' /\ Apart(ch)' /\ SpreadIn(ch) /\ CutStands(c, ch)'
  <2>0. LogWell(ch) /\ Numbered(ch) /\ Apart(ch) /\ CutStands(c, ch)
    BY DEF OnceInv
  <2>1. /\ InLog(ch)' = InLog(ch) /\ InTail(ch)' = InTail(ch)
        /\ InLog(ch) \cap InTail(ch) = {}
    BY <2>0 DEF InLog, InTail, Apart
  <2>2. \A d \in Copies \ {c} : Has(d, ch)' = Has(d, ch) /\ Unsaid(d, ch)' = Unsaid(d, ch)
    BY SameHas
  <2> DEFINE X == {}
             E == {}
  <2>3. /\ X \in SUBSET Has(c, ch)
        /\ \A n \in E : n \in Nat /\ edits < n /\ n <= edits'
        /\ InLog(ch)' \subseteq InLog(ch) \cup InTail(ch) \cup X
        /\ InTail(ch)' \subseteq InTail(ch) /\ InLog(ch)' \cap InTail(ch)' = {}
        /\ Has(c, ch)' \subseteq Has(c, ch) \cup InLog(ch) \cup E
        /\ Unsaid(c, ch)' \subseteq (Unsaid(c, ch) \ X) \cup E
    BY <2>1
  <2> HIDE DEF X, E
  <2>4. Apart(ch)' /\ Numbered(ch)' /\ SpreadIn(ch)
    BY <1>0, <2>0, <2>2, <2>3, ApartKeeps
  <2>5. LogWell(ch)'
    BY <2>0 DEF LogWell
  <2>6. CutStands(c, ch)'
    BY <2>0 DEF CutStands
  <2> QED
    BY <2>4, <2>5, <2>6
<1>2. ASSUME NEW d \in Copies \ {c}, NEW ch \in Chats
      PROVE  /\ Cut(c, ch)' => ~Cut(d, ch)
             /\ Cut(d, ch) => CutStands(d, ch)'
  <2>1. CutStands(d, ch) /\ ~(Cut(c, ch) /\ Cut(d, ch))
    BY DEF OnceInv, OneCut
  <2>2. Storing(d, ch)' <=> Storing(d, ch)
    BY DEF Storing, At
  <2>3. Cut(d, ch) /\ Is(ch, index)' => Is(ch, index)
    OBVIOUS
  <2>4. Cut(d, ch) => CutStands(d, ch)'
    BY <2>1, <2>2, <2>3 DEF CutStands
  <2> QED
    BY <2>1, <2>4
<1> QED
  BY <1>1, <1>2, OneStep

\* A step that only moves a write on, and has nothing taken, or takes what the
\* copy has of a chat to store it.
LEMMA GotoOnce ==
  ASSUME TypeOK, StoreInv, OnceInv, NEW c \in Copies, NEW w \in Writes, Goto(c, w),
         UNCHANGED <<disk, copy, base, edits>>, \A ch \in Chats : ~Is(ch, w.taken),
         \A d \in Copies \ {c}, ch \in Chats : chatLock[ch] = d => chatLock'[ch] = d,
         w.pc # "files",
         w.pc = "store" =>
           /\ w.chat \in Chats /\ Changed(c, w.chat) /\ w.now = copy[c][w.chat].msgs
           /\ chatLock'[w.chat] = c /\ Is(w.chat, index)
  PROVE  OnceInv' /\ Spreads
<1>0. write'[c] = w /\ \A d \in Copies \ {c} : write'[d] = write[d]
  BY DEF TypeOK, Goto
<1>1. ASSUME NEW ch \in Chats
      PROVE  /\ Has(c, ch)' \subseteq Has(c, ch) \cup InLog(ch)
             /\ Unsaid(c, ch)' \subseteq Unsaid(c, ch)
             /\ Locked(c, ch)' /\ OnceHeld(c, ch)' /\ Snap(c, ch)'
             /\ Cut(c, ch)' => /\ Cut(c, ch) /\ base'[c][ch].msgs = base[c][ch].msgs
                               /\ Storing(c, ch)' => Storing(c, ch) \/ Is(ch, index)
  <2>0. OnceHeld(c, ch) /\ Snap(c, ch)
    BY DEF OnceInv
  <2>1. /\ Storing(c, ch)' => /\ w.chat = ch /\ w.now = copy[c][ch].msgs
                              /\ chatLock'[ch] = c /\ Is(ch, index) /\ Is(ch, log)
                              /\ Loaded(c, ch) /\ Is(ch, base[c])
                              /\ copy[c][ch].msgs \in Histories /\ base[c][ch].msgs \in Histories
    BY <1>0, ChangedHasBoth, HistoryIs DEF Storing, At, Loaded, StoreInv, FilesFirst, ListedIsReadable
  <2>2. Now(c, ch)' \subseteq Of(ch, copy[c])
    BY <1>0, <2>1 DEF Now, Of, Loaded
  <2>3. /\ Of(ch, copy[c])' = Of(ch, copy[c]) /\ Of(ch, base[c])' = Of(ch, base[c])
        /\ ~Is(ch, write'[c].taken) /\ Of(ch, write[c].taken)' = {}
    BY <1>0 DEF Of
  <2>4. Has(c, ch)' \subseteq Has(c, ch)
    BY <2>2, <2>3 DEF Has
  <2>5. Unsaid(c, ch)' \subseteq Unsaid(c, ch)
    BY <2>2, <2>3 DEF Unsaid
  <2>6. Locked(c, ch)'
    BY <1>0, <2>1 DEF Locked, At, disk
  <2>7. OnceHeld(c, ch)'
    BY <1>0, <2>0, <2>1, <2>3 DEF OnceHeld, OnceIn, Loaded
  <2>8. ASSUME Storing(c, ch)' PROVE Extends(copy[c][ch].msgs, copy[c][ch].msgs)
    BY <2>1, <2>8, HistoryIs, ExtendsMore
  <2>9. Snap(c, ch)'
    <3>1. Loaded(c, ch)' /\ Storing(c, ch)' => Taking(c, ch, write[c].now)'
      BY <1>0, <2>1, <2>8 DEF Taking, Of, Loaded
    <3> QED
      BY <2>3, <3>1 DEF Snap
  <2>10. Cut(c, ch)' => Cut(c, ch)
    BY <1>0, <2>1 DEF Cut, Loaded
  <2> QED
    BY <2>1, <2>4, <2>5, <2>6, <2>7, <2>9, <2>10
<1> QED
  BY <1>0, <1>1, QuietKeeps DEF disk

LEMMA ReadIndexOnce ==
  ASSUME Inv, OnceInv, NEW c \in Copies, ReadIndex(c)
  PROVE  OnceInv' /\ Spreads
<1> DEFINE w == [NoWrite EXCEPT !.pc = "opening", !.next = index]
<1>1. w \in Writes /\ w.pc = "opening" /\ w.taken = NoChats
  <2>1. NoWrite.taken = NoChats
    BY DEF NoWrite
  <2> QED
    BY <2>1, NoWriteIs DEF Inv, TypeOK, Writes
<1>2. Goto(c, w) /\ UNCHANGED <<disk, copy, base, edits>> /\ chatLock' = chatLock
  BY DEF ReadIndex, locks
<1>3. \A ch \in Chats : ~Is(ch, w.taken)
  BY <1>1 DEF NoChats
<1> HIDE DEF w
<1> QED
  BY <1>1, <1>2, <1>3, GotoOnce DEF Inv

LEMMA TakeChatOnce ==
  ASSUME Inv, OnceInv, NEW c \in Copies, NEW ch \in Chats, NEW w \in Writes,
         NEW back \in {"idle", "own", "later"}, Changed(c, ch), Is(ch, index),
         TakeChat(c, ch, w, back), w.taken = write[c].taken,
         write[c].pc \in {"idle", "own", "later"}
  PROVE  OnceInv' /\ Spreads
<1> DEFINE v == [w EXCEPT !.pc = "store", !.chat = ch, !.now = copy[c][ch].msgs,
                          !.back = back]
<1>1. copy[c][ch].msgs \in Histories
  BY ChangedHasBoth DEF Inv
<1>2. /\ v \in Writes /\ v.pc = "store" /\ v.taken = write[c].taken
      /\ v.chat = ch /\ v.now = copy[c][ch].msgs
  BY <1>1 DEF Writes
<1>3. /\ Goto(c, v) /\ UNCHANGED <<disk, copy, base, edits>>
      /\ chatLock[ch] = None /\ chatLock' = [chatLock EXCEPT ![ch] = c]
  BY DEF TakeChat
<1>4. \A x \in Chats : ~Is(x, v.taken)
  BY <1>2 DEF Inv, OwedInv, LetGoOf
<1>5. /\ chatLock'[ch] = c
      /\ \A d \in Copies \ {c}, x \in Chats : chatLock[x] = d => chatLock'[x] = d
  BY <1>3, StateStoreAssumption DEF Inv, TypeOK
<1> HIDE DEF v
<1> QED
  BY <1>2, <1>3, <1>4, <1>5, GotoOnce DEF Inv

LEMMA CheckpointOnce ==
  ASSUME Inv, OnceInv, NEW c \in Copies, NEW ch \in Chats, Checkpoint(c, ch)
  PROVE  OnceInv' /\ Spreads
<1>1. /\ write[c] \in Writes /\ write[c].pc = "idle" /\ Changed(c, ch)
      /\ TakeChat(c, ch, write[c], "idle") /\ Is(ch, index)
  BY DEF Inv, TypeOK, Checkpoint, At
<1> QED
  BY <1>1, TakeChatOnce

LEMMA BeginOnce ==
  ASSUME Inv, OnceInv, NEW c \in Copies, Begin(c)
  PROVE  OnceInv' /\ Spreads
<1> DEFINE w == [NoWrite EXCEPT !.pc = "own",
                   !.todo = {ch \in Chats : Known(c, ch) /\ Loaded(c, ch)}]
<1>1. w \in Writes /\ w.pc = "own" /\ w.taken = NoChats
  <2>1. NoWrite.taken = NoChats
    BY DEF NoWrite
  <2> QED
    BY <2>1, NoWriteIs DEF Writes
<1>2. Goto(c, w) /\ UNCHANGED <<disk, copy, base, edits>> /\ chatLock' = chatLock
  BY DEF Begin, locks
<1>3. \A ch \in Chats : ~Is(ch, w.taken)
  BY <1>1 DEF NoChats
<1> HIDE DEF w
<1> QED
  BY <1>1, <1>2, <1>3, GotoOnce DEF Inv

LEMMA OwnNextOnce ==
  ASSUME Inv, OnceInv, NEW c \in Copies, OwnNext(c)
  PROVE  OnceInv' /\ Spreads
<1>1. PICK ch \in write[c].todo :
        LET w == [write[c] EXCEPT !.todo = @ \ {ch}]
        IN  IF Changed(c, ch) /\ Is(ch, index)
            THEN TakeChat(c, ch, w, "own")
            ELSE /\ Goto(c, IF Known(c, ch) /\ ~Changed(c, ch)
                              THEN [w EXCEPT !.own = @ \cup {ch}] ELSE w)
                 /\ UNCHANGED <<disk, locks, copy, base, edits, bounds, history>>
  BY DEF OwnNext
<1> DEFINE w == [write[c] EXCEPT !.todo = @ \ {ch}]
           v == IF Known(c, ch) /\ ~Changed(c, ch)
                  THEN [w EXCEPT !.own = @ \cup {ch}] ELSE w
<1>2. write[c] \in Writes /\ write[c].pc = "own"
  BY DEF Inv, TypeOK, OwnNext, At
<1>3. ch \in Chats
  BY <1>2 DEF Writes
<1>4. w \in Writes /\ w.pc = "own" /\ w.taken = write[c].taken
  BY <1>2 DEF Writes
<1>5. v \in Writes /\ v.pc = "own" /\ v.taken = write[c].taken
  <2> HIDE DEF w
  <2> QED
    BY <1>3, <1>4 DEF Writes
<1>6. CASE Changed(c, ch) /\ Is(ch, index)
  <2>1. TakeChat(c, ch, w, "own")
    BY <1>1, <1>6
  <2> HIDE DEF w
  <2> QED
    BY <1>2, <1>3, <1>4, <1>6, <2>1, TakeChatOnce
<1>7. CASE ~(Changed(c, ch) /\ Is(ch, index))
  <2>1. Goto(c, v) /\ UNCHANGED <<disk, copy, base, edits>> /\ chatLock' = chatLock
    BY <1>1, <1>7 DEF locks
  <2>2. \A x \in Chats : ~Is(x, v.taken)
    BY <1>2, <1>5 DEF Inv, OwedInv, LetGoOf
  <2> HIDE DEF v
  <2> QED
    BY <1>2, <1>5, <2>1, <2>2, GotoOnce DEF Inv
<1> QED
  BY <1>6, <1>7

LEMMA EndOnce ==
  ASSUME Inv, OnceInv, NEW c \in Copies, End(c)
  PROVE  OnceInv' /\ Spreads
<1>1. Goto(c, NoWrite) /\ UNCHANGED <<disk, copy, base, edits>> /\ chatLock' = chatLock
  BY DEF End, locks
<1> QED
  BY <1>1, NoWriteIs, NoWriteTook, GotoOnce DEF Inv

LEMMA FailOnce ==
  ASSUME Inv, OnceInv, NEW c \in Copies, Fail(c)
  PROVE  OnceInv' /\ Spreads
<1>1. Goto(c, NoWrite) /\ UNCHANGED <<disk, copy, base, edits>> /\ LetGo(c)
  BY DEF Fail
<1>2. \A d \in Copies \ {c}, ch \in Chats : chatLock[ch] = d => chatLock'[ch] = d
  BY <1>1 DEF LetGo
<1> QED
  BY <1>1, <1>2, NoWriteIs, NoWriteTook, GotoOnce DEF Inv

\* What a step stores leaves the log well, when what it adds is not there but
\* for what both began with.
LEMMA OutOnce ==
  ASSUME TypeOK, NEW ch \in Chats, NEW b, b.msgs \in Histories, b.at \in Spots,
         NEW next \in Histories, Put(ch, Out(ch, b, next)), LogWell(ch), Once(next),
         InLog(ch) \cap InTail(ch) = {}, InTail(ch) \cap Messages(next) = {},
         InLog(ch) \cap Messages(next) \subseteq Messages(b.msgs)
  PROVE  /\ Is(ch, log)' /\ LogWell(ch)'
         /\ InLog(ch)' \subseteq InLog(ch) \cup InTail(ch) \cup Messages(next)
         /\ InTail(ch)' \subseteq InTail(ch) /\ InLog(ch)' \cap InTail(ch)' = {}
         /\ Is(ch, log) /\ Extends(next, b.msgs) => Extends(log'[ch].msgs, log[ch].msgs)
         /\ \A x \in Chats \ {ch} : log'[x] = log[x] /\ gens'[x] = gens[x]
<1> DEFINE out == Out(ch, b, next)
           S == 1..MaxEdits
           gen == NextGen(ch)
<1>0. gens[ch] \in Nat /\ gen \in Nat \ {0} /\ gens[ch] <= gen
  BY DEF TypeOK, NextGen
<1>1. out.log \in Logs(S) /\ out.log # None
  BY OutIsLog, StateStoreAssumption
<1>2. log'[ch] = out.log /\ \A x \in Chats \ {ch} : log'[x] = log[x] /\ gens'[x] = gens[x]
  BY DEF Put, TypeOK
<1>3. gens'[ch] = (IF gens[ch] < out.log.gen THEN out.log.gen ELSE gens[ch])
  BY DEF Put, TypeOK
<1>4. out.log.gen \in Nat
  BY <1>1 DEF Logs
<1> HIDE DEF gen
<1>5. out.log.gen <= gens'[ch] /\ gens[ch] <= gens'[ch]
  BY <1>0, <1>3, <1>4
<1>6. next \in Seq(S) /\ b.msgs \in Seq(S)
  BY DEF Histories
<1>7. CASE ~Is(ch, log)
  <2>1. out.log = Rewritten(gen, next)
    BY <1>7 DEF Out, FirstStored, gen
  <2>2. out.log.msgs = next /\ out.log.tail = <<>>
    BY <2>1 DEF Rewritten
  <2>3. Messages(<<>>) = {} /\ Once(<<>>)
    BY DEF Messages, Once
  <2> HIDE DEF out
  <2> QED
    BY <1>1, <1>2, <1>5, <1>7, <2>2, <2>3 DEF LogWell, InLog, InTail
<1>8. CASE Is(ch, log)
  <2> DEFINE l == log[ch]
  <2>1. l \in Logs(S) /\ Once(l.msgs) /\ Once(l.tail)
    BY <1>8 DEF TypeOK, LogWell
  <2>2. Messages(l.msgs) = InLog(ch) /\ Messages(l.tail) = InTail(ch)
    BY <1>8 DEF InLog, InTail
  <2>3. out.log = StoreTranscript(l, b, next, gen).log
    BY <1>8 DEF Out, gen
  <2> HIDE DEF l, out, S
  <2>4. StoredAs(S, l, b.msgs, next, gen, out.log)
    BY <1>0, <1>6, <2>1, <2>2, <2>3, StoreIs
  <2>5. CASE \E add \in Seq(S) :
               /\ out.log = Appended(l, add) /\ Once(add)
               /\ Messages(add) \cap Messages(l.msgs) = {}
               /\ Messages(add) \subseteq Messages(next)
    <3>1. PICK add \in Seq(S) :
            /\ out.log = Appended(l, add) /\ Once(add)
            /\ Messages(add) \cap Messages(l.msgs) = {}
            /\ Messages(add) \subseteq Messages(next)
      BY <2>5
    <3>2. Messages(l.msgs) \cap Messages(l.tail) = {} /\ Messages(l.tail) \cap Messages(add) = {}
      BY <2>2, <3>1
    <3>3. /\ Extends(out.log.msgs, l.msgs) /\ Once(out.log.msgs)
          /\ add = <<>> => out.log = l
          /\ add # <<>> => /\ out.log.tail = <<>>
                           /\ Messages(out.log.msgs)
                                = Messages(l.msgs) \cup Messages(l.tail) \cup Messages(add)
      BY <2>1, <3>1, <3>2, AppendedIs
    <3>4. Messages(<<>>) = {} /\ Once(<<>>)
      BY DEF Messages, Once
    <3>5. Once(out.log.tail) /\ Messages(out.log.tail) \subseteq Messages(l.tail)
      BY <2>1, <3>3, <3>4
    <3>6. /\ Messages(out.log.msgs) \subseteq Messages(l.msgs) \cup Messages(l.tail) \cup Messages(next)
          /\ Messages(out.log.msgs) \cap Messages(out.log.tail) = {}
      BY <3>1, <3>2, <3>3, <3>4
    <3> QED
      BY <1>1, <1>2, <1>5, <2>2, <3>3, <3>5, <3>6 DEF LogWell, InLog, InTail, l
  <2>6. CASE \E all \in Seq(S) :
               /\ out.log = Rewritten(gen, all) /\ Once(all)
               /\ Messages(all) \subseteq Messages(l.msgs) \cup Messages(next)
               /\ ~Extends(next, b.msgs)
    <3>1. PICK all \in Seq(S) :
               /\ out.log = Rewritten(gen, all) /\ Once(all)
               /\ Messages(all) \subseteq Messages(l.msgs) \cup Messages(next)
               /\ ~Extends(next, b.msgs)
      BY <2>6
    <3>2. out.log.msgs = all /\ out.log.tail = <<>>
      BY <3>1 DEF Rewritten
    <3>3. Messages(<<>>) = {} /\ Once(<<>>)
      BY DEF Messages, Once
    <3> QED
      BY <1>1, <1>2, <1>5, <2>2, <3>1, <3>2, <3>3 DEF LogWell, InLog, InTail
  <2> QED
    BY <2>4, <2>5, <2>6 DEF StoredAs
<1> QED
  BY <1>2, <1>7, <1>8

\* The transcript is stored, and the base moves to it.
LEMMA StoredOnce ==
  ASSUME Inv, OnceInv, NEW c \in Copies, NEW ch \in Chats, NEW msgs \in Histories,
         NEW w \in Writes, w.pc \in {"idle", "own", "later"}, w.taken = write[c].taken,
         write[c].pc \in {"store", "later"},
         Is(ch, base[c]), base[c][ch].msgs \in Histories,
         Put(ch, Out(ch, base[c][ch], msgs)),
         Moved(c, ch, msgs, Out(ch, base[c][ch], msgs).at),
         Goto(c, w), UNCHANGED <<index, copy, edits>>,
         \A d \in Copies \ {c}, x \in Chats : chatLock[x] = d => chatLock'[x] = d,
         \/ Storing(c, ch) /\ msgs = write[c].now
         \/ /\ Loaded(c, ch) /\ msgs = copy[c][ch].msgs /\ ~Is(ch, index)
            /\ chatLock[ch] = None
  PROVE  OnceInv' /\ Spreads
<1> DEFINE b == base[c][ch]
           X == Messages(msgs)
<1>0. TypeOK /\ b \in Held /\ b.at \in Spots /\ b.msgs \in Histories /\ None \notin Histories
  BY HistoryIs DEF Inv, TypeOK, Held
<1>1. write'[c] = w /\ \A d \in Copies \ {c} : write'[d] = write[d]
  BY <1>0 DEF TypeOK, Goto
<1>2. Out(ch, b, msgs).at \in Spots
  BY <1>0, OutIsLog
<1>3. /\ base'[c][ch] \in Held /\ base'[c][ch] # None /\ base'[c][ch].msgs = msgs
      /\ \A d \in Copies, x \in Chats : d # c \/ x # ch => base'[d][x] = base[d][x]
  BY <1>0, <1>2, MovedIs, StateStoreAssumption DEF TypeOK
<1>4. \A d \in Copies \ {c} : copy'[d] = copy[d] /\ base'[d] = base[d]
  BY DEF Moved, Inv, TypeOK
<1>5. LogWell(ch) /\ Numbered(ch) /\ Apart(ch) /\ Locked(c, ch) /\ OnceHeld(c, ch) /\ Snap(c, ch)
  BY DEF OnceInv
<1>6. \A x \in Chats : ~Is(x, write[c].taken) /\ ~Is(x, w.taken)
  BY DEF Inv, OwedInv, LetGoOf
<1>7. \A x \in Chats : ~Storing(c, x)' /\ ~At(c, "files")'
  BY <1>1 DEF Storing, At
<1>8. /\ Once(msgs) /\ X \subseteq Has(c, ch)
      /\ Loaded(c, ch) => Taking(c, ch, msgs)
  <2>1. CASE Storing(c, ch) /\ msgs = write[c].now
    BY <1>5, <2>1 DEF OnceHeld, Has, Now, Snap
  <2>2. CASE Loaded(c, ch) /\ msgs = copy[c][ch].msgs
    <3>1. Extends(msgs, msgs)
      BY ExtendsMore DEF Histories
    <3> QED
      BY <1>0, <1>5, <2>2, <3>1 DEF OnceHeld, OnceIn, Has, Of, Loaded, Taking
  <2> QED
    BY <2>1, <2>2
<1>9. \A n \in X : n \in Messages(b.msgs) \/ n \in Unsaid(c, ch)
  BY <1>0, <1>8, <1>6 DEF Has, Unsaid, Of
<1>10. /\ InLog(ch) \cap InTail(ch) = {} /\ InTail(ch) \cap X = {}
       /\ InLog(ch) \cap X \subseteq Messages(b.msgs)
  BY <1>5, <1>8, <1>9 DEF Apart
<1>11. /\ Is(ch, log)' /\ LogWell(ch)'
       /\ InLog(ch)' \subseteq InLog(ch) \cup InTail(ch) \cup X
       /\ InTail(ch)' \subseteq InTail(ch) /\ InLog(ch)' \cap InTail(ch)' = {}
       /\ Is(ch, log) /\ Extends(msgs, b.msgs) => Extends(log'[ch].msgs, log[ch].msgs)
       /\ \A x \in Chats \ {ch} : log'[x] = log[x] /\ gens'[x] = gens[x]
  <2> HIDE DEF b
  <2> QED
    BY <1>0, <1>5, <1>8, <1>10, OutOnce DEF b
<1>12. \A d \in Copies \ {c}, x \in Chats : Has(d, x)' = Has(d, x) /\ Unsaid(d, x)' = Unsaid(d, x)
  BY <1>1, <1>4, SameHas
<1> HIDE DEF b
<1>13. /\ Has(c, ch)' \subseteq Has(c, ch)
       /\ Unsaid(c, ch)' \subseteq Unsaid(c, ch) \ X
  <2>1. /\ Of(ch, copy[c])' = Of(ch, copy[c]) /\ Of(ch, base[c])' = X
        /\ Of(ch, write[c].taken)' = {} /\ Now(c, ch)' = {}
    BY <1>0, <1>1, <1>3, <1>6, <1>7 DEF Of, Now
  <2>2. Has(c, ch)' \subseteq Has(c, ch)
    BY <1>8, <2>1 DEF Has
  <2>3. Unsaid(c, ch)' = Of(ch, copy[c]) \ X
    BY <1>3, <2>1 DEF Unsaid
  <2>4. Of(ch, copy[c]) \cap Of(ch, base[c]) \subseteq X
    BY <1>8 DEF Taking, Of, Loaded
  <2>5. Of(ch, copy[c]) \ X \subseteq Unsaid(c, ch) \ X
    BY <2>4 DEF Unsaid
  <2> QED
    BY <2>2, <2>3, <2>5
<1> DEFINE E == {}
           Z == {}
<1>14. ASSUME NEW x \in Chats \ {ch}
       PROVE  /\ Has(c, x)' \subseteq Has(c, x) /\ Unsaid(c, x)' \subseteq Unsaid(c, x)
              /\ InLog(x)' = InLog(x) /\ InTail(x)' = InTail(x) /\ (LogWell(x) => LogWell(x)')
  <2>1. /\ Of(x, copy[c])' = Of(x, copy[c]) /\ Of(x, base[c])' = Of(x, base[c])
        /\ Of(x, write[c].taken)' = {} /\ Now(c, x)' = {}
    BY <1>1, <1>3, <1>6, <1>7 DEF Of, Now
  <2>2. Is(x, base[c])' <=> Is(x, base[c])
    BY <1>3
  <2>3. Has(c, x)' \subseteq Has(c, x) /\ Unsaid(c, x)' \subseteq Unsaid(c, x)
    BY <1>1, <1>6, <2>1, <2>2 DEF Has, Unsaid
  <2>4. log'[x] = log[x] /\ gens'[x] = gens[x]
    BY <1>11
  <2> QED
    BY <2>3, <2>4 DEF InLog, InTail, LogWell
<1>15. edits <= edits' /\ edits' \in Nat /\ \A n \in E : n \in Nat /\ edits < n /\ n <= edits'
  BY <1>0 DEF TypeOK
<1> HIDE DEF X, E
<1>16. ASSUME NEW x \in Chats PROVE LogWell(x)' /\ Numbered(x)' /\ Apart(x)' /\ SpreadIn(x)
  <2>0. LogWell(x) /\ Numbered(x) /\ Apart(x)
    BY DEF OnceInv
  <2>1. CASE x = ch
    <3>0. \A d \in Copies \ {c} : Has(d, ch)' = Has(d, ch) /\ Unsaid(d, ch)' = Unsaid(d, ch)
      BY <1>12
    <3>1. /\ X \in SUBSET Has(c, ch)
          /\ InLog(ch)' \subseteq InLog(ch) \cup InTail(ch) \cup X
          /\ Has(c, ch)' \subseteq Has(c, ch) \cup InLog(ch) \cup E
          /\ Unsaid(c, ch)' \subseteq (Unsaid(c, ch) \ X) \cup E
          /\ InTail(ch)' \subseteq InTail(ch) /\ InLog(ch)' \cap InTail(ch)' = {}
      BY <1>8, <1>11, <1>13
    <3>2. Apart(ch)' /\ Numbered(ch)' /\ SpreadIn(ch)
      BY <1>0, <1>5, <1>15, <3>0, <3>1, ApartKeeps
    <3> QED
      BY <1>11, <2>1, <3>2
  <2>2. CASE x # ch
    <3>1. InLog(x) \cap InTail(x) = {}
      BY <2>0 DEF Apart
    <3>2. /\ Has(c, x)' \subseteq Has(c, x) /\ Unsaid(c, x)' \subseteq Unsaid(c, x)
          /\ InLog(x)' = InLog(x) /\ InTail(x)' = InTail(x) /\ LogWell(x)'
      BY <1>14, <2>0, <2>2
    <3>3. /\ Z \in SUBSET Has(c, x)
          /\ InLog(x)' \subseteq InLog(x) \cup InTail(x) \cup Z
          /\ Has(c, x)' \subseteq Has(c, x) \cup InLog(x) \cup E
          /\ Unsaid(c, x)' \subseteq (Unsaid(c, x) \ Z) \cup E
          /\ InTail(x)' \subseteq InTail(x) /\ InLog(x)' \cap InTail(x)' = {}
      BY <3>1, <3>2
    <3> HIDE DEF Z
    <3>4. \A d \in Copies \ {c} : Has(d, x)' = Has(d, x) /\ Unsaid(d, x)' = Unsaid(d, x)
      BY <1>12
    <3>5. Apart(x)' /\ Numbered(x)' /\ SpreadIn(x)
      BY <1>0, <1>15, <2>0, <3>3, <3>4, ApartKeeps
    <3> QED
      BY <3>2, <3>5
  <2> QED
    BY <2>1, <2>2
<1>17. ASSUME NEW x \in Chats
       PROVE  /\ Locked(c, x)' /\ OnceHeld(c, x)' /\ Snap(c, x)' /\ CutStands(c, x)'
              /\ Cut(c, x)' => Cut(c, x) /\ x # ch
  <2>0. OnceHeld(c, x) /\ CutStands(c, x)
    BY DEF OnceInv
  <2>1. OnceHeld(c, x)'
    BY <1>1, <1>3, <1>6, <1>7, <1>8, <2>0 DEF OnceHeld, OnceIn
  <2>2. Locked(c, x)' /\ Snap(c, x)'
    BY <1>1, <1>6, <1>7 DEF Locked, Snap
  <2>3. Cut(c, x)' => Cut(c, x) /\ x # ch
    BY <1>3, <1>7, <1>8 DEF Cut, Loaded, Taking
  <2>4. x # ch => log'[x] = log[x] /\ base'[c][x] = base[c][x]
    BY <1>3, <1>11
  <2>5. CutStands(c, x)'
    BY <1>7, <2>0, <2>3, <2>4 DEF CutStands
  <2> QED
    BY <2>1, <2>2, <2>3, <2>5
<1>18. ASSUME NEW d \in Copies \ {c}, NEW x \in Chats
       PROVE  /\ chatLock[x] = d => chatLock'[x] = d /\ (Is(x, log) => Is(x, log)')
              /\ Cut(c, x)' => ~Cut(d, x)
              /\ Cut(d, x) => CutStands(d, x)'
  <2>0. CutStands(d, x) /\ ~(Cut(c, x) /\ Cut(d, x)) /\ Locked(d, x)
    BY DEF OnceInv, OneCut
  <2>1. Is(x, log) => Is(x, log)'
    BY <1>11
  <2>2. Cut(c, x)' => ~Cut(d, x)
    BY <1>17, <2>0
  <2>3. CASE x # ch
    <3>1. log'[x] = log[x] /\ base'[d] = base[d] /\ write'[d] = write[d] /\ copy'[d] = copy[d]
      BY <1>1, <1>4, <1>11, <2>3
    <3>2. CutStands(d, x)'
      BY <2>0, <3>1 DEF CutStands, Cut, Storing, At, Loaded
    <3> QED
      BY <2>1, <2>2, <3>2
  <2>4. CASE x = ch
    <3>1. base'[d] = base[d] /\ write'[d] = write[d] /\ copy'[d] = copy[d]
      BY <1>1, <1>4
    <3>2. ~Storing(d, ch)
      <4>1. CASE Storing(c, ch)
        BY <1>5, <2>0, <2>4, <4>1 DEF Locked
      <4>2. CASE chatLock[ch] = None
        BY <2>0, <2>4, <4>2, StateStoreAssumption DEF Locked
      <4> QED
        BY <4>1, <4>2
    <3>3. ASSUME Cut(d, ch), Is(ch, index)
          PROVE  Extends(log'[ch].msgs, base[d][ch].msgs)
      <4>1. Is(ch, log) /\ Extends(log[ch].msgs, base[d][ch].msgs)
        BY <2>0, <2>4, <3>3 DEF CutStands, Inv, StoreInv, FilesFirst, ListedIsReadable
      <4>2. Extends(msgs, b.msgs)
        <5>1. Storing(c, ch) /\ msgs = write[c].now /\ ~Cut(c, ch)
          BY <2>0, <2>4, <3>3
        <5> QED
          BY <1>0, <5>1 DEF Cut, b
      <4>3. Extends(log'[ch].msgs, log[ch].msgs)
        BY <1>11, <4>1, <4>2
      <4>4. /\ base[d][ch].msgs \in Seq(1..MaxEdits) /\ log[ch].msgs \in Seq(1..MaxEdits)
            /\ log'[ch].msgs \in Seq(1..MaxEdits)
        <5>1. base[d][ch].msgs \in Histories
          BY <1>0, <3>3, HeldIs DEF Cut
        <5>2. log[ch].msgs \in Histories
          BY <1>0, <4>1, HeldIs
        <5>3. Out(ch, b, msgs).log \in Logs(1..MaxEdits)
          BY <1>0, OutIsLog
        <5>4. log'[ch] = Out(ch, b, msgs).log
          BY <1>0 DEF Put, TypeOK, b
        <5>5. log'[ch].msgs \in Seq(1..MaxEdits)
          BY <5>3, <5>4 DEF Logs
        <5> QED
          BY <5>1, <5>2, <5>5 DEF Histories
      <4> QED
        BY <4>1, <4>3, <4>4, ExtendsMore
    <3>4. Cut(d, x) => CutStands(d, x)'
      BY <2>4, <3>1, <3>2, <3>3 DEF CutStands, Storing, At
    <3> QED
      BY <2>1, <2>2, <3>4
  <2> QED
    BY <2>3, <2>4
<1> QED
  BY <1>0, <1>1, <1>4, <1>16, <1>17, <1>18, OneStep

LEMMA StoreOwnOnce ==
  ASSUME Inv, OnceInv, NEW c \in Copies, StoreOwn(c)
  PROVE  OnceInv' /\ Spreads
<1> DEFINE w == write[c]
           ch == w.chat
           v == [w EXCEPT !.pc = w.back, !.chat = None, !.now = <<>>, !.back = "idle",
                          !.own = IF w.back = "own" THEN @ \cup {w.chat} ELSE @]
           msgs == w.now
           at == Out(ch, base[c][ch], msgs).at
<1>1. /\ w.pc = "store" /\ w \in Writes /\ ch \in Chats /\ msgs \in Histories
      /\ Is(ch, base[c]) /\ base[c][ch].msgs \in Histories
  BY DEF StoreOwn, At, Inv, TypeOK, StoreInv, StoresHistories, Writes
<1>2. v \in Writes /\ v.pc \in {"idle", "own", "later"} /\ v.taken = w.taken
  <2>1. w.own \cup {ch} \in SUBSET Chats /\ <<>> \in Histories
    BY <1>1 DEF Writes, Histories
  <2> HIDE DEF w
  <2>2. ch = w.chat
    OBVIOUS
  <2> HIDE DEF ch
  <2> QED
    BY <1>1, <2>1, <2>2 DEF Writes
<1>3. /\ Put(ch, Out(ch, base[c][ch], msgs)) /\ Moved(c, ch, msgs, at)
      /\ Goto(c, v) /\ UNCHANGED <<index, copy, edits>>
      /\ chatLock' = [chatLock EXCEPT ![ch] = None]
  BY DEF StoreOwn
<1>4. Storing(c, ch) /\ chatLock[ch] = c
  BY <1>1 DEF Storing, At, OnceInv, Locked
<1>5. \A d \in Copies \ {c}, x \in Chats : chatLock[x] = d => chatLock'[x] = d
  BY <1>1, <1>3, <1>4 DEF Inv, TypeOK
<1>6. write[c].pc \in {"store", "later"} /\ v.taken = write[c].taken /\ msgs = write[c].now
  BY <1>1, <1>2
<1> HIDE DEF w, ch, v, msgs
<1> QED
  BY <1>1, <1>2, <1>3, <1>4, <1>5, <1>6, StoredOnce

LEMMA LaterOnce ==
  ASSUME Inv, OnceInv, NEW c \in Copies, Later(c)
  PROVE  OnceInv' /\ Spreads
<1>1. PICK ch \in write[c].later :
        LET w == [write[c] EXCEPT !.later = @ \ {ch}]
            out == Out(ch, base[c][ch], copy[c][ch].msgs)
        IN  \/ /\ ~Changed(c, ch)
               /\ Goto(c, w)
               /\ UNCHANGED <<disk, locks, copy, base, edits, bounds, history>>
            \/ /\ Changed(c, ch) /\ Is(ch, index)
               /\ TakeChat(c, ch, w, "later")
            \/ /\ Changed(c, ch) /\ ~Is(ch, index)
               /\ stateLock = None /\ chatLock[ch] = None
               /\ Put(ch, out) /\ Moved(c, ch, copy[c][ch].msgs, out.at)
               /\ Goto(c, w)
               /\ UNCHANGED <<index, locks, copy, edits, bounds, made, dropped,
                              deleted, littered>>
               /\ Recorded
  BY DEF Later
<1> DEFINE w == [write[c] EXCEPT !.later = @ \ {ch}]
           msgs == copy[c][ch].msgs
           out == Out(ch, base[c][ch], msgs)
<1>2. write[c] \in Writes /\ write[c].pc = "later"
  BY DEF Inv, TypeOK, Later, At
<1>3. ch \in Chats /\ w \in Writes /\ w.pc = "later" /\ w.taken = write[c].taken
  BY <1>2 DEF Writes
<1>4. \A x \in Chats : ~Is(x, w.taken)
  BY <1>2, <1>3 DEF Inv, OwedInv, LetGoOf
<1>5. CASE ~Changed(c, ch) /\ Goto(c, w)
             /\ UNCHANGED <<disk, locks, copy, base, edits>>
  <2>1. UNCHANGED <<disk, copy, base, edits>> /\ chatLock' = chatLock
    BY <1>5 DEF locks
  <2> HIDE DEF w
  <2> QED
    BY <1>3, <1>4, <1>5, <2>1, GotoOnce DEF Inv
<1>6. CASE Changed(c, ch) /\ Is(ch, index) /\ TakeChat(c, ch, w, "later")
  <2> HIDE DEF w
  <2> QED
    BY <1>2, <1>3, <1>6, TakeChatOnce
<1>7. CASE /\ Changed(c, ch) /\ ~Is(ch, index) /\ chatLock[ch] = None
           /\ Put(ch, out) /\ Moved(c, ch, msgs, out.at)
           /\ Goto(c, w) /\ UNCHANGED <<index, locks, copy, edits>>
  <2>1. /\ Is(ch, copy[c]) /\ msgs \in Histories
        /\ Is(ch, base[c]) /\ base[c][ch].msgs \in Histories
    BY <1>3, <1>7, ChangedHasBoth DEF Inv
  <2>2. chatLock' = chatLock
    BY <1>7 DEF locks
  <2>3. Loaded(c, ch)
    BY <2>1, HistoryIs DEF Loaded
  <2> HIDE DEF w
  <2>4. Put(ch, Out(ch, base[c][ch], msgs)) /\ Moved(c, ch, msgs, Out(ch, base[c][ch], msgs).at)
    BY <1>7
  <2>5. msgs = copy[c][ch].msgs
    OBVIOUS
  <2> HIDE DEF msgs, out
  <2> QED
    BY <1>2, <1>3, <1>7, <2>1, <2>2, <2>3, <2>4, <2>5, StoredOnce
<1> QED
  BY <1>1, <1>5, <1>6, <1>7

-----------------------------------------------------------------------------
(* Reading, and remembering.                                                 *)

\* What is read is what the log has.
LEMMA ReadLogsOnce ==
  ASSUME Inv, OnceInv, NEW c \in Copies, ReadLogs(c)
  PROVE  OnceInv' /\ Spreads
<1> USE DEF disk
<1> DEFINE Read(ch) == IF Is(ch, write[c].next) THEN AsRead(write[c].next[ch], log[ch]) ELSE None
<1>1. /\ base' = [base EXCEPT ![c] = [ch \in Chats |-> Read(ch)]]
      /\ copy' = [copy EXCEPT ![c] = [ch \in Chats |->
                    IF Is(ch, base'[c]) THEN [base'[c][ch] EXCEPT !.at = Nowhere] ELSE None]]
      /\ Goto(c, NoWrite) /\ UNCHANGED <<disk, edits>> /\ chatLock' = chatLock
      /\ write[c].pc = "opening" /\ write[c] \in Writes
  BY DEF ReadLogs, locks, At, Inv, TypeOK
<1>2. /\ base'[c] = [ch \in Chats |-> Read(ch)]
      /\ copy'[c] = [ch \in Chats |->
                    IF Is(ch, base'[c]) THEN [base'[c][ch] EXCEPT !.at = Nowhere] ELSE None]
      /\ write'[c] = NoWrite
      /\ \A d \in Copies \ {c} : copy'[d] = copy[d] /\ base'[d] = base[d] /\ write'[d] = write[d]
  BY <1>1 DEF Inv, TypeOK, Goto
<1> HIDE DEF Read
<1>3. ASSUME NEW ch \in Chats
      PROVE  /\ Is(ch, base[c])' =>
                  base'[c][ch].msgs = IF Is(ch, log) THEN log[ch].msgs ELSE None
             /\ Is(ch, copy[c])' => Is(ch, base[c])' /\ copy'[c][ch].msgs = base'[c][ch].msgs
  <2>1. base'[c][ch] = Read(ch)
    BY <1>2
  <2>2. copy'[c][ch] = IF Is(ch, base'[c]) THEN [base'[c][ch] EXCEPT !.at = Nowhere] ELSE None
    BY <1>2
  <2>3. Read(ch) # None =>
          Read(ch).msgs = (IF Is(ch, log) THEN log[ch].msgs ELSE None)
            /\ Read(ch) = [title |-> Read(ch).title, queue |-> Read(ch).queue,
                           msgs |-> Read(ch).msgs, at |-> Read(ch).at]
    BY DEF Read, AsRead
  <2>4. ASSUME NEW r, r = [title |-> r.title, queue |-> r.queue, msgs |-> r.msgs, at |-> r.at]
        PROVE  [r EXCEPT !.at = Nowhere].msgs = r.msgs
    BY <2>4
  <2> QED
    BY <2>1, <2>2, <2>3, <2>4
<1>4. \A ch \in Chats : ~Is(ch, write[c].taken) /\ ~Is(ch, NoWrite.taken)
  BY <1>1, NoWriteTook DEF Inv, OwedInv, LetGoOf
<1>5. ASSUME NEW ch \in Chats
      PROVE  /\ Has(c, ch)' \subseteq Has(c, ch) \cup InLog(ch)
             /\ Unsaid(c, ch)' \subseteq Unsaid(c, ch)
             /\ Locked(c, ch)' /\ OnceHeld(c, ch)' /\ Snap(c, ch)'
             /\ Cut(c, ch)' => /\ Cut(c, ch) /\ base'[c][ch].msgs = base[c][ch].msgs
                               /\ Storing(c, ch)' => Storing(c, ch) \/ Is(ch, index)
  <2>0. LogWell(ch) /\ TypeOK
    BY DEF OnceInv, Inv
  <2>1. ~Storing(c, ch)' /\ ~At(c, "files")' /\ ~Is(ch, write'[c].taken)
    BY <1>2, <1>4, NoWriteIs DEF Storing, At
  <2>2. /\ Of(ch, base[c])' \subseteq InLog(ch) /\ Of(ch, copy[c])' \subseteq Of(ch, base[c])'
        /\ Now(c, ch)' = {} /\ Of(ch, write[c].taken)' = {}
    BY <1>3, <2>1 DEF Of, InLog, Now
  <2>3. Has(c, ch)' \subseteq Has(c, ch) \cup InLog(ch)
    BY <2>2 DEF Has
  <2>4. Unsaid(c, ch)' = {}
    BY <2>1, <2>2 DEF Unsaid
  <2>5. OnceHeld(c, ch)'
    BY <1>3, <2>0, <2>1 DEF OnceHeld, OnceIn, LogWell
  <2>6. ASSUME Cut(c, ch)' PROVE FALSE
    <3>1. Is(ch, log) /\ log[ch].msgs \in Seq(1..MaxEdits)
      BY <1>3, <2>0, <2>6, HeldIs DEF Cut, Histories
    <3> QED
      BY <1>3, <2>1, <2>6, <3>1, ExtendsMore DEF Cut, Loaded
  <2> QED
    BY <2>1, <2>3, <2>4, <2>5, <2>6 DEF Locked, Snap
<1>6. \A d \in Copies \ {c}, ch \in Chats : chatLock[ch] = d => chatLock'[ch] = d
  BY <1>1
<1> QED
  BY <1>1, <1>2, <1>5, <1>6, QuietKeeps DEF Inv

\* Under the state lock: what is taken is what the copy has, or the base.
LEMMA TakeStateOnce ==
  ASSUME Inv, OnceInv, NEW c \in Copies, TakeState(c)
  PROVE  OnceInv' /\ Spreads
<1> USE DEF disk
<1> DEFINE w == write[c]
           next == [ch \in Chats |-> MergedRow(base[c][ch], copy[c][ch], index[ch])]
           later == {ch \in w.own : Is(ch, index) /\ Changed(c, ch)}
           taken == Snapshot(c, later)
           files == {ch \in Chats : Is(ch, copy[c]) /\ ~Is(ch, base[c])}
           doomed == {ch \in Chats : Is(ch, base[c]) /\ next[ch] = None}
           v == [w EXCEPT !.pc = "files", !.own = {}, !.later = later, !.upTo = edits,
                          !.next = next, !.taken = taken, !.files = files,
                          !.doomed = doomed]
<1>1. /\ w \in Writes /\ w.pc = "own" /\ Goto(c, v) /\ chatLock' = chatLock
      /\ UNCHANGED <<disk, copy, base, edits>>
  BY DEF TakeState, Inv, TypeOK, At
<1>2. v.pc = "files" /\ v.taken = taken /\ v.files = files
  <2> HIDE DEF w, next, later, taken, files, doomed
  <2> QED
    BY <1>1 DEF Writes
<1>3. write'[c] = v /\ \A d \in Copies \ {c} : write'[d] = write[d]
  BY <1>1 DEF Inv, TypeOK, Goto
<1> HIDE DEF v, later
<1>4. ASSUME NEW ch \in Chats
      PROVE  /\ Has(c, ch)' \subseteq Has(c, ch) \cup InLog(ch)
             /\ Unsaid(c, ch)' \subseteq Unsaid(c, ch)
             /\ Locked(c, ch)' /\ OnceHeld(c, ch)' /\ Snap(c, ch)'
             /\ Cut(c, ch)' => /\ Cut(c, ch) /\ base'[c][ch].msgs = base[c][ch].msgs
                               /\ Storing(c, ch)' => Storing(c, ch) \/ Is(ch, index)
  <2>0. OnceHeld(c, ch) /\ TypeOK
    BY DEF OnceInv, Inv
  <2>1. ~Storing(c, ch)' /\ ~Storing(c, ch) /\ ~Is(ch, w.taken)
    BY <1>1, <1>2, <1>3 DEF Storing, At, Inv, OwedInv, LetGoOf
  <2>2. /\ Is(ch, taken) <=> Is(ch, copy[c])
        /\ ~Is(ch, base[c]) => taken[ch] = copy[c][ch]
        /\ Is(ch, copy[c]) =>
             \/ taken[ch] = copy[c][ch]
             \/ Is(ch, base[c]) /\ taken[ch].msgs = base[c][ch].msgs
    BY <2>0, SnapshotIs
  <2> HIDE DEF taken, files
  <2>3. /\ Of(ch, base[c])' = Of(ch, base[c]) /\ Of(ch, copy[c])' = Of(ch, copy[c])
        /\ Of(ch, write[c].taken)' = Of(ch, taken) /\ Now(c, ch)' = {} /\ Now(c, ch) = {}
    BY <1>1, <1>2, <1>3, <2>1 DEF Of, Now
  <2>4. /\ Of(ch, taken) \subseteq Of(ch, copy[c]) \cup Of(ch, base[c])
        /\ ~Is(ch, base[c]) => Of(ch, taken) = Of(ch, copy[c])
    BY <2>2 DEF Of
  <2>5. Has(c, ch)' \subseteq Has(c, ch)
    BY <2>3, <2>4 DEF Has
  <2>6. Unsaid(c, ch)' \subseteq Unsaid(c, ch)
    BY <1>1, <2>3, <2>4 DEF Unsaid
  <2>7. OnceHeld(c, ch)'
    BY <1>1, <1>2, <1>3, <2>0, <2>1, <2>2 DEF OnceHeld, OnceIn
  <2>8. Locked(c, ch)'
    BY <1>1, <1>2, <1>3, <2>1 DEF Locked, files
  <2>9. Snap(c, ch)'
    <3>1. ASSUME Loaded(c, ch), taken[ch] = copy[c][ch]
          PROVE  /\ taken[ch].msgs # None /\ Extends(copy[c][ch].msgs, taken[ch].msgs)
                 /\ Of(ch, copy[c]) \cap Of(ch, base[c]) \subseteq Messages(taken[ch].msgs)
      <4>1. copy[c][ch].msgs \in Seq(1..MaxEdits)
        BY <2>0, <3>1, HeldIs DEF Loaded, Histories
      <4> QED
        BY <3>1, <4>1, ExtendsMore DEF Loaded, Of
    <3>2. Loaded(c, ch)' <=> Loaded(c, ch)
      BY <1>1 DEF Loaded
    <3> QED
      BY <1>1, <1>2, <1>3, <2>1, <2>2, <2>3, <3>1, <3>2 DEF Snap, Taking, Loaded
  <2>10. Cut(c, ch)' => Cut(c, ch)
    BY <1>1, <2>1 DEF Cut, Loaded
  <2> QED
    BY <1>1, <2>1, <2>5, <2>6, <2>7, <2>8, <2>9, <2>10
<1>5. \A d \in Copies \ {c}, ch \in Chats : chatLock[ch] = d => chatLock'[ch] = d
  BY <1>1
<1>6. \A d \in Copies \ {c} : copy'[d] = copy[d] /\ base'[d] = base[d] /\ write'[d] = write[d]
  BY <1>1, <1>3
<1> QED
  BY <1>1, <1>4, <1>5, <1>6, QuietKeeps DEF Inv

\* What was taken is the base, and the copy has gone on from it or undoes what
\* it undid.
LEMMA FinishOnce ==
  ASSUME Inv, OnceInv, NEW c \in Copies, Finish(c)
  PROVE  OnceInv' /\ Spreads
<1> USE DEF disk
<1> DEFINE w == write[c]
           v == [NoWrite EXCEPT !.pc = "later", !.later = w.later, !.upTo = w.upTo]
<1>1. /\ w.pc = "purge" /\ Goto(c, v) /\ base' = [base EXCEPT ![c] = w.taken]
      /\ UNCHANGED <<disk, copy, edits>> /\ chatLock' = chatLock
  BY DEF Finish, At
<1>2. v.pc = "later" /\ v.taken = NoChats
  BY DEF NoWrite
<1>3. /\ write'[c] = v /\ base'[c] = w.taken
      /\ \A d \in Copies \ {c} : base'[d] = base[d] /\ write'[d] = write[d]
  BY <1>1 DEF Inv, TypeOK, Goto
<1> HIDE DEF v
<1>4. ASSUME NEW ch \in Chats
      PROVE  /\ Has(c, ch)' \subseteq Has(c, ch) \cup InLog(ch)
             /\ Unsaid(c, ch)' \subseteq Unsaid(c, ch)
             /\ Locked(c, ch)' /\ OnceHeld(c, ch)' /\ Snap(c, ch)'
             /\ Cut(c, ch)' => /\ Cut(c, ch) /\ base'[c][ch].msgs = base[c][ch].msgs
                               /\ Storing(c, ch)' => Storing(c, ch) \/ Is(ch, index)
  <2>0. OnceHeld(c, ch) /\ Snap(c, ch)
    BY DEF OnceInv
  <2>1. ~Storing(c, ch)' /\ ~Storing(c, ch) /\ ~At(c, "files")' /\ ~Is(ch, write'[c].taken)
    BY <1>1, <1>2, <1>3 DEF Storing, At, NoChats
  <2>2. /\ Of(ch, base[c])' = Of(ch, w.taken) /\ Of(ch, copy[c])' = Of(ch, copy[c])
        /\ Of(ch, write[c].taken)' = {} /\ Now(c, ch)' = {} /\ Now(c, ch) = {}
    BY <1>1, <1>3, <2>1 DEF Of, Now
  <2>3. Has(c, ch)' \subseteq Has(c, ch)
    BY <2>2 DEF Has
  <2>4. Is(ch, w.taken) /\ Loaded(c, ch) =>
          \/ Is(ch, base[c]) /\ w.taken[ch].msgs = base[c][ch].msgs
          \/ Taking(c, ch, w.taken[ch].msgs)
    BY <2>0 DEF Snap
  <2>5. Unsaid(c, ch)' = IF Is(ch, w.taken) THEN Of(ch, copy[c]) \ Of(ch, w.taken) ELSE {}
    BY <1>3, <2>1, <2>2 DEF Unsaid
  <2>6. ASSUME Is(ch, w.taken) PROVE Of(ch, copy[c]) \ Of(ch, w.taken) \subseteq Unsaid(c, ch)
    <3>1. CASE ~Is(ch, base[c])
      BY <2>6, <3>1 DEF Unsaid
    <3>2. CASE Is(ch, base[c])
      <4>1. Loaded(c, ch) => Of(ch, copy[c]) \cap Of(ch, base[c]) \subseteq Of(ch, w.taken)
        BY <2>4, <2>6 DEF Taking, Of
      <4>2. ~Loaded(c, ch) => Of(ch, copy[c]) = {}
        BY DEF Loaded, Of
      <4> QED
        BY <3>2, <4>1, <4>2 DEF Unsaid
    <3> QED
      BY <3>1, <3>2
  <2>7. OnceHeld(c, ch)'
    BY <1>1, <1>3, <2>0, <2>1 DEF OnceHeld, OnceIn
  <2>8. Cut(c, ch)' => Cut(c, ch) /\ base'[c][ch].msgs = base[c][ch].msgs
    BY <1>1, <1>3, <2>1, <2>4 DEF Cut, Loaded, Taking
  <2> QED
    BY <2>1, <2>3, <2>5, <2>6, <2>7, <2>8 DEF Locked, Snap
<1>5. \A d \in Copies \ {c}, ch \in Chats : chatLock[ch] = d => chatLock'[ch] = d
  BY <1>1
<1>6. \A d \in Copies \ {c} : copy'[d] = copy[d] /\ base'[d] = base[d] /\ write'[d] = write[d]
  BY <1>1, <1>3
<1> QED
  BY <1>1, <1>4, <1>5, <1>6, QuietKeeps DEF Inv

-----------------------------------------------------------------------------
(* Storing what is new, and removing what was deleted.                       *)

\* Of a chat no reader has found nobody has a base: nobody has undone any of it.
LEMMA NobodyCut ==
  ASSUME Inv, NEW ch \in Chats, ~Had(ch)
  PROVE  \A d \in Copies : ~Cut(d, ch) /\ ~Is(ch, base[d])
BY DEF Inv, RecordInv, Listing, Cut

\* The transcript of a chat not listed yet: what the log has that was taken was
\* stored from there.
LEMMA StoreFileOnce ==
  ASSUME Inv, OnceInv, NEW c \in Copies, StoreFile(c)
  PROVE  OnceInv' /\ Spreads
<1>1. PICK ch \in Chats : FileStored(c, ch)
  BY StoreFileIs DEF Inv
<1> DEFINE msgs == write[c].taken[ch].msgs
           X == Messages(msgs)
           Z == {}
           E == {}
<1>0. TypeOK /\ None \notin Histories
  BY HistoryIs DEF Inv
<1>2. /\ write[c].pc = "files" /\ ch \in write[c].files
      /\ Is(ch, write[c].taken) /\ msgs \in Histories /\ msgs # None
      /\ UNCHANGED <<index, copy, base, edits>> /\ chatLock' = chatLock
      /\ write'[c].pc = "files" /\ write'[c].files = write[c].files \ {ch}
      /\ \A d \in Copies \ {c} : copy'[d] = copy[d] /\ base'[d] = base[d] /\ write'[d] = write[d]
  BY <1>0, <1>1 DEF FileStored
<1>3. \A x \in Chats :
        /\ Is(x, write[c].taken)' <=> Is(x, write[c].taken)
        /\ Is(x, write[c].taken) => write'[c].taken[x].msgs = write[c].taken[x].msgs
  BY <1>1 DEF FileStored
<1>4. LogWell(ch) /\ Numbered(ch) /\ Apart(ch) /\ Locked(c, ch) /\ OnceHeld(c, ch)
  BY DEF OnceInv
<1>5. ~Is(ch, base[c]) /\ \A d \in Copies : ~Cut(d, ch)
  <2>1. ~Is(ch, base[c])
    BY <1>2, <1>4 DEF Locked, At
  <2>2. ~Had(ch)
    BY <1>2, <2>1 DEF Inv, RecordInv, Listing, At
  <2> QED
    BY <2>1, <2>2, NobodyCut
<1>6. Once(msgs) /\ X = Of(ch, write[c].taken) /\ X \subseteq Has(c, ch)
  BY <1>2, <1>4 DEF OnceHeld, OnceIn, Of, Has
<1>7. /\ InLog(ch) \cap InTail(ch) = {} /\ InTail(ch) \cap X = {}
      /\ InLog(ch) \cap X \subseteq Messages(LogNow(ch).msgs)
      /\ LogNow(ch).msgs \in Histories /\ LogNow(ch).at \in Spots
  <2>1. InLog(ch) \subseteq Messages(LogNow(ch).msgs)
    BY DEF InLog, LogNow
  <2>2. LogNow(ch).msgs \in Histories /\ LogNow(ch).at \in Spots
    <3>1. Is(ch, log) => log[ch].msgs \in Histories
      BY <1>0, HeldIs
    <3>2. <<>> \in Histories
      BY DEF Histories
    <3> QED
      BY <3>1, <3>2 DEF LogNow, Nowhere, Spots
  <2> QED
    BY <1>4, <1>6, <2>1, <2>2 DEF Apart
<1>8. Put(ch, Out(ch, LogNow(ch), msgs))
  BY <1>1 DEF FileStored
<1> HIDE DEF msgs
<1>9. /\ Is(ch, log)' /\ LogWell(ch)'
      /\ InLog(ch)' \subseteq InLog(ch) \cup InTail(ch) \cup X
      /\ InTail(ch)' \subseteq InTail(ch) /\ InLog(ch)' \cap InTail(ch)' = {}
      /\ \A x \in Chats \ {ch} : log'[x] = log[x] /\ gens'[x] = gens[x]
  BY <1>0, <1>2, <1>4, <1>6, <1>7, <1>8, OutOnce
<1>10. ASSUME NEW x \in Chats
       PROVE  /\ Has(c, x)' = Has(c, x) /\ Unsaid(c, x)' = Unsaid(c, x)
              /\ ~Storing(c, x)' /\ ~Storing(c, x)
              /\ Of(x, write[c].taken)' = Of(x, write[c].taken)
  <2>1. /\ Of(x, copy[c])' = Of(x, copy[c]) /\ Of(x, base[c])' = Of(x, base[c])
        /\ Of(x, write[c].taken)' = Of(x, write[c].taken)
    BY <1>2, <1>3 DEF Of
  <2>2. ~Storing(c, x)' /\ ~Storing(c, x)
    BY <1>2 DEF Storing, At
  <2>3. Now(c, x)' = {} /\ Now(c, x) = {}
    BY <2>2 DEF Now
  <2> QED
    BY <1>2, <1>3, <2>1, <2>2, <2>3 DEF Has, Unsaid
<1>11. Unsaid(c, ch) \cap X = {}
  BY <1>5, <1>6 DEF Unsaid
<1>12. edits <= edits' /\ edits' \in Nat /\ \A n \in E : n \in Nat /\ edits < n /\ n <= edits'
  BY <1>0, <1>2 DEF TypeOK
<1> HIDE DEF X, E
<1>13. ASSUME NEW x \in Chats PROVE LogWell(x)' /\ Numbered(x)' /\ Apart(x)' /\ SpreadIn(x)
  <2>0. LogWell(x) /\ Numbered(x) /\ Apart(x)
    BY DEF OnceInv
  <2>1. \A d \in Copies \ {c} : Has(d, x)' = Has(d, x) /\ Unsaid(d, x)' = Unsaid(d, x)
    BY <1>2, SameHas
  <2>2. CASE x = ch
    <3>1. /\ X \in SUBSET Has(c, x)
          /\ InLog(x)' \subseteq InLog(x) \cup InTail(x) \cup X
          /\ Has(c, x)' \subseteq Has(c, x) \cup InLog(x) \cup E
          /\ Unsaid(c, x)' \subseteq (Unsaid(c, x) \ X) \cup E
          /\ InTail(x)' \subseteq InTail(x) /\ InLog(x)' \cap InTail(x)' = {}
      BY <1>6, <1>9, <1>10, <1>11, <2>2
    <3>2. Apart(x)' /\ Numbered(x)' /\ SpreadIn(x)
      BY <1>0, <1>12, <2>0, <2>1, <3>1, ApartKeeps
    <3> QED
      BY <1>9, <2>2, <3>2
  <2>3. CASE x # ch
    <3>1. log'[x] = log[x] /\ gens'[x] = gens[x]
      BY <1>9, <2>3
    <3>2. /\ InLog(x)' = InLog(x) /\ InTail(x)' = InTail(x) /\ LogWell(x)'
          /\ InLog(x) \cap InTail(x) = {}
      BY <2>0, <3>1 DEF InLog, InTail, LogWell, Apart
    <3>3. /\ Z \in SUBSET Has(c, x)
          /\ InLog(x)' \subseteq InLog(x) \cup InTail(x) \cup Z
          /\ Has(c, x)' \subseteq Has(c, x) \cup InLog(x) \cup E
          /\ Unsaid(c, x)' \subseteq (Unsaid(c, x) \ Z) \cup E
          /\ InTail(x)' \subseteq InTail(x) /\ InLog(x)' \cap InTail(x)' = {}
      BY <1>10, <3>2
    <3> HIDE DEF Z
    <3>4. Apart(x)' /\ Numbered(x)' /\ SpreadIn(x)
      BY <1>0, <1>12, <2>0, <2>1, <3>3, ApartKeeps
    <3> QED
      BY <3>2, <3>4
  <2> QED
    BY <2>2, <2>3
<1>14. ASSUME NEW x \in Chats
       PROVE  /\ Locked(c, x)' /\ OnceHeld(c, x)' /\ Snap(c, x)' /\ CutStands(c, x)'
              /\ Cut(c, x)' <=> Cut(c, x)
  <2>0. Locked(c, x) /\ OnceHeld(c, x) /\ Snap(c, x) /\ CutStands(c, x)
    BY DEF OnceInv
  <2>1. Locked(c, x)' /\ OnceHeld(c, x)'
    BY <1>2, <1>3, <1>10, <2>0 DEF Locked, OnceHeld, OnceIn, At
  <2>2. Snap(c, x)'
    BY <1>2, <1>3, <1>10, <2>0 DEF Snap, Taking, Loaded, Of
  <2>3. Cut(c, x)' <=> Cut(c, x)
    BY <1>2, <1>10 DEF Cut, Loaded
  <2>4. x # ch => log'[x] = log[x]
    BY <1>9
  <2>5. CutStands(c, x)'
    BY <1>2, <1>5, <1>10, <2>0, <2>3, <2>4 DEF CutStands
  <2> QED
    BY <2>1, <2>2, <2>3, <2>5
<1>15. ASSUME NEW d \in Copies \ {c}, NEW x \in Chats
       PROVE  /\ chatLock[x] = d => chatLock'[x] = d /\ (Is(x, log) => Is(x, log)')
              /\ Cut(c, x)' => ~Cut(d, x)
              /\ Cut(d, x) => CutStands(d, x)'
  <2>0. CutStands(d, x) /\ ~(Cut(c, x) /\ Cut(d, x))
    BY DEF OnceInv, OneCut
  <2>1. x # ch => log'[x] = log[x]
    BY <1>9
  <2>2. Storing(d, x)' <=> Storing(d, x)
    BY <1>2 DEF Storing, At
  <2>3. Cut(d, x) => CutStands(d, x)'
    BY <1>2, <1>5, <2>0, <2>1, <2>2 DEF CutStands
  <2> QED
    BY <1>2, <1>9, <1>14, <2>0, <2>1, <2>3
<1> QED
  BY <1>0, <1>2, <1>13, <1>14, <1>15, OneStep

\* Nobody has a base of what is listed anew.
LEMMA StoreIndexOnce ==
  ASSUME Inv, OnceInv, NEW c \in Copies, StoreIndex(c)
  PROVE  OnceInv' /\ Spreads
<1> DEFINE w == write[c]
           v == [w EXCEPT !.pc = "purge", !.next = NoChats]
<1>1. /\ w.pc = "files" /\ w \in Writes /\ index' = w.next /\ Goto(c, v)
      /\ UNCHANGED <<log, gens, copy, base, edits>> /\ chatLock' = chatLock
  BY DEF StoreIndex, At, locks, Inv, TypeOK
<1>2. v.pc = "purge" /\ v.taken = w.taken
  <2> HIDE DEF w
  <2> QED
    BY <1>1 DEF Writes
<1>3. /\ write'[c] = v
      /\ \A d \in Copies \ {c} : copy'[d] = copy[d] /\ base'[d] = base[d] /\ write'[d] = write[d]
  BY <1>1 DEF Inv, TypeOK, Goto
<1> HIDE DEF v
<1>4. ASSUME NEW ch \in Chats, Is(ch, index)'
      PROVE  Is(ch, index) \/ \A d \in Copies : ~Cut(d, ch)
  <2>1. CASE ~Is(ch, index)
    <3>1. ~Had(ch)
      BY <1>1, <1>4, <2>1 DEF Inv, RecordInv, Listing, At
    <3> QED
      BY <3>1, NobodyCut
  <2> QED
    BY <2>1
<1>5. ASSUME NEW ch \in Chats
      PROVE  /\ Has(c, ch)' \subseteq Has(c, ch) \cup InLog(ch)
             /\ Unsaid(c, ch)' \subseteq Unsaid(c, ch)
             /\ Locked(c, ch)' /\ OnceHeld(c, ch)' /\ Snap(c, ch)'
             /\ Cut(c, ch)' => /\ Cut(c, ch) /\ base'[c][ch].msgs = base[c][ch].msgs
                               /\ Storing(c, ch)' => Storing(c, ch) \/ Is(ch, index)
  <2>0. OnceHeld(c, ch) /\ Snap(c, ch)
    BY DEF OnceInv
  <2>1. ~Storing(c, ch)' /\ ~Storing(c, ch) /\ ~At(c, "files")'
    BY <1>1, <1>2, <1>3 DEF Storing, At
  <2>2. /\ Of(ch, copy[c])' = Of(ch, copy[c]) /\ Of(ch, base[c])' = Of(ch, base[c])
        /\ Of(ch, write[c].taken)' = Of(ch, write[c].taken)
        /\ Now(c, ch)' = {} /\ Now(c, ch) = {}
    BY <1>1, <1>2, <1>3, <2>1 DEF Of, Now
  <2>3. Has(c, ch)' = Has(c, ch) /\ Unsaid(c, ch)' = Unsaid(c, ch)
    BY <1>1, <1>2, <1>3, <2>2 DEF Has, Unsaid
  <2>4. OnceHeld(c, ch)' /\ Snap(c, ch)'
    BY <1>1, <1>2, <1>3, <2>0, <2>1 DEF OnceHeld, OnceIn, Snap, Taking, Loaded, Of
  <2>5. Cut(c, ch)' => Cut(c, ch)
    BY <1>1, <2>1 DEF Cut, Loaded
  <2> QED
    BY <1>1, <2>1, <2>3, <2>4, <2>5 DEF Locked
<1>6. \A d \in Copies \ {c}, ch \in Chats : chatLock[ch] = d => chatLock'[ch] = d
  BY <1>1
<1> QED
  BY <1>1, <1>3, <1>4, <1>5, <1>6, QuietKeeps DEF Inv

\* A log that is removed has nothing, and nobody is storing its chat.
LEMMA PurgeOnce ==
  ASSUME Inv, OnceInv, NEW c \in Copies, Purge(c)
  PROVE  OnceInv' /\ Spreads
<1>1. PICK ch \in write[c].doomed :
        /\ chatLock[ch] = None
        /\ log' = [log EXCEPT ![ch] = None]
        /\ Goto(c, [write[c] EXCEPT !.doomed = @ \ {ch}])
  BY DEF Purge
<1> DEFINE w == write[c]
           v == [w EXCEPT !.doomed = @ \ {ch}]
           X == {}
           E == {}
<1>2. /\ w.pc = "purge" /\ w \in Writes
      /\ UNCHANGED <<index, gens, copy, base, edits>> /\ chatLock' = chatLock
  BY DEF Purge, At, locks, Inv, TypeOK
<1>3. ch \in Chats /\ v.pc = "purge" /\ v.taken = w.taken
  <2> HIDE DEF w
  <2> QED
    BY <1>1, <1>2 DEF Writes, w
<1>4. /\ write'[c] = v
      /\ \A d \in Copies \ {c} : copy'[d] = copy[d] /\ base'[d] = base[d] /\ write'[d] = write[d]
  BY <1>1, <1>2 DEF Inv, TypeOK, Goto
<1>5. ~Is(ch, log)' /\ \A x \in Chats \ {ch} : log'[x] = log[x]
  BY <1>1, <1>3 DEF Inv, TypeOK
<1> HIDE DEF v
<1>6. ASSUME NEW x \in Chats
      PROVE  /\ Has(c, x)' = Has(c, x) /\ Unsaid(c, x)' = Unsaid(c, x)
             /\ ~Storing(c, x)' /\ ~Storing(c, x)
  <2>1. ~Storing(c, x)' /\ ~Storing(c, x)
    BY <1>2, <1>3, <1>4 DEF Storing, At
  <2>2. /\ Of(x, copy[c])' = Of(x, copy[c]) /\ Of(x, base[c])' = Of(x, base[c])
        /\ Of(x, write[c].taken)' = Of(x, write[c].taken)
        /\ Now(c, x)' = {} /\ Now(c, x) = {}
    BY <1>2, <1>3, <1>4, <2>1 DEF Of, Now
  <2> QED
    BY <1>2, <1>3, <1>4, <2>1, <2>2 DEF Has, Unsaid
<1>7. /\ TypeOK /\ edits <= edits' /\ edits' \in Nat
      /\ \A n \in E : n \in Nat /\ edits < n /\ n <= edits'
  BY <1>2 DEF Inv, TypeOK
<1> HIDE DEF E
<1>8. ASSUME NEW x \in Chats PROVE LogWell(x)' /\ Numbered(x)' /\ Apart(x)' /\ SpreadIn(x)
  <2>0. LogWell(x) /\ Numbered(x) /\ Apart(x)
    BY DEF OnceInv
  <2>1. InLog(x) \cap InTail(x) = {}
    BY <2>0 DEF Apart
  <2>2. /\ InLog(x)' \subseteq InLog(x) /\ InTail(x)' \subseteq InTail(x) /\ LogWell(x)'
    BY <1>2, <1>5, <2>0 DEF InLog, InTail, LogWell
  <2>3. /\ X \in SUBSET Has(c, x)
        /\ InLog(x)' \subseteq InLog(x) \cup InTail(x) \cup X
        /\ Has(c, x)' \subseteq Has(c, x) \cup InLog(x) \cup E
        /\ Unsaid(c, x)' \subseteq (Unsaid(c, x) \ X) \cup E
        /\ InTail(x)' \subseteq InTail(x) /\ InLog(x)' \cap InTail(x)' = {}
    BY <1>6, <2>1, <2>2
  <2> HIDE DEF X
  <2>4. \A d \in Copies \ {c} : Has(d, x)' = Has(d, x) /\ Unsaid(d, x)' = Unsaid(d, x)
    BY <1>4, SameHas
  <2>5. Apart(x)' /\ Numbered(x)' /\ SpreadIn(x)
    BY <1>7, <2>0, <2>3, <2>4, ApartKeeps
  <2> QED
    BY <2>2, <2>5
<1>9. ASSUME NEW x \in Chats
      PROVE  /\ Locked(c, x)' /\ OnceHeld(c, x)' /\ Snap(c, x)' /\ CutStands(c, x)'
             /\ Cut(c, x)' <=> Cut(c, x)
  <2>0. OnceHeld(c, x) /\ Snap(c, x) /\ CutStands(c, x)
    BY DEF OnceInv
  <2>1. Cut(c, x)' <=> Cut(c, x)
    BY <1>2, <1>6 DEF Cut, Loaded
  <2>2. Locked(c, x)' /\ OnceHeld(c, x)' /\ Snap(c, x)'
    BY <1>2, <1>3, <1>4, <1>6, <2>0
       DEF Locked, OnceHeld, OnceIn, Snap, Taking, Loaded, Of, At
  <2>3. CutStands(c, x)'
    BY <1>2, <1>5, <1>6, <2>0, <2>1 DEF CutStands
  <2> QED
    BY <2>1, <2>2, <2>3
<1>10. ASSUME NEW d \in Copies \ {c}, NEW x \in Chats
       PROVE  /\ chatLock[x] = d => chatLock'[x] = d /\ (Is(x, log) => Is(x, log)')
              /\ Cut(c, x)' => ~Cut(d, x)
              /\ Cut(d, x) => CutStands(d, x)'
  <2>0. CutStands(d, x) /\ ~(Cut(c, x) /\ Cut(d, x))
    BY DEF OnceInv, OneCut
  <2>1. Storing(d, x)' <=> Storing(d, x)
    BY <1>4 DEF Storing, At
  <2>2. Cut(d, x) => CutStands(d, x)'
    BY <1>2, <1>5, <2>0, <2>1 DEF CutStands
  <2>3. chatLock[x] = d => x # ch
    BY <1>1, StateStoreAssumption
  <2>4. chatLock[x] = d => chatLock'[x] = d /\ (Is(x, log) => Is(x, log)')
    BY <1>2, <1>5, <2>3
  <2> QED
    BY <1>9, <2>0, <2>2, <2>4
<1> QED
  BY <1>4, <1>7, <1>8, <1>9, <1>10, OneStep

-----------------------------------------------------------------------------
(* Crashes and edits.                                                        *)

\* What a crash tears was only the dead copy's to say.
LEMMA TornOnce ==
  ASSUME Inv, OnceInv, NEW c \in Copies, Crash(c), NEW ch \in Chats
  PROVE  /\ LogWell(ch)' /\ InLog(ch)' = InLog(ch) /\ InLog(ch) \cap InTail(ch)' = {}
         /\ InTail(ch)' \subseteq InTail(ch) \cup Unsaid(c, ch)
<1> DEFINE S == 1..MaxEdits
<1>0. /\ TypeOK /\ LogWell(ch) /\ Apart(ch) /\ OnceHeld(c, ch) /\ CutStands(c, ch)
      /\ InLog(ch) \cap InTail(ch) = {} /\ gens' = gens
  BY DEF Inv, OnceInv, Apart, Crash
<1>1. /\ Is(ch, log)' <=> Is(ch, log)
      /\ Is(ch, log) => log'[ch].msgs = log[ch].msgs
  BY TornIs DEF Inv
<1>2. InLog(ch)' = InLog(ch)
  BY <1>1 DEF InLog
<1>3. CASE log'[ch] = log[ch]
  BY <1>0, <1>3 DEF LogWell, InLog, InTail
<1>4. CASE log'[ch] # log[ch]
  <2> DEFINE w == write[c]
             b == base[c][ch]
             l == log[ch]
             out == Out(ch, b, w.now)
             add == Rest(out.log.msgs, Len(l.msgs))
  <2>1. /\ w.pc = "store" /\ w.chat = ch /\ Is(ch, log) /\ l.tail = <<>>
        /\ out.log.gen = l.gen /\ log' = [log EXCEPT ![ch].tail = add]
    <3>1. /\ w.pc = "store" /\ Is(w.chat, log) /\ log[w.chat].tail = <<>>
          /\ Out(w.chat, base[c][w.chat], w.now).log.gen = log[w.chat].gen
          /\ log' = [log EXCEPT ![w.chat].tail =
                       Rest(Out(w.chat, base[c][w.chat], w.now).log.msgs, Len(log[w.chat].msgs))]
      BY <1>4 DEF Crash, At
    <3>2. w.chat = ch
      BY <1>0, <1>4, <3>1 DEF TypeOK
    <3> QED
      BY <3>1, <3>2
  <2>2. Storing(c, ch)
    BY <2>1 DEF Storing, At
  <2>3. /\ l \in Logs(S) /\ l.gen <= gens[ch] /\ Once(l.msgs) /\ Once(w.now)
        /\ w.now \in Seq(S) /\ b.msgs \in Seq(S) /\ b.at \in Spots /\ b # None
        /\ gens[ch] \in Nat /\ l.gen \in Nat
    <3>1. b # None /\ b.msgs \in Seq(S) /\ w.now \in Seq(S) /\ b \in Held
      BY <1>0, <2>1, HeldIs DEF Inv, StoreInv, StoresHistories, At, Histories, TypeOK
    <3>2. b.at \in Spots
      BY <3>1 DEF Held
    <3> QED
      BY <1>0, <2>1, <2>2, <3>1, <3>2, HeldIs DEF LogWell, OnceHeld
  <2>4. Now(c, ch) = Messages(w.now) /\ Of(ch, base[c]) \subseteq Messages(b.msgs)
    BY <2>2, <2>3 DEF Now, Of
  <2>5. Messages(w.now) \subseteq Has(c, ch) /\ Messages(l.msgs) = InLog(ch)
    BY <2>1, <2>4 DEF Has, InLog
  <2>6. Messages(w.now) \ Messages(b.msgs) \subseteq Unsaid(c, ch)
    BY <2>3, <2>4 DEF Unsaid
  <2>7. Messages(l.msgs) \cap Messages(w.now) \subseteq Messages(b.msgs)
    BY <1>0, <2>5, <2>6 DEF Apart
  <2>8. Extends(w.now, b.msgs) \/ Extends(l.msgs, b.msgs)
    <3>1. b.msgs # None
      BY <2>3, HistoryIs DEF Histories
    <3> QED
      BY <1>0, <2>1, <2>2, <2>3, <3>1 DEF CutStands, Cut
  <2>9. NextGen(ch) \in Nat \ {0} /\ NextGen(ch) # l.gen
    BY <2>3 DEF NextGen
  <2> DEFINE now == out.log
  <2>10. now = StoreTranscript(l, b, w.now, NextGen(ch)).log
    BY <2>1 DEF Out
  <2>11. now.gen = l.gen /\ add = Rest(now.msgs, Len(l.msgs))
    BY <2>1
  <2> HIDE DEF now, l, b, w, S
  <2>12. StoredAs(S, l, b.msgs, w.now, NextGen(ch), now)
    BY <2>3, <2>7, <2>9, <2>10, StoreIs
  <2>13. \A all : now # Rewritten(NextGen(ch), all)
    BY <2>9, <2>11 DEF Rewritten
  <2>14. PICK a \in Seq(S) :
           /\ now = Appended(l, a) /\ Once(a)
           /\ Messages(a) \cap Messages(l.msgs) = {}
           /\ Messages(a) \subseteq Messages(w.now)
           /\ Messages(a) \cap Messages(b.msgs) = {}
    BY <2>8, <2>12, <2>13 DEF StoredAs
  <2>15. add = a
    BY <2>1, <2>3, <2>11, <2>14, AppendedIs
  <2>16. log'[ch].tail = a /\ log'[ch].gen = l.gen /\ log'[ch].msgs = l.msgs
    <3>1. log'[ch] = [l EXCEPT !.tail = add]
      BY <1>0, <2>1 DEF TypeOK, l
    <3>2. l = [gen |-> l.gen, msgs |-> l.msgs, tail |-> l.tail]
      BY <2>3 DEF Logs
    <3> HIDE DEF add
    <3> QED
      BY <2>15, <3>1, <3>2
  <2>17. InTail(ch)' = Messages(a)
    BY <1>1, <2>1, <2>16 DEF InTail
  <2>18. LogWell(ch)'
    BY <1>0, <2>3, <2>14, <2>16 DEF LogWell
  <2>19. InTail(ch)' \subseteq Unsaid(c, ch) /\ InLog(ch) \cap InTail(ch)' = {}
    BY <2>5, <2>6, <2>14, <2>17
  <2> QED
    BY <1>2, <2>18, <2>19
<1> QED
  BY <1>3, <1>4

\* A process dies, and what it had with it, but for a torn record.
LEMMA CrashOnce ==
  ASSUME Inv, OnceInv, NEW c \in Copies, Crash(c)
  PROVE  OnceInv' /\ Spreads
<1>1. /\ UNCHANGED <<index, gens, edits>> /\ Goto(c, Closed) /\ LetGo(c)
      /\ copy' = [copy EXCEPT ![c] = NoChats] /\ base' = [base EXCEPT ![c] = NoChats]
  BY DEF Crash
<1>2. /\ write'[c] = Closed /\ copy'[c] = NoChats /\ base'[c] = NoChats
      /\ \A d \in Copies \ {c} : copy'[d] = copy[d] /\ base'[d] = base[d] /\ write'[d] = write[d]
  BY <1>1 DEF Inv, TypeOK, Goto
<1>3. ASSUME NEW ch \in Chats
      PROVE  /\ Has(c, ch)' = {} /\ Unsaid(c, ch)' = {} /\ ~Cut(c, ch)'
             /\ Locked(c, ch)' /\ OnceHeld(c, ch)' /\ Snap(c, ch)' /\ CutStands(c, ch)'
  <2>1. /\ ~Is(ch, copy'[c]) /\ ~Is(ch, base'[c]) /\ ~Is(ch, write'[c].taken)
        /\ ~Storing(c, ch)' /\ ~At(c, "files")'
    BY <1>2, NoWriteTook, NoWriteIs DEF NoChats, Storing, At
  <2>2. Has(c, ch)' = {} /\ Unsaid(c, ch)' = {}
    BY <2>1 DEF Has, Unsaid, Of, Now
  <2> QED
    BY <2>1, <2>2 DEF Cut, Locked, OnceHeld, OnceIn, Snap, Loaded, CutStands
<1>4. ASSUME NEW ch \in Chats PROVE LogWell(ch)' /\ Numbered(ch)' /\ Apart(ch)' /\ SpreadIn(ch)
  <2>0. Numbered(ch) /\ Apart(ch) /\ edits' = edits
    BY <1>1 DEF OnceInv
  <2>1. /\ LogWell(ch)' /\ InLog(ch)' = InLog(ch) /\ InLog(ch) \cap InTail(ch)' = {}
        /\ InTail(ch)' \subseteq InTail(ch) \cup Unsaid(c, ch)
    BY TornOnce
  <2>2. \A d \in Copies \ {c} : Has(d, ch)' = Has(d, ch) /\ Unsaid(d, ch)' = Unsaid(d, ch)
    BY <1>2, SameHas
  <2>3. Has(c, ch)' = {} /\ Unsaid(c, ch)' = {}
    BY <1>3
  <2>4. Unsaid(c, ch) \subseteq Has(c, ch)
    BY DEF Unsaid, Has
  <2>5. Numbered(ch)'
    <3>1. InLog(ch)' \cup InTail(ch)' \subseteq 0..edits'
      BY <2>0, <2>1, <2>4 DEF Numbered
    <3>2. \A d \in Copies : Has(d, ch)' \subseteq 0..edits'
      BY <2>0, <2>2, <2>3 DEF Numbered
    <3> QED
      BY <3>1, <3>2 DEF Numbered
  <2>6. ASSUME NEW n \in InTail(ch)' PROVE n \notin InLog(ch)' /\ \A d \in Copies : n \notin Has(d, ch)'
    BY <2>0, <2>1, <2>2, <2>3, <2>6 DEF Apart
  <2>7. ASSUME NEW d \in Copies, NEW n \in Unsaid(d, ch)'
        PROVE  n \notin InLog(ch)' /\ \A e \in Copies \ {d} : n \notin Has(e, ch)'
    <3>1. d # c /\ n \in Unsaid(d, ch)
      BY <2>2, <2>3, <2>7
    <3> QED
      BY <2>0, <2>1, <2>2, <2>3, <3>1 DEF Apart
  <2>8. Apart(ch)'
    BY <2>6, <2>7 DEF Apart
  <2>9. SpreadIn(ch)
    <3>1. \A d \in Copies : Has(d, ch)' \subseteq Has(d, ch) /\ Unsaid(d, ch)' \subseteq Unsaid(d, ch)
      BY <2>2, <2>3
    <3>2. Everywhere(ch)' \subseteq Everywhere(ch)
      BY <2>1, <2>4, <3>1 DEF Everywhere
    <3>3. Yet(ch)' \subseteq Yet(ch)
      BY <2>1, <3>1 DEF Yet
    <3> QED
      BY <3>2, <3>3 DEF SpreadIn
  <2> QED
    BY <2>1, <2>5, <2>8, <2>9
<1>5. ASSUME NEW d \in Copies \ {c}, NEW ch \in Chats
      PROVE  /\ chatLock[ch] = d => chatLock'[ch] = d /\ (Is(ch, log) => Is(ch, log)')
             /\ Cut(c, ch)' => ~Cut(d, ch)
             /\ Cut(d, ch) => CutStands(d, ch)'
  <2>0. CutStands(d, ch)
    BY DEF OnceInv
  <2>1. /\ Is(ch, log)' <=> Is(ch, log)
        /\ Is(ch, log) => log'[ch].msgs = log[ch].msgs
    BY TornIs DEF Inv
  <2>2. Storing(d, ch)' <=> Storing(d, ch)
    BY <1>2 DEF Storing, At
  <2>3. Cut(d, ch) => CutStands(d, ch)'
    BY <1>1, <1>2, <2>0, <2>1, <2>2 DEF CutStands
  <2>4. chatLock[ch] = d => chatLock'[ch] = d
    BY <1>1 DEF LetGo
  <2> QED
    BY <1>3, <2>1, <2>3, <2>4
<1> QED
  BY <1>2, <1>3, <1>4, <1>5, OneStep DEF Inv

\* An edit of one chat: one message more, one less of a history it alone
\* rewrites, the first of a chat nobody has, or none.
LEMMA EditOnce ==
  ASSUME Inv, OnceInv, ~StaleUndo, NEW c \in Copies, NEW ch \in Chats, NEW row,
         EditedTo(c, ch, row)
  PROVE  OnceInv' /\ Spreads
<1> USE DEF disk, locks
<1> DEFINE E == {n \in Nat : edits < n /\ n <= edits'}
           X == {}
           old == copy[c][ch]
           S == 1..MaxEdits
<1>0. /\ TypeOK /\ edits \in Nat /\ edits' \in Nat /\ edits <= edits'
      /\ edits' \in 0..MaxEdits
      /\ LogWell(ch) /\ Numbered(ch) /\ Apart(ch)
      /\ Locked(c, ch) /\ OnceHeld(c, ch) /\ Snap(c, ch)
  BY DEF Inv, TypeOK, OnceInv, EditedTo
<1>1. /\ copy' = [copy EXCEPT ![c][ch] = row]
      /\ UNCHANGED <<index, log, gens, chatLock, base, write>>
  BY DEF EditedTo, Edit
<1>2. /\ copy'[c][ch] = row
      /\ \A d \in Copies, x \in Chats : d # c \/ x # ch => copy'[d][x] = copy[d][x]
      /\ \A d \in Copies \ {c} : copy'[d] = copy[d] /\ base'[d] = base[d] /\ write'[d] = write[d]
  BY <1>1 DEF Inv, TypeOK
<1>3. \A d \in Copies, x \in Chats :
        /\ Storing(d, x)' <=> Storing(d, x)
        /\ Of(x, base[d])' = Of(x, base[d]) /\ Of(x, write[d].taken)' = Of(x, write[d].taken)
        /\ Now(d, x)' = Now(d, x)
  BY <1>1 DEF Storing, At, Of, Now
<1>4. Of(ch, copy[c])' = IF row # None /\ row.msgs # None THEN Messages(row.msgs) ELSE {}
  BY <1>2 DEF Of
<1>5. \A n \in Has(c, ch) : n \notin E
  BY <1>0 DEF Numbered
<1> HIDE DEF E
\* It is enough to see what the copy has after it.
<1>6. ASSUME Of(ch, copy[c])' \subseteq Of(ch, copy[c]) \cup E
      PROVE  /\ Has(c, ch)' \subseteq Has(c, ch) \cup E
             /\ Unsaid(c, ch)' \subseteq Unsaid(c, ch) \cup E
  BY <1>1, <1>3, <1>6 DEF Has, Unsaid
<1> DEFINE Fits == /\ Of(ch, copy[c])' \subseteq Of(ch, copy[c]) \cup E
                   /\ row # None /\ row.msgs # None => Once(row.msgs)
                   /\ Snap(c, ch)'
                   /\ Cut(c, ch)' =>
                        \/ Cut(c, ch)
                        \/ /\ Is(ch, log) /\ Extends(log[ch].msgs, base[c][ch].msgs)
                           /\ \A d \in Copies \ {c} : ~Cut(d, ch)
<1>7. ASSUME row = None PROVE Fits
  <2>1. ~Loaded(c, ch)'
    BY <1>2, <1>7 DEF Loaded
  <2>2. Cut(c, ch)' => Cut(c, ch)
    BY <1>1, <1>3, <2>1 DEF Cut
  <2>3. Of(ch, copy[c])' \subseteq Of(ch, copy[c]) \cup E
    BY <1>4, <1>7
  <2> QED
    BY <1>7, <2>1, <2>2, <2>3 DEF Snap
<1>8. ASSUME row # None, Is(ch, copy[c]), row.msgs = old.msgs PROVE Fits
  <2>1. Of(ch, copy[c])' = Of(ch, copy[c]) /\ (Loaded(c, ch)' <=> Loaded(c, ch))
    BY <1>2, <1>4, <1>8 DEF Of, Loaded
  <2>2. copy'[c][ch].msgs = copy[c][ch].msgs
    BY <1>2, <1>8
  <2>3. Cut(c, ch)' => Cut(c, ch)
    BY <1>1, <1>3, <2>1, <2>2 DEF Cut
  <2>4. Snap(c, ch)'
    BY <1>0, <1>1, <1>3, <2>1, <2>2 DEF Snap, Taking
  <2>5. row.msgs # None => Once(row.msgs)
    BY <1>0, <1>8 DEF OnceHeld, OnceIn
  <2> QED
    BY <2>1, <2>3, <2>4, <2>5
<1>9. ASSUME row # None, Loaded(c, ch), edits' = edits + 1,
             row.msgs = Append(old.msgs, edits + 1)
      PROVE  Fits
  <2> DEFINE e == edits + 1
  <2>1. e \in S /\ e \in E /\ e \notin Has(c, ch)
    BY <1>0, <1>5, <1>9 DEF E
  <2>2. old.msgs \in Seq(S) /\ Once(old.msgs) /\ Of(ch, copy[c]) = Messages(old.msgs)
    BY <1>0, <1>9, HeldIs DEF Loaded, Histories, OnceHeld, OnceIn, Of
  <2>3. e \notin Messages(old.msgs) /\ e \notin Of(ch, base[c])
    BY <2>1, <2>2 DEF Has
  <2>4. row.msgs = Append(old.msgs, e)
    BY <1>9
  <2> HIDE DEF e, S
  <2>5. /\ Once(row.msgs) /\ Extends(row.msgs, old.msgs) /\ row.msgs \in Seq(S)
        /\ \A n \in Messages(row.msgs) : n \in Messages(old.msgs) \/ n = e
    BY <2>1, <2>2, <2>3, <2>4, OneMore, OneMoreOnce, ExtendsMore
  <2>6. row.msgs # None /\ copy'[c][ch].msgs = row.msgs /\ Loaded(c, ch)'
    <3>1. row.msgs \in Histories
      BY <2>5 DEF Histories, S
    <3> QED
      BY <1>2, <1>9, <3>1, HistoryIs DEF Loaded
  <2>7. Of(ch, copy[c])' \subseteq Of(ch, copy[c]) \cup {e}
    BY <1>4, <1>9, <2>2, <2>5
  <2>8. \A p \in Seq(S) : Extends(old.msgs, p) => Extends(row.msgs, p)
    BY <2>2, <2>5, ExtendsMore
  <2>9. Cut(c, ch)' => Cut(c, ch)
    <3>1. Is(ch, base[c]) /\ base[c][ch].msgs # None => base[c][ch].msgs \in Seq(S)
      BY <1>0, HeldIs DEF Histories, S
    <3> QED
      BY <1>1, <1>3, <1>9, <2>6, <2>8, <3>1 DEF Cut
  <2>10. \A msgs \in Seq(S) : Taking(c, ch, msgs) => Taking(c, ch, msgs)'
    BY <1>3, <2>3, <2>6, <2>7, <2>8 DEF Taking
  <2>11. Snap(c, ch)'
    <3>1. /\ write[c].now \in Seq(S)
          /\ Is(ch, write[c].taken) /\ write[c].taken[ch].msgs # None
               => write[c].taken[ch].msgs \in Seq(S)
      BY <1>0, HeldIs DEF Histories, S
    <3>2. Storing(c, ch) => Taking(c, ch, write[c].now)
      BY <1>0, <1>9 DEF Snap
    <3>3. Storing(c, ch)' => Taking(c, ch, write[c].now)'
      BY <1>1, <1>3, <2>10, <3>1, <3>2 DEF Taking
    <3>4. Is(ch, write[c].taken) =>
            \/ Is(ch, base[c]) /\ write[c].taken[ch].msgs = base[c][ch].msgs
            \/ Taking(c, ch, write[c].taken[ch].msgs)
      BY <1>0, <1>9 DEF Snap
    <3>5. Is(ch, write[c].taken) /\ Taking(c, ch, write[c].taken[ch].msgs)
            => Taking(c, ch, write[c].taken[ch].msgs)'
      BY <1>1, <2>10, <3>1 DEF Taking
    <3> QED
      BY <1>1, <3>3, <3>4, <3>5 DEF Snap
  <2> QED
    BY <2>1, <2>5, <2>7, <2>9, <2>11
<1>10. ASSUME ~Is(ch, copy[c]), edits' = edits + 1, row # None, row.msgs = <<edits + 1>>
       PROVE  Fits
  <2>1. gens[ch] = 0 /\ ch \notin deleted
    BY <1>10 DEF EditedTo
  <2>2. ~Is(ch, base[c]) /\ ~Is(ch, write[c].taken) /\ ~Storing(c, ch)
    <3>1. ~Is(ch, base[c])
      BY <2>1 DEF Inv, StoreInv, Unstored
    <3>2. ~Is(ch, write[c].taken)
      BY <1>10, <2>1 DEF Inv, OwedInv, MadeByOne
    <3>3. ~Storing(c, ch)
      BY <3>1 DEF Inv, StoreInv, StoresHistories, Storing
    <3> QED
      BY <3>1, <3>2, <3>3
  <2>3. Messages(row.msgs) = {edits + 1} /\ Once(row.msgs) /\ edits + 1 \in E
    BY <1>0, <1>10 DEF Messages, Once, E
  <2>4. ~Cut(c, ch)' /\ Snap(c, ch)'
    BY <1>1, <1>3, <2>2 DEF Cut, Snap
  <2>5. Of(ch, copy[c])' \subseteq E
    BY <1>4, <2>3
  <2> QED
    BY <2>3, <2>4, <2>5
<1>11. ASSUME row # None, Loaded(c, ch), SeesAll(c, ch),
              row.msgs = SubSeq(old.msgs, 1, Len(old.msgs) - 1)
       PROVE  Fits
  <2>1. /\ write[c].pc = "idle" /\ Is(ch, base[c]) /\ Is(ch, log)
        /\ Extends(log[ch].msgs, base[c][ch].msgs)
    BY <1>11 DEF SeesAll, At
  <2>2. \A d \in Copies \ {c} : ~Cut(d, ch)
    BY <1>11 DEF SeesAll, Cut, Known, Loaded, Storing
  <2>3. ~Storing(c, ch) /\ ~Is(ch, write[c].taken)
    BY <2>1 DEF Storing, At, Inv, OwedInv, LetGoOf
  <2>4. old.msgs \in Seq(S) /\ Once(old.msgs) /\ Of(ch, copy[c]) = Messages(old.msgs)
    BY <1>0, <1>11, HeldIs DEF Loaded, Histories, OnceHeld, OnceIn, Of
  <2> HIDE DEF old, S
  <2>5. Once(row.msgs) /\ Messages(row.msgs) \subseteq Messages(old.msgs)
    BY <1>11, <2>4, OneMoreOnce, ButLast
  <2>6. Of(ch, copy[c])' \subseteq Of(ch, copy[c]) \cup E
    BY <1>4, <2>4, <2>5
  <2>7. Snap(c, ch)'
    BY <1>1, <1>3, <2>3 DEF Snap
  <2> QED
    BY <2>1, <2>2, <2>5, <2>6, <2>7
<1>12. Fits
  <2>1. row # None => SaidNow(c, ch, row.msgs)
    BY DEF EditedTo
  <2> HIDE DEF Fits
  <2> QED
    BY <1>7, <1>8, <1>9, <1>10, <1>11, <2>1 DEF SaidNow
<1>13. \A n \in E : n \in Nat /\ edits < n /\ n <= edits'
  BY DEF E
<1>14. ASSUME NEW x \in Chats PROVE LogWell(x)' /\ Numbered(x)' /\ Apart(x)' /\ SpreadIn(x)
  <2>0. LogWell(x) /\ Numbered(x) /\ Apart(x)
    BY DEF OnceInv
  <2>1. /\ InLog(x)' = InLog(x) /\ InTail(x)' = InTail(x) /\ LogWell(x)'
        /\ InLog(x) \cap InTail(x) = {}
    BY <1>1, <2>0 DEF InLog, InTail, LogWell, Apart
  <2>2. \A d \in Copies \ {c} : Has(d, x)' = Has(d, x) /\ Unsaid(d, x)' = Unsaid(d, x)
    BY <1>2, SameHas
  <2>3. Has(c, x)' \subseteq Has(c, x) \cup E /\ Unsaid(c, x)' \subseteq Unsaid(c, x) \cup E
    <3>1. CASE x = ch
      BY <1>6, <1>12, <3>1
    <3>2. CASE x # ch
      <4>1. Of(x, copy[c])' = Of(x, copy[c])
        BY <1>2, <3>2 DEF Of
      <4> QED
        BY <1>1, <1>3, <4>1 DEF Has, Unsaid
    <3> QED
      BY <3>1, <3>2
  <2>4. /\ X \in SUBSET Has(c, x)
        /\ InLog(x)' \subseteq InLog(x) \cup InTail(x) \cup X
        /\ Has(c, x)' \subseteq Has(c, x) \cup InLog(x) \cup E
        /\ Unsaid(c, x)' \subseteq (Unsaid(c, x) \ X) \cup E
        /\ InTail(x)' \subseteq InTail(x) /\ InLog(x)' \cap InTail(x)' = {}
    BY <2>1, <2>3
  <2> HIDE DEF X
  <2>5. Apart(x)' /\ Numbered(x)' /\ SpreadIn(x)
    BY <1>0, <1>13, <2>0, <2>2, <2>4, ApartKeeps
  <2> QED
    BY <2>1, <2>5
<1>15. ASSUME NEW x \in Chats
       PROVE  /\ Locked(c, x)' /\ OnceHeld(c, x)' /\ Snap(c, x)'
              /\ Cut(c, x)' =>
                   \/ Cut(c, x)
                   \/ /\ Is(x, log) /\ Extends(log[x].msgs, base[c][x].msgs)
                      /\ \A d \in Copies \ {c} : ~Cut(d, x)
  <2>0. Locked(c, x) /\ OnceHeld(c, x) /\ Snap(c, x)
    BY DEF OnceInv
  <2>1. Locked(c, x)'
    BY <1>1, <1>3, <2>0 DEF Locked, At
  <2>2. CASE x = ch
    <3>1. OnceHeld(c, x)'
      BY <1>1, <1>2, <1>3, <1>12, <2>0, <2>2 DEF OnceHeld, OnceIn
    <3> QED
      BY <1>12, <2>1, <2>2, <3>1
  <2>3. CASE x # ch
    <3>1. copy'[c][x] = copy[c][x] /\ Of(x, copy[c])' = Of(x, copy[c])
      BY <1>2, <2>3 DEF Of
    <3>2. OnceHeld(c, x)'
      BY <1>1, <1>3, <2>0, <3>1 DEF OnceHeld, OnceIn
    <3>3. Snap(c, x)'
      BY <1>1, <1>3, <2>0, <3>1 DEF Snap, Taking, Loaded
    <3>4. Cut(c, x)' => Cut(c, x)
      BY <1>1, <1>3, <3>1 DEF Cut, Loaded
    <3> QED
      BY <2>1, <3>2, <3>3, <3>4
  <2> QED
    BY <2>2, <2>3
<1> HIDE DEF Fits
<1>16. ASSUME NEW x \in Chats PROVE CutStands(c, x)'
  <2>1. CutStands(c, x)
    BY DEF OnceInv
  <2> QED
    BY <1>1, <1>3, <1>15, <2>1 DEF CutStands
<1>17. ASSUME NEW d \in Copies \ {c}, NEW x \in Chats
       PROVE  /\ chatLock[x] = d => chatLock'[x] = d /\ (Is(x, log) => Is(x, log)')
              /\ Cut(c, x)' => ~Cut(d, x)
              /\ Cut(d, x) => CutStands(d, x)'
  <2>1. CutStands(d, x) /\ ~(Cut(c, x) /\ Cut(d, x))
    BY DEF OnceInv, OneCut
  <2>2. Cut(d, x) => CutStands(d, x)'
    BY <1>1, <1>3, <2>1 DEF CutStands
  <2> QED
    BY <1>1, <1>15, <2>1, <2>2
<1> QED
  BY <1>0, <1>2, <1>14, <1>15, <1>16, <1>17, OneStep

LEMMA EditingOnce ==
  ASSUME Inv, OnceInv, ~StaleUndo, NEW c \in Copies, Editing(c)
  PROVE  OnceInv' /\ Spreads
<1>1. \E ch \in Chats : \E row : EditedTo(c, ch, row)
  BY EditingIs DEF Inv
<1> QED
  BY <1>1, EditOnce

-----------------------------------------------------------------------------
(* The theorem.                                                              *)

LEMMA StaysOnce ==
  ASSUME Inv, OnceInv, ~StaleUndo, [Next]_vars
  PROVE  OnceInv' /\ Spreads
<1>1. CASE UNCHANGED vars
  <2>1. UNCHANGED <<index, log, gens, chatLock, copy, base, write, edits>>
    BY <1>1 DEF vars, disk, locks
  <2>2. \A c \in Copies, ch \in Chats :
          /\ Of(ch, copy[c])' = Of(ch, copy[c]) /\ Of(ch, base[c])' = Of(ch, base[c])
          /\ Of(ch, write[c].taken)' = Of(ch, write[c].taken)
          /\ Storing(c, ch)' = Storing(c, ch) /\ Loaded(c, ch)' = Loaded(c, ch)
    BY <2>1 DEF Of, Storing, At, Loaded
  <2>3. \A c \in Copies, ch \in Chats :
          /\ Has(c, ch)' = Has(c, ch) /\ Unsaid(c, ch)' = Unsaid(c, ch)
          /\ Cut(c, ch)' <=> Cut(c, ch)
    BY <2>1, <2>2 DEF Has, Unsaid, Now, Cut
  <2>4. \A ch \in Chats : InLog(ch)' = InLog(ch) /\ InTail(ch)' = InTail(ch)
    BY <2>1 DEF InLog, InTail
  <2>5. ASSUME NEW ch \in Chats PROVE LogWell(ch)' /\ Numbered(ch)' /\ Apart(ch)' /\ SpreadIn(ch)
    <3>1. LogWell(ch) /\ Numbered(ch) /\ Apart(ch)
      BY DEF OnceInv
    <3>2. LogWell(ch)' /\ Numbered(ch)'
      BY <2>1, <2>3, <2>4, <3>1 DEF LogWell, Numbered
    <3>3. Apart(ch)'
      BY <2>3, <2>4, <3>1 DEF Apart
    <3>4. SpreadIn(ch)
      BY <2>3, <2>4 DEF SpreadIn, Everywhere, Yet
    <3> QED
      BY <3>2, <3>3, <3>4
  <2>6. ASSUME NEW c \in Copies, NEW ch \in Chats
        PROVE  Locked(c, ch)' /\ OnceHeld(c, ch)' /\ Snap(c, ch)' /\ CutStands(c, ch)'
    <3>1. Locked(c, ch) /\ OnceHeld(c, ch) /\ Snap(c, ch) /\ CutStands(c, ch)
      BY DEF OnceInv
    <3> QED
      BY <2>1, <2>2, <2>3, <3>1
         DEF Locked, OnceHeld, OnceIn, Snap, Taking, CutStands, At
  <2>7. OneCut'
    BY <2>3 DEF OnceInv, OneCut
  <2> QED
    BY <2>5, <2>6, <2>7 DEF OnceInv, Spreads
<1>2. CASE Next
  <2>1. PICK c \in Copies :
          \/ ReadIndex(c) \/ ReadLogs(c) \/ Editing(c)
          \/ Begin(c) \/ Writing(c) \/ \E ch \in Chats : Checkpoint(c, ch)
          \/ Fail(c) \/ Crash(c)
    BY <1>2 DEF Next
  <2>2. CASE ReadIndex(c) \/ ReadLogs(c)
    BY <2>2, ReadIndexOnce, ReadLogsOnce
  <2>3. CASE Editing(c)
    BY <2>3, EditingOnce
  <2>4. CASE Begin(c)
    BY <2>4, BeginOnce
  <2>5. CASE \E ch \in Chats : Checkpoint(c, ch)
    BY <2>5, CheckpointOnce
  <2>6. CASE Fail(c)
    BY <2>6, FailOnce
  <2>7. CASE Crash(c)
    BY <2>7, CrashOnce
  <2>8. CASE Writing(c)
    <3>1. CASE OwnNext(c)
      BY <3>1, OwnNextOnce
    <3>2. CASE StoreOwn(c)
      BY <3>2, StoreOwnOnce
    <3>3. CASE TakeState(c)
      BY <3>3, TakeStateOnce
    <3>4. CASE StoreFile(c)
      BY <3>4, StoreFileOnce
    <3>5. CASE StoreIndex(c)
      BY <3>5, StoreIndexOnce
    <3>6. CASE Purge(c)
      BY <3>6, PurgeOnce
    <3>7. CASE Finish(c)
      BY <3>7, FinishOnce
    <3>8. CASE Later(c)
      BY <3>8, LaterOnce
    <3>9. CASE End(c)
      BY <3>9, EndOnce
    <3> QED
      BY <2>8, <3>1, <3>2, <3>3, <3>4, <3>5, <3>6, <3>7, <3>8, <3>9 DEF Writing
  <2> QED
    BY <2>1, <2>2, <2>3, <2>4, <2>5, <2>6, <2>7, <2>8
<1> QED
  BY <1>1, <1>2

\* No message is in a log twice, however two copies' appends, rewrites, failed
\* writes and torn records met there (storeTranscript, appendChatLog), when
\* history is undone only by a copy that has seen all of it: a message is in a
\* log, or torn after it, or some copy's still to say, and of no two.
THEOREM NoMessageTwice ==
  ASSUME ~StaleUndo
  PROVE  Spec => []NoneTwice
<1>1. Inv /\ OnceInv => NoneTwice
  <2> SUFFICES ASSUME Inv, OnceInv, NEW ch \in Chats, Is(ch, log),
                      NEW i \in DOMAIN log[ch].msgs, NEW j \in DOMAIN log[ch].msgs,
                      log[ch].msgs[i] = log[ch].msgs[j]
               PROVE  i = j
    BY DEF NoneTwice
  <2>1. Once(log[ch].msgs)
    BY DEF OnceInv, LogWell
  <2>2. log[ch].msgs \in Seq(1..MaxEdits)
    BY DEF Inv, TypeOK, Logs
  <2>3. i \in 1..Len(log[ch].msgs) /\ j \in 1..Len(log[ch].msgs)
    BY <2>2
  <2> QED
    BY <2>1, <2>3 DEF Once
<1>2. Inv /\ OnceInv /\ [Next]_vars => OnceInv'
  BY StaysOnce
<1> QED
  BY <1>1, <1>2, StartsOnce, AllInvariant, PTL DEF Spec

-----------------------------------------------------------------------------
(* The inductive invariant behind ImplementsStore.                           *)

\* The title and the queued turns of a row, wherever it is.
RowItems(ch, row) ==
  IF row = None THEN {}
  ELSE {Item(ch, "title", n) : n \in {row.title} \ {0}}
         \cup {Item(ch, "queued", n) : n \in row.queue}

RowHas(c, ch) ==
  RowItems(ch, copy[c][ch]) \cup RowItems(ch, base[c][ch])
    \cup RowItems(ch, write[c].taken[ch]) \cup RowItems(ch, write[c].next[ch])

\* What a copy and its write go on from: the base, or what was stored in its
\* place; and what they have beyond it, which no index had.
From(c, ch) ==
  IF At(c, "purge") \/ ~Is(ch, base[c]) THEN write[c].taken[ch] ELSE base[c][ch]
RowYet(c, ch) ==
  IF From(c, ch) = None THEN {}
  ELSE (RowItems(ch, copy[c][ch]) \cup RowItems(ch, write[c].taken[ch]))
         \ RowItems(ch, From(c, ch))

RowApart(ch) ==
  \A c \in Copies :
    /\ RowHas(c, ch) \subseteq made /\ RowYet(c, ch) \cap stored = {}
    /\ \A d \in Copies \ {c} : RowYet(c, ch) \cap RowHas(d, ch) = {}

\* A row that goes on from another has a title of its own if not that one, and
\* lacks of its queue what was taken out.
Follows(ch, old, new) ==
  old # None /\ new # None =>
    /\ new.title # old.title => new.title # 0
    /\ \A n \in old.queue \ new.queue : Item(ch, "queued", n) \in dropped

\* A chat a base or a write has and its copy has not was deleted; what is to be
\* stored is what was taken, merged into the index there is; and the copy gets
\* nothing back it had before that.
RowWell(c, ch) ==
  /\ Knows(c, ch) \/ Is(ch, write[c].next) => Item(ch, "chat", 0) \in made
  /\ Is(ch, base[c]) \/ Is(ch, write[c].taken) => Is(ch, copy[c]) \/ ch \in deleted
  /\ At(c, "files") =>
       /\ write[c].next[ch] = MergedRow(base[c][ch], write[c].taken[ch], index[ch])
       /\ Is(ch, base[c]) /\ ~Is(ch, write[c].taken) => ch \in deleted
  /\ Follows(ch, From(c, ch), copy[c][ch])
  /\ Follows(ch, From(c, ch), write[c].taken[ch])
  /\ Follows(ch, write[c].taken[ch], copy[c][ch])
  /\ Is(ch, write[c].taken) =>
       RowItems(ch, copy[c][ch]) \cap RowItems(ch, From(c, ch))
         \subseteq RowItems(ch, write[c].taken[ch])

\* What a base has of the messages and its copy, or what is being stored of it,
\* has not was taken out.
Taken(ch, S) == \A n \in S : Item(ch, "message", n) \in dropped
Lost(c, ch) ==
  Is(ch, base[c]) =>
    /\ Loaded(c, ch) => Taken(ch, Of(ch, base[c]) \ Of(ch, copy[c]))
    /\ Storing(c, ch) => Taken(ch, Of(ch, base[c]) \ Now(c, ch))

SaidWell(ch) ==
  /\ \A n \in Everywhere(ch) : Item(ch, "message", n) \in made
  /\ \A n \in Yet(ch) : Item(ch, "message", n) \notin stored

MadeWell ==
  /\ stored \subseteq made /\ \A i \in stored : Had(i.chat)
  /\ \A i \in made : i \in Promised!Items /\ i.n <= edits

PromiseInv ==
  /\ MadeWell
  /\ \A ch \in Chats : SaidWell(ch) /\ RowApart(ch)
  /\ \A c \in Copies, ch \in Chats : RowWell(c, ch) /\ Lost(c, ch)
All == Inv /\ OnceInv /\ PromiseInv

-----------------------------------------------------------------------------
(* What a reader finds.                                                      *)

\* What a reader finds, for any index and logs: of each listed chat the chat, its
\* row and the messages of its log.
LEMMA FoundIs ==
  ASSUME NEW rows, NEW logs \in [Chats -> {None} \cup Logs(1..MaxEdits)],
         \A x \in Chats : rows[x] # None => logs[x] # None,
         NEW found, NEW i,
         i \in found <=>
           \E x \in Chats :
             /\ rows[x] # None
             /\ i \in ItemsOf(x, rows[x], IF logs[x] = None THEN <<>> ELSE logs[x].msgs)
  PROVE  i \in found <=>
           \E ch \in Chats :
             /\ rows[ch] # None
             /\ \/ i = Item(ch, "chat", 0) \/ i \in RowItems(ch, rows[ch])
                \/ \E n \in Messages(logs[ch].msgs) : i = Item(ch, "message", n)
<1> DEFINE said(x) == IF logs[x] = None THEN <<>> ELSE logs[x].msgs
           items(x) == ItemsOf(x, rows[x], said(x))
<1>1. i \in found <=> \E x \in Chats : rows[x] # None /\ i \in items(x)
  OBVIOUS
<1>2. ASSUME NEW ch \in Chats, rows[ch] # None
      PROVE  i \in items(ch) <=>
               \/ i = Item(ch, "chat", 0) \/ i \in RowItems(ch, rows[ch])
               \/ \E n \in Messages(logs[ch].msgs) : i = Item(ch, "message", n)
  <2>1. logs[ch] \in Logs(1..MaxEdits) /\ logs[ch] # None
    BY <1>2
  <2>2. said(ch) = logs[ch].msgs /\ DOMAIN logs[ch].msgs = 1..Len(logs[ch].msgs)
    BY <2>1 DEF Logs
  <2> HIDE DEF said
  <2>3. items(ch) = {Item(ch, "chat", 0)} \cup RowItems(ch, rows[ch])
                      \cup {Item(ch, "message", said(ch)[j]) : j \in DOMAIN said(ch)}
    BY <1>2 DEF ItemsOf, RowItems
  <2>4. (\E j \in DOMAIN said(ch) : i = Item(ch, "message", said(ch)[j]))
          <=> \E n \in Messages(logs[ch].msgs) : i = Item(ch, "message", n)
    BY <2>2 DEF Messages
  <2> HIDE DEF items
  <2> QED
    BY <2>3, <2>4
<1> HIDE DEF items
<1> QED
  BY <1>1, <1>2

\* The items of a row are its titles and queued turns.
LEMMA RowItemIs ==
  ASSUME NEW ch, NEW row, NEW i \in RowItems(ch, row)
  PROVE  i.chat = ch /\ i.kind \in {"title", "queued"}
BY DEF RowItems, Item

\* The disk before a step and after it.
OnDiskHas(ch, i) ==
  /\ Is(ch, index)
  /\ \/ i = Item(ch, "chat", 0) \/ i \in RowItems(ch, index[ch])
     \/ \E n \in InLog(ch) : i = Item(ch, "message", n)

LEMMA DiskHas ==
  ASSUME TypeOK, ListedIsReadable
  PROVE  \A i : i \in OnDisk <=> \E ch \in Chats : OnDiskHas(ch, i)
<1> SUFFICES ASSUME NEW i PROVE i \in OnDisk <=> \E ch \in Chats : OnDiskHas(ch, i)
  OBVIOUS
<1>1. \A x \in Chats : index[x] # None => log[x] # None
  BY DEF ListedIsReadable
<1>2. log \in [Chats -> {None} \cup Logs(1..MaxEdits)]
  BY DEF TypeOK
<1>3. i \in OnDisk <=>
        \E ch \in Chats :
          /\ index[ch] # None
          /\ \/ i = Item(ch, "chat", 0) \/ i \in RowItems(ch, index[ch])
             \/ \E n \in Messages(log[ch].msgs) : i = Item(ch, "message", n)
  <2>1. i \in OnDisk <=>
          \E x \in Chats :
            /\ index[x] # None
            /\ i \in ItemsOf(x, index[x], IF log[x] = None THEN <<>> ELSE log[x].msgs)
    BY DEF OnDisk
  <2> QED
    BY <1>1, <1>2, <2>1, FoundIs
<1> QED
  BY <1>1, <1>3 DEF OnDiskHas, InLog

LEMMA DiskHasNext ==
  ASSUME TypeOK', ListedIsReadable'
  PROVE  \A i : i \in OnDisk' <=> \E ch \in Chats : OnDiskHas(ch, i)'
<1> SUFFICES ASSUME NEW i PROVE i \in OnDisk' <=> \E ch \in Chats : OnDiskHas(ch, i)'
  OBVIOUS
<1>1. \A x \in Chats : index'[x] # None => log'[x] # None
  BY DEF ListedIsReadable
<1>2. log' \in [Chats -> {None} \cup Logs(1..MaxEdits)]
  BY DEF TypeOK
<1>3. i \in OnDisk' <=>
        \E ch \in Chats :
          /\ index'[ch] # None
          /\ \/ i = Item(ch, "chat", 0) \/ i \in RowItems(ch, index'[ch])
             \/ \E n \in Messages(log'[ch].msgs) : i = Item(ch, "message", n)
  <2>1. i \in OnDisk' <=>
          \E x \in Chats :
            /\ index'[x] # None
            /\ i \in ItemsOf(x, index'[x], IF log'[x] = None THEN <<>> ELSE log'[x].msgs)
    BY DEF OnDisk
  <2> QED
    BY <1>1, <1>2, <2>1, FoundIs
<1> QED
  BY <1>1, <1>3 DEF OnDiskHas, InLog

-----------------------------------------------------------------------------
(* Rows.                                                                     *)

RowItem(ch, i) == i.chat = ch /\ i.kind \in {"title", "queued"}
SameRow(x, y) ==
  /\ x = None <=> y = None
  /\ x # None => x.title = y.title /\ x.queue = y.queue

\* Rows that agree in these have the same items, merge alike and go on alike.
LEMMA SameRowIs ==
  ASSUME NEW x, NEW y, SameRow(x, y), NEW ch
  PROVE  /\ RowItems(ch, x) = RowItems(ch, y)
         /\ \A t, i : MergedRow(x, t, i) = MergedRow(y, t, i)
         /\ \A b, i : MergedRow(b, x, i) = MergedRow(b, y, i)
         /\ \A z : Follows(ch, x, z) <=> Follows(ch, y, z)
         /\ \A z : Follows(ch, z, x) <=> Follows(ch, z, y)
<1>1. RowItems(ch, x) = RowItems(ch, y)
  BY DEF SameRow, RowItems
<1>2. \A t, i : MergedRow(x, t, i) = MergedRow(y, t, i)
  BY DEF SameRow, MergedRow
<1>3. \A b, i : MergedRow(b, x, i) = MergedRow(b, y, i)
  BY DEF SameRow, MergedRow
<1>4. \A z : Follows(ch, x, z) <=> Follows(ch, y, z)
  BY DEF SameRow, Follows
<1>5. \A z : Follows(ch, z, x) <=> Follows(ch, z, y)
  BY DEF SameRow, Follows
<1> QED
  BY <1>1, <1>2, <1>3, <1>4, <1>5

\* An item of a row, and what it says of the row.
LEMMA RowItemsAre ==
  ASSUME NEW ch, NEW row
  PROVE  /\ \A i \in RowItems(ch, row) : RowItem(ch, i)
         /\ row # None =>
              /\ \A n : Item(ch, "title", n) \in RowItems(ch, row) <=> n = row.title /\ n # 0
              /\ \A n : Item(ch, "queued", n) \in RowItems(ch, row) <=> n \in row.queue
BY DEF RowItems, RowItem, Item

\* What a merge puts into the index was there, or is the writer's and not of
\* what it went on from.
LEMMA MergedItems ==
  ASSUME NEW ch, NEW b, NEW mine, NEW d
  PROVE  RowItems(ch, MergedRow(b, mine, d))
           \subseteq RowItems(ch, d) \cup (RowItems(ch, mine) \ RowItems(ch, b))
<1>1. CASE b = None /\ mine = None
  BY <1>1 DEF MergedRow
<1>2. CASE b = None /\ mine # None
  <2> DEFINE row == [title |-> mine.title, queue |-> mine.queue]
  <2>1. MergedRow(b, mine, d) = row
    BY <1>2 DEF MergedRow
  <2>2. RowItems(ch, row) \subseteq RowItems(ch, mine) /\ RowItems(ch, b) = {}
    BY <1>2 DEF RowItems
  <2> QED
    BY <2>1, <2>2
<1>3. CASE b # None /\ (mine = None \/ d = None)
  BY <1>3 DEF MergedRow, RowItems
<1>4. CASE b # None /\ mine # None /\ d # None
  <2> DEFINE row == [title |-> IF mine.title # b.title THEN mine.title ELSE d.title,
                     queue |-> (d.queue \ (b.queue \ mine.queue)) \cup (mine.queue \ b.queue)]
  <2>1. MergedRow(b, mine, d) = row
    BY <1>4 DEF MergedRow
  <2>2. ASSUME NEW i \in RowItems(ch, row)
        PROVE  i \in RowItems(ch, d) \cup (RowItems(ch, mine) \ RowItems(ch, b))
    <3>1. \/ \E n : n # 0 /\ i = Item(ch, "title", n) /\ n = row.title
          \/ \E n \in row.queue : i = Item(ch, "queued", n)
      BY <2>2 DEF RowItems
    <3>2. CASE \E n : n # 0 /\ i = Item(ch, "title", n) /\ n = row.title
      BY <1>4, <3>2, RowItemsAre
    <3>3. CASE \E n \in row.queue : i = Item(ch, "queued", n)
      BY <1>4, <3>3, RowItemsAre
    <3> QED
      BY <3>1, <3>2, <3>3
  <2> HIDE DEF row
  <2> QED
    BY <2>1, <2>2
<1> QED
  BY <1>1, <1>2, <1>3, <1>4

\* What is still to be stored of a row is had.
LEMMA RowYetIs ==
  \A c \in Copies, ch \in Chats :
    /\ RowYet(c, ch) \subseteq RowHas(c, ch)
    /\ \A i \in RowYet(c, ch) : RowItem(ch, i)
<1> SUFFICES ASSUME NEW c \in Copies, NEW ch \in Chats
             PROVE  /\ RowYet(c, ch) \subseteq RowHas(c, ch)
                    /\ \A i \in RowYet(c, ch) : RowItem(ch, i)
  OBVIOUS
<1>1. RowYet(c, ch) \subseteq RowItems(ch, copy[c][ch]) \cup RowItems(ch, write[c].taken[ch])
  BY DEF RowYet
<1> QED
  BY <1>1, RowItemsAre DEF RowHas

\* A step of c at one chat: what of its row gets into the index was its own,
\* what it learns was stored or is new.
LEMMA RowsApart ==
  ASSUME NEW c \in Copies, NEW ch \in Chats, RowApart(ch),
         stored \subseteq made, made \subseteq made',
         \A d \in Copies \ {c} :
           RowHas(d, ch)' = RowHas(d, ch) /\ RowYet(d, ch)' = RowYet(d, ch),
         NEW X \in SUBSET RowHas(c, ch), NEW E, E \cap made = {}, E \subseteq made',
         \A i \in E : RowItem(ch, i),
         RowHas(c, ch)' \subseteq RowHas(c, ch) \cup stored \cup E,
         RowYet(c, ch)' \subseteq (RowYet(c, ch) \ X) \cup E,
         \A i \in stored' : RowItem(ch, i) => i \in stored \cup X
  PROVE  RowApart(ch)'
<1>1. \A d \in Copies : /\ RowYet(d, ch) \subseteq RowHas(d, ch) /\ RowHas(d, ch) \subseteq made
                        /\ RowYet(d, ch) \cap stored = {}
                        /\ \A i \in RowYet(d, ch) : RowItem(ch, i)
                        /\ \A e \in Copies \ {d} : RowYet(d, ch) \cap RowHas(e, ch) = {}
  BY RowYetIs DEF RowApart
<1>2. \A d \in Copies : RowHas(d, ch)' \subseteq RowHas(d, ch) \cup stored \cup E
  OBVIOUS
<1>3. \A d \in Copies : RowHas(d, ch)' \subseteq made'
  BY <1>1, <1>2
<1>4. ASSUME NEW d \in Copies, NEW i \in RowYet(d, ch)'
      PROVE  i \notin stored' /\ \A e \in Copies \ {d} : i \notin RowHas(e, ch)'
  <2>1. CASE d # c
    <3>1. i \in RowYet(d, ch) /\ i \in made /\ i \notin E /\ i \notin stored
      BY <1>1, <1>4, <2>1
    <3>2. i \notin X /\ RowItem(ch, i)
      BY <1>1, <2>1, <3>1
    <3> QED
      BY <1>1, <1>2, <3>1, <3>2
  <2>2. CASE d = c /\ i \in E
    <3>1. i \notin made /\ RowItem(ch, i)
      BY <2>2
    <3>2. i \notin stored'
      BY <1>1, <3>1
    <3>3. \A e \in Copies \ {d} : RowHas(e, ch)' \subseteq made
      BY <1>1, <2>2
    <3> QED
      BY <3>1, <3>2, <3>3
  <2>3. CASE d = c /\ i \notin E
    <3>1. i \in RowYet(c, ch) /\ i \notin X
      BY <1>4, <2>3
    <3> QED
      BY <1>1, <2>3, <3>1
  <2> QED
    BY <2>1, <2>2, <2>3
<1> QED
  BY <1>3, <1>4 DEF RowApart

\* What a row has in a copy nothing happened to stays as it is.
LEMMA SameRows ==
  ASSUME NEW d \in Copies, NEW ch \in Chats,
         copy'[d][ch] = copy[d][ch], base'[d][ch] = base[d][ch], write'[d] = write[d]
  PROVE  /\ RowHas(d, ch)' = RowHas(d, ch) /\ RowYet(d, ch)' = RowYet(d, ch)
         /\ From(d, ch)' = From(d, ch)
<1>1. From(d, ch)' = From(d, ch)
  BY DEF From, At
<1> QED
  BY <1>1 DEF RowHas, RowYet

\* What was dropped stays so.
LEMMA FollowsStays ==
  ASSUME dropped \subseteq dropped', NEW ch, NEW x, NEW y, Follows(ch, x, y)
  PROVE  Follows(ch, x, y)'
BY DEF Follows

\* A copy nothing happens to stays well, unless its index changes while it writes.
LEMMA RowWellStays ==
  ASSUME NEW d \in Copies, NEW ch \in Chats, RowWell(d, ch),
         copy'[d][ch] = copy[d][ch], base'[d][ch] = base[d][ch], write'[d] = write[d],
         At(d, "files") => index'[ch] = index[ch],
         dropped \subseteq dropped', deleted \subseteq deleted', made \subseteq made'
  PROVE  RowWell(d, ch)'
<1>1. From(d, ch)' = From(d, ch)
  BY SameRows
<1>2. /\ Follows(ch, From(d, ch), copy[d][ch])'
      /\ Follows(ch, From(d, ch), write[d].taken[ch])'
      /\ Follows(ch, write[d].taken[ch], copy[d][ch])'
  BY <1>1 DEF RowWell, Follows
<1>3. (Knows(d, ch) \/ Is(ch, write[d].next) => Item(ch, "chat", 0) \in made)'
  BY DEF RowWell, Knows
<1> QED
  BY <1>1, <1>2, <1>3 DEF RowWell, At

\* So it is enough to look at the copy that made the step.
RowsKept == (\A ch \in Chats : RowApart(ch)') /\ (\A c \in Copies, ch \in Chats : RowWell(c, ch)')
LEMMA OneRow ==
  ASSUME All, NEW c \in Copies,
         \A d \in Copies \ {c} :
           copy'[d] = copy[d] /\ base'[d] = base[d] /\ write'[d] = write[d],
         \A d \in Copies \ {c} : At(d, "files") => index' = index,
         dropped \subseteq dropped', deleted \subseteq deleted', made \subseteq made',
         \A ch \in Chats : RowApart(ch)' /\ RowWell(c, ch)'
  PROVE  RowsKept
<1>1. ASSUME NEW d \in Copies \ {c}, NEW ch \in Chats PROVE RowWell(d, ch)'
  <2>1. RowWell(d, ch)
    BY DEF All, PromiseInv
  <2> QED
    BY <2>1, RowWellStays
<1> QED
  BY <1>1 DEF RowsKept

-----------------------------------------------------------------------------
(* Steps that leave the rows.                                                *)

\* What the index lists was stored.
LEMMA IndexStored ==
  ASSUME All, NEW ch \in Chats
  PROVE  RowItems(ch, index[ch]) \subseteq stored /\ (Is(ch, index) => Item(ch, "chat", 0) \in made)
<1>1. Is(ch, index) => Had(ch) /\ RowIn(ch, index[ch], stored)
  BY DEF All, Inv, RecordInv, DiskStored
<1>2. stored \subseteq made
  BY DEF All, PromiseInv, MadeWell
<1> QED
  BY <1>1, <1>2 DEF RowItems, RowIn, Had

RowQuiet(c) ==
  /\ \A d \in Copies \ {c} : base'[d] = base[d] /\ write'[d] = write[d]
  /\ \A ch \in Chats :
       /\ SameRow(base[c][ch], base'[c][ch])
       /\ SameRow(write[c].taken[ch], write'[c].taken[ch]) \/ write'[c].taken[ch] = None
       /\ write'[c].next[ch] \in {None, write[c].next[ch], index[ch]}
  /\ At(c, "purge")' <=> At(c, "purge")
  /\ At(c, "files")' =>
       /\ At(c, "files") /\ write'[c].next = write[c].next
       /\ \A ch \in Chats : SameRow(write[c].taken[ch], write'[c].taken[ch])
  /\ UNCHANGED <<index, copy, made, dropped, deleted>>

\* Nothing happens to the rows of a copy, but that a write forgets its own.
LEMMA QuietRows ==
  ASSUME All, NEW c \in Copies, RowQuiet(c), 
         \A ch \in Chats : \A i : i \in stored' /\ RowItem(ch, i) => i \in stored
  PROVE  RowsKept
<1>1. ASSUME NEW ch \in Chats PROVE RowApart(ch)' /\ RowWell(c, ch)'
  <2>0. /\ RowApart(ch) /\ RowWell(c, ch) /\ stored \subseteq made
        /\ RowItems(ch, index[ch]) \subseteq stored
        /\ Is(ch, index) => Item(ch, "chat", 0) \in made
    BY IndexStored DEF All, PromiseInv, MadeWell
  <2>1. /\ SameRow(base[c][ch], base'[c][ch])
        /\ SameRow(write[c].taken[ch], write'[c].taken[ch]) \/ write'[c].taken[ch] = None
        /\ write'[c].next[ch] \in {None, write[c].next[ch], index[ch]}
        /\ UNCHANGED <<index, copy, made, dropped, deleted>>
        /\ At(c, "purge")' <=> At(c, "purge")
    BY DEF RowQuiet
  <2> DEFINE t == write[c].taken[ch]
             u == write'[c].taken[ch]
             b == base[c][ch]
             f == base'[c][ch]
             k == copy[c][ch]
             F == From(c, ch)
             G == From(c, ch)'
  <2>2. /\ RowItems(ch, base'[c][ch]) = RowItems(ch, b)
        /\ RowItems(ch, u) \subseteq RowItems(ch, t)
        /\ RowItems(ch, write'[c].next[ch]) \subseteq RowItems(ch, write[c].next[ch]) \cup stored
    <3>1. u = None => RowItems(ch, u) = {}
      BY DEF RowItems
    <3>2. RowItems(ch, None) = {}
      BY DEF RowItems
    <3> HIDE DEF u, t, b
    <3>3. SameRow(t, u) => RowItems(ch, u) = RowItems(ch, t)
      BY SameRowIs
    <3>4. RowItems(ch, base'[c][ch]) = RowItems(ch, b)
      BY <2>1, SameRowIs DEF b
    <3> QED
      BY <2>0, <2>1, <3>1, <3>2, <3>3, <3>4 DEF u, t, b
  <2>3. /\ G # None => SameRow(F, G)
        /\ u # None => SameRow(t, u) /\ SameRow(F, G)
    BY <2>1 DEF From, SameRow
  <2>4. RowHas(c, ch)' \subseteq RowHas(c, ch) \cup stored
    BY <2>1, <2>2 DEF RowHas
  <2>5. RowYet(c, ch)' \subseteq RowYet(c, ch)
    <3>1. CASE G = None
      BY <3>1 DEF RowYet
    <3>2. CASE G # None
      <4>1. F # None /\ RowItems(ch, F) = RowItems(ch, G)
        <5> HIDE DEF F, G
        <5> QED
          BY <2>3, <3>2, SameRowIs DEF SameRow
      <4> QED
        BY <2>1, <2>2, <3>2, <4>1 DEF RowYet
    <3> QED
      BY <3>1, <3>2
  <2>6. RowApart(ch)'
    <3> DEFINE X == {}
               E == {}
    <3>1. \A d \in Copies \ {c} :
            RowHas(d, ch)' = RowHas(d, ch) /\ RowYet(d, ch)' = RowYet(d, ch)
      BY <2>1, SameRows DEF RowQuiet
    <3>2. /\ X \in SUBSET RowHas(c, ch) /\ E \cap made = {} /\ E \subseteq made'
          /\ \A i \in E : RowItem(ch, i)
          /\ RowHas(c, ch)' \subseteq RowHas(c, ch) \cup stored \cup E
          /\ RowYet(c, ch)' \subseteq (RowYet(c, ch) \ X) \cup E
          /\ \A i \in stored' : RowItem(ch, i) => i \in stored \cup X
      BY <2>4, <2>5
    <3> HIDE DEF X, E
    <3> QED
      BY <2>0, <2>1, <3>1, <3>2, RowsApart
  <2>7. RowWell(c, ch)'
    <3>1. (Knows(c, ch) \/ Is(ch, write[c].next) => Item(ch, "chat", 0) \in made)'
      BY <2>0, <2>1 DEF RowWell, Knows, SameRow
    <3>2. (Is(ch, base[c]) \/ Is(ch, write[c].taken) => Is(ch, copy[c]) \/ ch \in deleted)'
      BY <2>0, <2>1 DEF RowWell, SameRow
    <3>3. At(c, "files")' =>
            /\ write'[c].next[ch] = MergedRow(f, u, index'[ch])
            /\ f # None /\ u = None => ch \in deleted'
      <4> SUFFICES ASSUME At(c, "files")'
                   PROVE  /\ write'[c].next[ch] = MergedRow(f, u, index'[ch])
                          /\ f # None /\ u = None => ch \in deleted'
        OBVIOUS
      <4>1. At(c, "files") /\ write'[c].next = write[c].next /\ SameRow(t, u) /\ SameRow(b, f)
        BY <2>1 DEF RowQuiet
      <4>2. write[c].next[ch] = MergedRow(b, t, index[ch]) /\ (b # None /\ t = None => ch \in deleted)
        BY <2>0, <4>1 DEF RowWell
      <4>3. MergedRow(f, u, index[ch]) = MergedRow(b, t, index[ch])
        <5> HIDE DEF f, u, b, t
        <5> QED
          BY <4>1, SameRowIs
      <4> QED
        BY <2>1, <4>1, <4>2, <4>3 DEF SameRow
    <3>4. Follows(ch, F, k) /\ Follows(ch, F, t) /\ Follows(ch, t, k)
      BY <2>0 DEF RowWell
    <3>5. Follows(ch, G, k) /\ Follows(ch, G, u) /\ Follows(ch, u, k)
      <4> HIDE DEF F, G, u, t, k
      <4>1. \A x, y : x = None \/ y = None => Follows(ch, x, y)
        BY DEF Follows
      <4>2. CASE u = None /\ G # None
        BY <2>3, <3>4, <4>1, <4>2, SameRowIs
      <4>3. CASE u # None
        BY <2>3, <3>4, <4>1, <4>3, SameRowIs
      <4>4. CASE u = None /\ G = None
        BY <4>1, <4>4
      <4> QED
        BY <4>2, <4>3, <4>4
    <3>6. /\ Follows(ch, From(c, ch), copy[c][ch])'
          /\ Follows(ch, From(c, ch), write[c].taken[ch])'
          /\ Follows(ch, write[c].taken[ch], copy[c][ch])'
      BY <2>1, <3>5 DEF Follows
    <3>7. (Is(ch, write[c].taken) =>
             RowItems(ch, copy[c][ch]) \cap RowItems(ch, From(c, ch))
               \subseteq RowItems(ch, write[c].taken[ch]))'
      <4>1. t # None => RowItems(ch, k) \cap RowItems(ch, F) \subseteq RowItems(ch, t)
        BY <2>0 DEF RowWell
      <4>2. u # None => RowItems(ch, k) \cap RowItems(ch, G) \subseteq RowItems(ch, u)
        <5> HIDE DEF F, G, u, t, k
        <5> QED
          BY <2>3, <4>1, SameRowIs DEF SameRow
      <4> QED
        BY <2>1, <4>2
    <3> QED
      BY <3>1, <3>2, <3>3, <3>6, <3>7 DEF RowWell
  <2> QED
    BY <2>6, <2>7
<1>2. /\ \A d \in Copies \ {c} :
           copy'[d] = copy[d] /\ base'[d] = base[d] /\ write'[d] = write[d]
      /\ index' = index
      /\ dropped \subseteq dropped' /\ deleted \subseteq deleted' /\ made \subseteq made'
  BY DEF RowQuiet
<1> QED
  BY <1>1, <1>2, OneRow

-----------------------------------------------------------------------------
(* What a base has lost, and steps of the write that leave the rows.         *)

LostKept == \A c \in Copies, ch \in Chats : Lost(c, ch)'

\* A step of one copy keeps what the others have lost.
LEMMA OneLost ==
  ASSUME All, NEW c \in Copies, dropped \subseteq dropped',
         \A d \in Copies \ {c} :
           copy'[d] = copy[d] /\ base'[d] = base[d] /\ write'[d] = write[d],
         \A ch \in Chats : Lost(c, ch)'
  PROVE  LostKept
<1>1. ASSUME NEW d \in Copies \ {c}, NEW ch \in Chats PROVE Lost(d, ch)'
  <2>1. Lost(d, ch)
    BY DEF All, PromiseInv
  <2>2. /\ Of(ch, copy[d])' = Of(ch, copy[d]) /\ Of(ch, base[d])' = Of(ch, base[d])
        /\ Now(d, ch)' = Now(d, ch) /\ (Storing(d, ch)' <=> Storing(d, ch))
        /\ (Loaded(d, ch)' <=> Loaded(d, ch)) /\ (Is(ch, base[d])' <=> Is(ch, base[d]))
    BY DEF Of, Now, Storing, Loaded, At
  <2> QED
    BY <2>1, <2>2 DEF Lost, Taken
<1> QED
  BY <1>1 DEF LostKept

\* A step that only moves a write on, and stores what its copy has if anything.
LEMMA GotoPromises ==
  ASSUME All, NEW c \in Copies, NEW w \in Writes, Goto(c, w),
         UNCHANGED <<index, copy, base, made, dropped, deleted, stored>>,
         w.taken = write[c].taken \/ w.taken = NoChats,
         w.next \in {write[c].next, NoChats, index},
         w.pc = "purge" <=> write[c].pc = "purge", w.pc # "files",
         w.pc = "store" => Loaded(c, w.chat) /\ w.now = copy[c][w.chat].msgs
  PROVE  RowsKept /\ LostKept
<1>1. write'[c] = w /\ \A d \in Copies \ {c} : write'[d] = write[d]
  BY DEF Goto, All, Inv, TypeOK
<1>2. \A ch \in Chats : NoChats[ch] = None
  BY DEF NoChats
<1>3. RowQuiet(c)
  BY <1>1, <1>2 DEF RowQuiet, SameRow, At
<1>4. RowsKept
  BY <1>3, QuietRows
<1>5. ASSUME NEW ch \in Chats PROVE Lost(c, ch)'
  <2>1. Lost(c, ch)
    BY DEF All, PromiseInv
  <2>2. /\ Of(ch, copy[c])' = Of(ch, copy[c]) /\ Of(ch, base[c])' = Of(ch, base[c])
        /\ (Loaded(c, ch)' <=> Loaded(c, ch)) /\ (Is(ch, base[c])' <=> Is(ch, base[c]))
    BY DEF Of, Loaded
  <2>3. Storing(c, ch)' => Loaded(c, ch) /\ Now(c, ch)' = Of(ch, copy[c])
    BY <1>1 DEF Storing, At, Now, Of, Loaded
  <2> QED
    BY <2>1, <2>2, <2>3 DEF Lost, Taken
<1>6. LostKept
  BY <1>1, <1>5, OneLost
<1> QED
  BY <1>4, <1>6

\* The steps that leave the rows, one by one.
LEMMA ReadIndexPromises ==
  ASSUME All, NEW c \in Copies, ReadIndex(c)
  PROVE  RowsKept /\ LostKept
<1> DEFINE w == [NoWrite EXCEPT !.pc = "opening", !.next = index]
<1>1. w \in Writes /\ w.pc = "opening" /\ w.taken = NoChats /\ w.next = index
  <2>1. NoWrite.taken = NoChats
    BY DEF NoWrite
  <2> QED
    BY <2>1, NoWriteIs DEF All, Inv, TypeOK, Writes
<1>2. /\ Goto(c, w) /\ write[c].pc = "closed"
      /\ UNCHANGED <<index, copy, base, made, dropped, deleted, stored>>
  BY DEF ReadIndex, disk, history, At
<1> HIDE DEF w
<1> QED
  BY <1>1, <1>2, GotoPromises

LEMMA TakeChatPromises ==
  ASSUME All, NEW c \in Copies, NEW ch \in Chats, NEW w \in Writes,
         NEW back \in {"idle", "own", "later"}, Changed(c, ch),
         TakeChat(c, ch, w, back), w.taken = write[c].taken, w.next = write[c].next,
         write[c].pc \in {"idle", "own", "later"}
  PROVE  RowsKept /\ LostKept
<1> DEFINE v == [w EXCEPT !.pc = "store", !.chat = ch, !.now = copy[c][ch].msgs,
                          !.back = back]
<1>1. Is(ch, copy[c]) /\ copy[c][ch].msgs \in Histories
  BY ChangedHasBoth DEF All, Inv
<1>2. /\ v \in Writes /\ v.pc = "store" /\ v.taken = write[c].taken
      /\ v.next = write[c].next /\ v.chat = ch /\ v.now = copy[c][ch].msgs
  BY <1>1 DEF Writes
<1>3. Goto(c, v) /\ UNCHANGED <<index, copy, base, made, dropped, deleted, stored>>
  BY DEF TakeChat, disk, history
<1>4. Loaded(c, ch)
  BY <1>1, HistoryIs DEF Loaded
<1> HIDE DEF v
<1> QED
  BY <1>2, <1>3, <1>4, GotoPromises

LEMMA CheckpointPromises ==
  ASSUME All, NEW c \in Copies, NEW ch \in Chats, Checkpoint(c, ch)
  PROVE  RowsKept /\ LostKept
<1>1. /\ write[c] \in Writes /\ write[c].pc = "idle" /\ Changed(c, ch)
      /\ TakeChat(c, ch, write[c], "idle")
  BY DEF All, Inv, TypeOK, Checkpoint, At
<1> QED
  BY <1>1, TakeChatPromises

LEMMA BeginPromises ==
  ASSUME All, NEW c \in Copies, Begin(c)
  PROVE  RowsKept /\ LostKept
<1> DEFINE w == [NoWrite EXCEPT !.pc = "own",
                   !.todo = {ch \in Chats : Known(c, ch) /\ Loaded(c, ch)}]
<1>1. w \in Writes /\ w.pc = "own" /\ w.taken = NoChats /\ w.next = NoChats
  <2>1. NoWrite.taken = NoChats /\ NoWrite.next = NoChats
    BY DEF NoWrite
  <2> QED
    BY <2>1, NoWriteIs DEF Writes
<1>2. /\ Goto(c, w) /\ write[c].pc = "idle"
      /\ UNCHANGED <<index, copy, base, made, dropped, deleted, stored>>
  BY DEF Begin, disk, history, At
<1> HIDE DEF w
<1> QED
  BY <1>1, <1>2, GotoPromises

LEMMA OwnNextPromises ==
  ASSUME All, NEW c \in Copies, OwnNext(c)
  PROVE  RowsKept /\ LostKept
<1>1. PICK ch \in write[c].todo :
        LET w == [write[c] EXCEPT !.todo = @ \ {ch}]
        IN  IF Changed(c, ch) /\ Is(ch, index)
            THEN TakeChat(c, ch, w, "own")
            ELSE /\ Goto(c, IF Known(c, ch) /\ ~Changed(c, ch)
                              THEN [w EXCEPT !.own = @ \cup {ch}] ELSE w)
                 /\ UNCHANGED <<disk, locks, copy, base, edits, bounds, history>>
  BY DEF OwnNext
<1> DEFINE w == [write[c] EXCEPT !.todo = @ \ {ch}]
           v == IF Known(c, ch) /\ ~Changed(c, ch)
                  THEN [w EXCEPT !.own = @ \cup {ch}] ELSE w
<1>2. write[c] \in Writes /\ write[c].pc = "own"
  BY DEF All, Inv, TypeOK, OwnNext, At
<1>3. ch \in Chats
  BY <1>2 DEF Writes
<1>4. w \in Writes /\ w.pc = "own" /\ w.taken = write[c].taken /\ w.next = write[c].next
  BY <1>2 DEF Writes
<1>5. v \in Writes /\ v.pc = "own" /\ v.taken = write[c].taken /\ v.next = write[c].next
  <2> HIDE DEF w
  <2> QED
    BY <1>3, <1>4 DEF Writes
<1>6. CASE Changed(c, ch) /\ Is(ch, index)
  <2>1. TakeChat(c, ch, w, "own")
    BY <1>1, <1>6
  <2> HIDE DEF w
  <2> QED
    BY <1>2, <1>3, <1>4, <1>6, <2>1, TakeChatPromises
<1>7. CASE ~(Changed(c, ch) /\ Is(ch, index))
  <2>1. Goto(c, v) /\ UNCHANGED <<index, copy, base, made, dropped, deleted, stored>>
    BY <1>1, <1>7 DEF disk, history
  <2> HIDE DEF v
  <2> QED
    BY <1>2, <1>5, <2>1, GotoPromises
<1> QED
  BY <1>6, <1>7

\* A write that ends, or fails.
LEMMA NoWritePromises ==
  ASSUME All, NEW c \in Copies, Goto(c, NoWrite), write[c].pc # "purge",
         UNCHANGED <<index, copy, base, made, dropped, deleted, stored>>
  PROVE  RowsKept /\ LostKept
<1>1. NoWrite.taken = NoChats /\ NoWrite.next = NoChats
  BY DEF NoWrite
<1> QED
  BY <1>1, NoWriteIs, GotoPromises

LEMMA EndPromises ==
  ASSUME All, NEW c \in Copies, End(c)
  PROVE  RowsKept /\ LostKept
BY NoWritePromises DEF End, At, history, disk

LEMMA FailPromises ==
  ASSUME All, NEW c \in Copies, Fail(c)
  PROVE  RowsKept /\ LostKept
BY NoWritePromises DEF Fail, disk

LEMMA PurgePromises ==
  ASSUME All, NEW c \in Copies, Purge(c)
  PROVE  RowsKept /\ LostKept
<1>1. PICK ch \in write[c].doomed : Goto(c, [write[c] EXCEPT !.doomed = @ \ {ch}])
  BY DEF Purge
<1> DEFINE w == write[c]
           v == [w EXCEPT !.doomed = @ \ {ch}]
<1>2. /\ w.pc = "purge" /\ w \in Writes
      /\ UNCHANGED <<index, copy, base, made, dropped, deleted, stored>>
  BY DEF Purge, At, All, Inv, TypeOK, history
<1>3. v \in Writes /\ v.pc = "purge" /\ v.taken = w.taken /\ v.next = w.next
  <2> HIDE DEF w
  <2> QED
    BY <1>2 DEF Writes
<1>4. Goto(c, v)
  BY <1>1
<1> HIDE DEF v
<1> QED
  BY <1>2, <1>3, <1>4, GotoPromises

\* What a reader finds of the rows was stored, while the index stays.
LEMMA RecordedRows ==
  ASSUME All, TypeOK', ListedIsReadable', Recorded, index' = index
  PROVE  \A ch \in Chats : \A i : i \in stored' /\ RowItem(ch, i) => i \in stored
<1> SUFFICES ASSUME NEW ch \in Chats, NEW i, i \in stored', RowItem(ch, i), i \notin stored
             PROVE  FALSE
  OBVIOUS
<1>1. PICK x \in Chats : OnDiskHas(x, i)'
  BY DiskHasNext DEF Recorded
<1>2. \A n : i # Item(x, "chat", 0) /\ i # Item(x, "message", n)
  BY DEF RowItem, Item
<1>3. i \in RowItems(x, index[x])
  BY <1>1, <1>2 DEF OnDiskHas
<1> QED
  BY <1>3, IndexStored

\* A transcript is stored, and its base moved to what was.
LEMMA StoredPromises ==
  ASSUME All, TypeOK', ListedIsReadable', NEW c \in Copies, NEW ch \in Chats,
         NEW msgs \in Histories, NEW at \in Spots,
         NEW w \in Writes, w.pc \in {"idle", "own", "later"}, w.taken = write[c].taken,
         w.next = write[c].next, write[c].pc \in {"store", "later"},
         Is(ch, base[c]), Moved(c, ch, msgs, at), Goto(c, w), Recorded,
         UNCHANGED <<index, copy, made, dropped, deleted>>,
         \/ Storing(c, ch) /\ msgs = write[c].now
         \/ Loaded(c, ch) /\ msgs = copy[c][ch].msgs
  PROVE  RowsKept /\ LostKept
<1>0. TypeOK
  BY DEF All, Inv
<1>1. write'[c] = w /\ \A d \in Copies \ {c} : write'[d] = write[d]
  BY <1>0 DEF TypeOK, Goto
<1>2. /\ base'[c][ch] \in Held /\ base'[c][ch].msgs = msgs
      /\ base'[c][ch].title = base[c][ch].title /\ base'[c][ch].queue = base[c][ch].queue
      /\ \A d \in Copies, x \in Chats : d # c \/ x # ch => base'[d][x] = base[d][x]
  BY <1>0, MovedIs DEF TypeOK
<1>3. \A d \in Copies \ {c} : base'[d] = base[d]
  BY <1>0 DEF Moved, TypeOK
<1>4. base'[c][ch] # None
  BY <1>2, StateStoreAssumption
<1>5. \A x \in Chats : SameRow(base[c][x], base'[c][x])
  BY <1>2, <1>4 DEF SameRow
<1>6. RowQuiet(c)
  BY <1>1, <1>3, <1>5 DEF RowQuiet, SameRow, At
<1>7. RowsKept
  BY <1>6, QuietRows, RecordedRows
<1>8. ASSUME NEW x \in Chats PROVE Lost(c, x)'
  <2>0. Lost(c, x) /\ Snap(c, x) /\ ~Storing(c, x)'
    BY <1>1 DEF All, PromiseInv, OnceInv, Storing, At
  <2>1. Of(x, copy[c])' = Of(x, copy[c]) /\ (Loaded(c, x)' <=> Loaded(c, x))
    BY DEF Of, Loaded
  <2>2. CASE x # ch
    <3>1. /\ Of(x, base[c])' = Of(x, base[c])
          /\ Is(x, base[c])' <=> Is(x, base[c])
      BY <1>2, <2>2 DEF Of
    <3> QED
      BY <2>0, <2>1, <3>1 DEF Lost, Taken
  <2>3. CASE x = ch
    <3>1. Of(x, base[c])' = Messages(msgs)
      BY <1>2, <1>4, <2>3, HistoryIs DEF Of
    <3>2. ASSUME Loaded(c, ch) PROVE Messages(msgs) \subseteq Of(ch, copy[c])
      <4>1. CASE msgs = copy[c][ch].msgs
        BY <3>2, <4>1 DEF Of, Loaded
      <4>2. CASE Storing(c, ch) /\ msgs = write[c].now
        <5>1. Extends(copy[c][ch].msgs, msgs)
          BY <2>0, <2>3, <3>2, <4>2 DEF Snap, Taking
        <5>2. copy[c][ch].msgs \in Histories
          BY <1>0, <3>2, HeldIs DEF Loaded
        <5>3. Messages(msgs) \subseteq Messages(copy[c][ch].msgs)
          BY <5>1, <5>2, HistoryIs, ExtendsMore
        <5> QED
          BY <3>2, <5>3 DEF Of, Loaded
      <4> QED
        BY <4>1, <4>2
    <3> QED
      BY <2>0, <2>1, <2>3, <3>1, <3>2 DEF Lost, Taken
  <2> QED
    BY <2>2, <2>3
<1>9. LostKept
  BY <1>1, <1>3, <1>8, OneLost
<1> QED
  BY <1>7, <1>9

-----------------------------------------------------------------------------
(* Steps of the write that store transcripts.                                *)

\* A transcript on its chat's lock, in a write or after it.
LEMMA StoreOwnPromises ==
  ASSUME All, TypeOK', ListedIsReadable', NEW c \in Copies, StoreOwn(c)
  PROVE  RowsKept /\ LostKept
<1> DEFINE w == write[c]
           ch == w.chat
           v == [w EXCEPT !.pc = w.back, !.chat = None, !.now = <<>>, !.back = "idle",
                          !.own = IF w.back = "own" THEN @ \cup {w.chat} ELSE @]
           msgs == w.now
           at == Out(ch, base[c][ch], msgs).at
<1>1. /\ w.pc = "store" /\ w \in Writes /\ ch \in Chats /\ msgs \in Histories
      /\ Is(ch, base[c]) /\ base[c][ch].msgs \in Histories
  BY DEF StoreOwn, At, All, Inv, TypeOK, StoreInv, StoresHistories, Writes
<1>2. v \in Writes /\ v.pc \in {"idle", "own", "later"} /\ v.taken = w.taken /\ v.next = w.next
  <2>1. w.own \cup {ch} \in SUBSET Chats /\ <<>> \in Histories
    BY <1>1 DEF Writes, Histories
  <2> HIDE DEF w
  <2>2. ch = w.chat
    OBVIOUS
  <2> HIDE DEF ch
  <2> QED
    BY <1>1, <2>1, <2>2 DEF Writes
<1>3. /\ Moved(c, ch, msgs, at) /\ Goto(c, v) /\ Recorded
      /\ UNCHANGED <<index, copy, made, dropped, deleted>>
  BY DEF StoreOwn
<1>4. at \in Spots
  <2>1. base[c][ch].at \in Spots
    BY <1>1 DEF All, Inv, TypeOK, Held
  <2> HIDE DEF w, ch, msgs
  <2> QED
    BY <1>1, <2>1, OutIsLog DEF All, Inv
<1>5. /\ Storing(c, ch) /\ msgs = write[c].now /\ write[c].pc \in {"store", "later"}
      /\ v.taken = write[c].taken /\ v.next = write[c].next
  BY <1>1, <1>2 DEF Storing, At
<1> HIDE DEF w, ch, v, msgs, at
<1> QED
  BY <1>1, <1>2, <1>3, <1>4, <1>5, StoredPromises

LEMMA LaterPromises ==
  ASSUME All, TypeOK', ListedIsReadable', NEW c \in Copies, Later(c)
  PROVE  RowsKept /\ LostKept
<1>1. PICK ch \in write[c].later :
        LET w == [write[c] EXCEPT !.later = @ \ {ch}]
            out == Out(ch, base[c][ch], copy[c][ch].msgs)
        IN  \/ /\ ~Changed(c, ch)
               /\ Goto(c, w)
               /\ UNCHANGED <<disk, locks, copy, base, edits, bounds, history>>
            \/ /\ Changed(c, ch) /\ Is(ch, index)
               /\ TakeChat(c, ch, w, "later")
            \/ /\ Changed(c, ch) /\ ~Is(ch, index)
               /\ stateLock = None /\ chatLock[ch] = None
               /\ Put(ch, out) /\ Moved(c, ch, copy[c][ch].msgs, out.at)
               /\ Goto(c, w)
               /\ UNCHANGED <<index, locks, copy, edits, bounds, made, dropped,
                              deleted, littered>>
               /\ Recorded
  BY DEF Later
<1> DEFINE w == [write[c] EXCEPT !.later = @ \ {ch}]
           msgs == copy[c][ch].msgs
           out == Out(ch, base[c][ch], msgs)
<1>2. write[c] \in Writes /\ write[c].pc = "later"
  BY DEF All, Inv, TypeOK, Later, At
<1>3. /\ ch \in Chats /\ w \in Writes /\ w.pc = "later"
      /\ w.taken = write[c].taken /\ w.next = write[c].next
  BY <1>2 DEF Writes
<1>5. CASE Goto(c, w) /\ UNCHANGED <<disk, copy, base, history>>
  <2>1. UNCHANGED <<index, copy, base, made, dropped, deleted, stored>>
    BY <1>5 DEF disk, history
  <2> HIDE DEF w
  <2> QED
    BY <1>2, <1>3, <1>5, <2>1, GotoPromises
<1>6. CASE Changed(c, ch) /\ TakeChat(c, ch, w, "later")
  <2> HIDE DEF w
  <2> QED
    BY <1>2, <1>3, <1>6, TakeChatPromises
<1>7. CASE /\ Changed(c, ch) /\ Moved(c, ch, msgs, out.at) /\ Goto(c, w) /\ Recorded
           /\ UNCHANGED <<index, copy, made, dropped, deleted>>
  <2>1. /\ Is(ch, copy[c]) /\ msgs \in Histories
        /\ Is(ch, base[c]) /\ base[c][ch].msgs \in Histories
    BY <1>3, <1>7, ChangedHasBoth DEF All, Inv
  <2>2. Loaded(c, ch) /\ msgs = copy[c][ch].msgs
    BY <2>1, HistoryIs DEF Loaded
  <2>3. base[c][ch].at \in Spots
    BY <1>3, <2>1 DEF All, Inv, TypeOK, Held
  <2>4. out.at \in Spots
    <3> HIDE DEF w, msgs
    <3> QED
      BY <1>3, <2>1, <2>3, OutIsLog DEF All, Inv
  <2> HIDE DEF w, msgs, out
  <2> QED
    BY <1>2, <1>3, <1>7, <2>1, <2>2, <2>4, StoredPromises
<1> QED
  BY <1>1, <1>5, <1>6, <1>7

\* A transcript of a chat not listed yet.
LEMMA StoreFilePromises ==
  ASSUME All, TypeOK', ListedIsReadable', NEW c \in Copies, StoreFile(c)
  PROVE  RowsKept /\ LostKept
<1>1. PICK ch \in Chats : FileStored(c, ch)
  BY StoreFileIs DEF All, Inv
<1>2. UNCHANGED <<index, copy, base, made, dropped, deleted>> /\ Recorded
  BY DEF StoreFile
<1>3. RowQuiet(c)
  BY <1>1, <1>2 DEF RowQuiet, FileStored, SameRow, At
<1>4. RowsKept
  BY <1>2, <1>3, QuietRows, RecordedRows
<1>5. ASSUME NEW x \in Chats PROVE Lost(c, x)'
  <2>1. Lost(c, x) /\ ~Storing(c, x)'
    BY <1>1 DEF All, PromiseInv, Storing, At, FileStored
  <2>2. /\ Of(x, copy[c])' = Of(x, copy[c]) /\ Of(x, base[c])' = Of(x, base[c])
        /\ (Loaded(c, x)' <=> Loaded(c, x)) /\ (Is(x, base[c])' <=> Is(x, base[c]))
    BY <1>2 DEF Of, Loaded
  <2> QED
    BY <1>2, <2>1, <2>2 DEF Lost, Taken
<1>6. LostKept
  BY <1>1, <1>2, <1>5, OneLost DEF FileStored
<1> QED
  BY <1>4, <1>6

-----------------------------------------------------------------------------
(* Reading, a crash, and what is remembered.                                 *)

\* A step that lists nothing: no copy has of a row what it had not, and what
\* its copy has goes on from its base, or nothing is had of the chat.
LEMMA BasedRow ==
  ASSUME All, NEW c \in Copies, NEW ch \in Chats,
         UNCHANGED <<index, made, dropped, deleted, stored>>,
         \A d \in Copies \ {c} :
           copy'[d] = copy[d] /\ base'[d] = base[d] /\ write'[d] = write[d],
         write'[c].taken[ch] = None, write'[c].next[ch] = None,
         write'[c].pc \notin {"files", "purge"},
         RowItems(ch, copy'[c][ch]) \cup RowItems(ch, base'[c][ch]) \subseteq RowHas(c, ch),
         base'[c][ch] # None =>
           /\ copy'[c][ch] # None \/ ch \in deleted
           /\ RowItems(ch, copy'[c][ch]) \ RowItems(ch, base'[c][ch]) \subseteq RowYet(c, ch)
           /\ Follows(ch, base'[c][ch], copy'[c][ch]),
         copy'[c][ch] # None \/ base'[c][ch] # None => Item(ch, "chat", 0) \in made
  PROVE  RowApart(ch)' /\ RowWell(c, ch)'
<1>0. RowApart(ch) /\ stored \subseteq made
  BY DEF All, PromiseInv, MadeWell
<1>1. RowItems(ch, None) = {} /\ From(c, ch)' = base'[c][ch]
  BY DEF RowItems, From, At
<1>2. RowHas(c, ch)' \subseteq RowHas(c, ch)
  BY <1>1 DEF RowHas
<1>3. RowYet(c, ch)' \subseteq RowYet(c, ch)
  BY <1>1 DEF RowYet
<1>4. RowApart(ch)'
  <2> DEFINE X == {}
             E == {}
  <2>1. \A d \in Copies \ {c} :
          RowHas(d, ch)' = RowHas(d, ch) /\ RowYet(d, ch)' = RowYet(d, ch)
    BY SameRows
  <2>2. /\ X \in SUBSET RowHas(c, ch) /\ E \cap made = {} /\ E \subseteq made'
        /\ \A i \in E : RowItem(ch, i)
        /\ RowHas(c, ch)' \subseteq RowHas(c, ch) \cup stored \cup E
        /\ RowYet(c, ch)' \subseteq (RowYet(c, ch) \ X) \cup E
        /\ \A i \in stored' : RowItem(ch, i) => i \in stored \cup X
    BY <1>2, <1>3
  <2> HIDE DEF X, E
  <2> QED
    BY <1>0, <2>1, <2>2, RowsApart
<1>5. RowWell(c, ch)'
  <2>1. (Knows(c, ch) \/ Is(ch, write[c].next) => Item(ch, "chat", 0) \in made)'
    BY DEF Knows
  <2>2. Follows(ch, From(c, ch), copy[c][ch])'
    BY <1>1 DEF Follows
  <2>3. Follows(ch, From(c, ch), write[c].taken[ch])' /\ Follows(ch, write[c].taken[ch], copy[c][ch])'
    BY DEF Follows
  <2> QED
    BY <2>1, <2>2, <2>3 DEF RowWell, At
<1> QED
  BY <1>4, <1>5

LEMMA ReadLogsPromises ==
  ASSUME All, TypeOK', NEW c \in Copies, ReadLogs(c)
  PROVE  RowsKept /\ LostKept
<1> DEFINE Read(ch) == IF Is(ch, write[c].next) THEN AsRead(write[c].next[ch], log[ch]) ELSE None
<1>1. /\ base' = [base EXCEPT ![c] = [ch \in Chats |-> Read(ch)]]
      /\ copy' = [copy EXCEPT ![c] = [ch \in Chats |->
                    IF Is(ch, base'[c]) THEN [base'[c][ch] EXCEPT !.at = Nowhere] ELSE None]]
      /\ Goto(c, NoWrite) /\ UNCHANGED <<index, made, dropped, deleted, stored>>
      /\ write[c].pc = "opening"
  BY DEF ReadLogs, disk, history, At
<1>2. /\ base'[c] = [ch \in Chats |-> Read(ch)]
      /\ copy'[c] = [ch \in Chats |->
                    IF Is(ch, base'[c]) THEN [base'[c][ch] EXCEPT !.at = Nowhere] ELSE None]
      /\ write'[c] = NoWrite
      /\ \A d \in Copies \ {c} : copy'[d] = copy[d] /\ base'[d] = base[d] /\ write'[d] = write[d]
  BY <1>1 DEF All, Inv, TypeOK, Goto
<1> HIDE DEF Read
<1>3. ASSUME NEW ch \in Chats, base'[c][ch] # None
      PROVE  /\ Is(ch, write[c].next) /\ SameRow(write[c].next[ch], base'[c][ch])
             /\ SameRow(base'[c][ch], copy'[c][ch])
             /\ copy'[c][ch].msgs = base'[c][ch].msgs
  <2>1. base'[c][ch] = Read(ch)
    BY <1>2
  <2>2. Is(ch, write[c].next) /\ SameRow(write[c].next[ch], base'[c][ch])
    BY <1>3, <2>1 DEF Read, AsRead, SameRow
  <2> DEFINE b == base'[c][ch]
             row == [b EXCEPT !.at = Nowhere]
  <2>3. copy'[c][ch] = row
    BY <1>2, <1>3
  <2>4. b \in Held
    BY <1>3 DEF TypeOK
  <2>5. /\ row \in Held /\ row.title = b.title /\ row.queue = b.queue /\ row.msgs = b.msgs
    <3> HIDE DEF b
    <3>1. Nowhere \in Spots
      BY DEF Nowhere, Spots
    <3> QED
      BY <2>4, <3>1 DEF Held
  <2>6. row # None
    <3> HIDE DEF row
    <3> QED
      BY <2>5, StateStoreAssumption
  <2> HIDE DEF row
  <2> QED
    BY <1>3, <2>2, <2>3, <2>5, <2>6 DEF SameRow
<1>4. \A ch \in Chats : base'[c][ch] = None => copy'[c][ch] = None
  BY <1>2
<1>5. /\ NoWrite.pc = "idle" /\ NoWrite.taken = NoChats /\ NoWrite.next = NoChats
      /\ \A ch \in Chats : NoChats[ch] = None
  BY DEF NoWrite, NoChats
<1>6. ASSUME NEW ch \in Chats PROVE RowApart(ch)' /\ RowWell(c, ch)'
  <2> DEFINE b == base'[c][ch]
             k == copy'[c][ch]
             n == write[c].next[ch]
  <2>1. RowWell(c, ch) /\ (b # None => SameRow(n, b) /\ SameRow(b, k)) /\ (b = None => k = None)
    BY <1>3, <1>4 DEF All, PromiseInv
  <2>2. RowItems(ch, b) \subseteq RowItems(ch, n) /\ RowItems(ch, k) = RowItems(ch, b)
    <3>1. RowItems(ch, None) = {}
      BY DEF RowItems
    <3> HIDE DEF b, k, n
    <3> QED
      BY <2>1, <3>1, SameRowIs
  <2>3. RowItems(ch, n) \subseteq RowHas(c, ch)
    BY DEF RowHas
  <2>4. /\ RowItems(ch, k) \cup RowItems(ch, b) \subseteq RowHas(c, ch)
        /\ RowItems(ch, k) \ RowItems(ch, b) \subseteq RowYet(c, ch)
    <3> HIDE DEF b, k, n
    <3> QED
      BY <2>2, <2>3
  <2>5. Follows(ch, b, k)
    <3> HIDE DEF b, k
    <3> QED
      BY <2>1 DEF Follows, SameRow
  <2>6. (b # None => k # None) /\ (k # None \/ b # None => Item(ch, "chat", 0) \in made)
    <3>1. b # None => n # None
      BY <2>1 DEF SameRow
    <3> QED
      BY <2>1, <3>1 DEF RowWell, SameRow
  <2>7. write'[c].taken[ch] = None /\ write'[c].next[ch] = None /\ write'[c].pc = "idle"
    BY <1>2, <1>5
  <2> QED
    BY <1>1, <1>2, <2>4, <2>5, <2>6, <2>7, BasedRow
<1>7. RowsKept
  BY <1>1, <1>2, <1>6, OneRow
<1>8. ASSUME NEW ch \in Chats PROVE Lost(c, ch)'
  <2>1. ~Storing(c, ch)'
    BY <1>2, <1>5 DEF Storing, At
  <2>2. Is(ch, base[c])' => Of(ch, copy[c])' = Of(ch, base[c])'
    BY <1>3 DEF Of, SameRow
  <2> QED
    BY <2>1, <2>2 DEF Lost, Taken
<1>9. LostKept
  BY <1>1, <1>2, <1>8, OneLost
<1> QED
  BY <1>7, <1>9

LEMMA CrashPromises ==
  ASSUME All, NEW c \in Copies, Crash(c)
  PROVE  RowsKept /\ LostKept
<1>1. /\ write'[c] = Closed /\ copy'[c] = NoChats /\ base'[c] = NoChats
      /\ \A d \in Copies \ {c} :
           copy'[d] = copy[d] /\ base'[d] = base[d] /\ write'[d] = write[d]
      /\ UNCHANGED <<index, made, dropped, deleted, stored>>
  BY DEF Crash, Goto, All, Inv, TypeOK
<1>2. /\ Closed.pc = "closed" /\ Closed.taken = NoChats /\ Closed.next = NoChats
      /\ \A ch \in Chats : NoChats[ch] = None
  BY DEF Closed, NoWrite, NoChats
<1>3. ASSUME NEW ch \in Chats PROVE RowApart(ch)' /\ RowWell(c, ch)'
  <2>1. RowItems(ch, None) = {}
    BY DEF RowItems
  <2>2. /\ copy'[c][ch] = None /\ base'[c][ch] = None /\ write'[c].taken[ch] = None
        /\ write'[c].next[ch] = None /\ write'[c].pc = "closed"
    BY <1>1, <1>2
  <2>3. RowItems(ch, copy'[c][ch]) \cup RowItems(ch, base'[c][ch]) \subseteq RowHas(c, ch)
    BY <2>1, <2>2
  <2> QED
    BY <1>1, <2>2, <2>3, BasedRow
<1>4. RowsKept
  BY <1>1, <1>3, OneRow
<1>5. \A ch \in Chats : Lost(c, ch)'
  BY <1>1, <1>2 DEF Lost
<1>6. LostKept
  BY <1>1, <1>5, OneLost
<1> QED
  BY <1>4, <1>6

LEMMA FinishPromises ==
  ASSUME All, NEW c \in Copies, Finish(c)
  PROVE  RowsKept /\ LostKept
<1> DEFINE w == write[c]
           v == [NoWrite EXCEPT !.pc = "later", !.later = w.later, !.upTo = w.upTo]
<1>1. /\ w \in Writes /\ w.pc = "purge" /\ Goto(c, v)
      /\ base' = [base EXCEPT ![c] = w.taken]
      /\ UNCHANGED <<index, copy, made, dropped, deleted, stored>>
  BY DEF Finish, All, Inv, TypeOK, At, history, disk
<1>2. /\ v.pc = "later" /\ v.taken = NoChats /\ v.next = NoChats
      /\ \A ch \in Chats : NoChats[ch] = None
  BY DEF NoWrite, NoChats
<1> HIDE DEF v
<1>3. /\ write'[c] = v /\ base'[c] = w.taken
      /\ \A d \in Copies \ {c} : copy'[d] = copy[d] /\ base'[d] = base[d] /\ write'[d] = write[d]
  BY <1>1 DEF All, Inv, TypeOK, Goto
<1>4. ASSUME NEW ch \in Chats PROVE RowApart(ch)' /\ RowWell(c, ch)'
  <2>1. RowWell(c, ch) /\ base'[c][ch] = w.taken[ch] /\ From(c, ch) = w.taken[ch]
    BY <1>1, <1>3 DEF All, PromiseInv, From, At
  <2>2. /\ write'[c].taken[ch] = None /\ write'[c].next[ch] = None /\ write'[c].pc = "later"
    BY <1>2, <1>3
  <2>3. RowItems(ch, copy'[c][ch]) \cup RowItems(ch, base'[c][ch]) \subseteq RowHas(c, ch)
    BY <1>1, <2>1 DEF RowHas
  <2>4. base'[c][ch] # None =>
          RowItems(ch, copy'[c][ch]) \ RowItems(ch, base'[c][ch]) \subseteq RowYet(c, ch)
    BY <1>1, <2>1 DEF RowYet
  <2>5. base'[c][ch] # None =>
          /\ copy'[c][ch] # None \/ ch \in deleted
          /\ Follows(ch, base'[c][ch], copy'[c][ch])
    BY <1>1, <2>1 DEF RowWell
  <2>6. copy'[c][ch] # None \/ base'[c][ch] # None => Item(ch, "chat", 0) \in made
    BY <1>1, <2>1 DEF RowWell, Knows
  <2> QED
    BY <1>1, <1>3, <2>2, <2>3, <2>4, <2>5, <2>6, BasedRow
<1>5. RowsKept
  BY <1>1, <1>3, <1>4, OneRow
<1>6. ASSUME NEW ch \in Chats PROVE Lost(c, ch)'
  <2>0. Lost(c, ch) /\ Snap(c, ch) /\ TypeOK
    BY DEF All, PromiseInv, OnceInv, Inv
  <2>1. /\ ~Storing(c, ch)' /\ Of(ch, base[c])' = Of(ch, write[c].taken)
        /\ Of(ch, copy[c])' = Of(ch, copy[c]) /\ (Loaded(c, ch)' <=> Loaded(c, ch))
        /\ (Is(ch, base[c])' <=> Is(ch, write[c].taken))
    BY <1>1, <1>2, <1>3 DEF Storing, At, Of, Loaded
  <2>2. ASSUME Loaded(c, ch), Is(ch, write[c].taken)
        PROVE  Taken(ch, Of(ch, write[c].taken) \ Of(ch, copy[c]))
    <3> DEFINE m == write[c].taken[ch].msgs
    <3>1. CASE Is(ch, base[c]) /\ m = base[c][ch].msgs
      BY <2>0, <2>2, <3>1 DEF Lost, Of
    <3>2. CASE Taking(c, ch, m)
      <4>1. m # None /\ Extends(copy[c][ch].msgs, m)
        BY <3>2 DEF Taking
      <4>2. m \in Histories /\ copy[c][ch].msgs \in Histories
        BY <2>0, <2>2, <4>1, HeldIs DEF Loaded
      <4>3. Messages(m) \subseteq Messages(copy[c][ch].msgs)
        BY <4>1, <4>2, HistoryIs, ExtendsMore
      <4> QED
        BY <2>2, <4>1, <4>3 DEF Taken, Of, Loaded
    <3> QED
      BY <2>0, <2>2, <3>1, <3>2 DEF Snap
  <2> QED
    BY <1>1, <2>1, <2>2 DEF Lost, Taken
<1>7. LostKept
  BY <1>1, <1>3, <1>6, OneLost
<1> QED
  BY <1>5, <1>7

-----------------------------------------------------------------------------
(* Under the state lock.                                                     *)

\* A merge lists what is in the copy or in the index.
LEMMA MergedIsListed ==
  \A b, mine, d : MergedRow(b, mine, d) # None => mine # None \/ d # None
BY DEF MergedRow

\* What is taken of a chat's row is what its copy has; what will be listed is
\* that, merged.
LEMMA TakeStatePromises ==
  ASSUME All, NEW c \in Copies, TakeState(c)
  PROVE  RowsKept /\ LostKept
<1> DEFINE w == write[c]
           next == [ch \in Chats |-> MergedRow(base[c][ch], copy[c][ch], index[ch])]
           later == {ch \in w.own : Is(ch, index) /\ Changed(c, ch)}
           taken == Snapshot(c, later)
           files == {ch \in Chats : Is(ch, copy[c]) /\ ~Is(ch, base[c])}
           doomed == {ch \in Chats : Is(ch, base[c]) /\ next[ch] = None}
           v == [w EXCEPT !.pc = "files", !.own = {}, !.later = later, !.upTo = edits,
                          !.next = next, !.taken = taken, !.files = files,
                          !.doomed = doomed]
<1>1. /\ w \in Writes /\ w.pc = "own" /\ Goto(c, v)
      /\ UNCHANGED <<index, copy, base, made, dropped, deleted, stored>>
  BY DEF TakeState, All, Inv, TypeOK, At, history, disk
<1>2. v.pc = "files" /\ v.next = next /\ v.taken = taken
  <2> HIDE DEF w, next, later, taken, files, doomed
  <2> QED
    BY <1>1 DEF Writes
<1>3. write'[c] = v /\ \A d \in Copies \ {c} : write'[d] = write[d]
  BY <1>1 DEF All, Inv, TypeOK, Goto
<1> HIDE DEF v
<1>4. ASSUME NEW ch \in Chats PROVE RowApart(ch)' /\ RowWell(c, ch)'
  <2> DEFINE b == base[c][ch]
             k == copy[c][ch]
             t == write'[c].taken[ch]
             n == write'[c].next[ch]
             d == index[ch]
  <2>0. /\ RowApart(ch) /\ RowWell(c, ch) /\ stored \subseteq made
        /\ RowItems(ch, d) \subseteq stored
        /\ d # None => Item(ch, "chat", 0) \in made
        /\ write[c].taken[ch] = None
    BY <1>1, IndexStored DEF All, PromiseInv, MadeWell, Inv, OwedInv, LetGoOf
  <2>1. n = MergedRow(b, k, d)
    BY <1>2, <1>3
  <2>2. SameRow(k, t)
    <3>1. t = taken[ch]
      BY <1>2, <1>3
    <3>2. CASE Is(ch, copy[c])
      <4> HIDE DEF later
      <4>1. TypeOK
        BY DEF All, Inv
      <4> QED
        BY <3>1, <3>2, <4>1, TakenIs DEF SameRow
    <3>3. CASE ~Is(ch, copy[c])
      BY <3>1, <3>3 DEF Snapshot, SameRow
    <3> QED
      BY <3>2, <3>3
  <2>3. /\ From(c, ch) = b
        /\ From(c, ch)' = IF b = None THEN t ELSE b
    BY <1>1, <1>2, <1>3, <2>0 DEF From, At
  <2> HIDE DEF v, w, next, later, taken, files, doomed
  <2>4. RowItems(ch, t) = RowItems(ch, k) /\ RowItems(ch, None) = {}
    <3>1. RowItems(ch, None) = {}
      BY DEF RowItems
    <3> HIDE DEF k, t
    <3> QED
      BY <2>2, <3>1, SameRowIs
  <2>5. RowItems(ch, n) \subseteq stored \cup RowItems(ch, k)
    <3> HIDE DEF b, k, d, n
    <3> QED
      BY <2>0, <2>1, MergedItems
  <2>6. RowHas(c, ch)' \subseteq RowHas(c, ch) \cup stored
    BY <1>1, <2>4, <2>5 DEF RowHas
  <2>7. RowYet(c, ch)' \subseteq RowYet(c, ch)
    BY <1>1, <2>0, <2>3, <2>4 DEF RowYet
  <2>8. RowApart(ch)'
    <3> DEFINE X == {}
               E == {}
    <3>1. \A e \in Copies \ {c} :
            RowHas(e, ch)' = RowHas(e, ch) /\ RowYet(e, ch)' = RowYet(e, ch)
      BY <1>1, <1>3, SameRows
    <3>2. /\ X \in SUBSET RowHas(c, ch) /\ E \cap made = {} /\ E \subseteq made'
          /\ \A i \in E : RowItem(ch, i)
          /\ RowHas(c, ch)' \subseteq RowHas(c, ch) \cup stored \cup E
          /\ RowYet(c, ch)' \subseteq (RowYet(c, ch) \ X) \cup E
          /\ \A i \in stored' : RowItem(ch, i) => i \in stored \cup X
      BY <1>1, <2>6, <2>7
    <3> HIDE DEF X, E
    <3> QED
      BY <1>1, <2>0, <3>1, <3>2, RowsApart
  <2>9. RowWell(c, ch)'
    <3>1. (Knows(c, ch) \/ Is(ch, write[c].next) => Item(ch, "chat", 0) \in made)'
      <4>1. n # None => k # None \/ d # None
        <5> HIDE DEF b, k, d, n
        <5> QED
          BY <2>1, MergedIsListed
      <4>2. k # None \/ b # None => Item(ch, "chat", 0) \in made
        BY <2>0 DEF RowWell, Knows
      <4> QED
        BY <1>1, <2>0, <2>2, <4>1, <4>2 DEF Knows, SameRow
    <3>2. (Is(ch, base[c]) \/ Is(ch, write[c].taken) => Is(ch, copy[c]) \/ ch \in deleted)'
      BY <1>1, <2>0, <2>2 DEF RowWell, SameRow
    <3>3. n = MergedRow(b, t, d) /\ (b # None /\ t = None => ch \in deleted)
      <4>1. MergedRow(b, t, d) = MergedRow(b, k, d)
        <5> HIDE DEF b, k, d, t
        <5> QED
          BY <2>2, SameRowIs
      <4> QED
        BY <2>0, <2>1, <2>2, <4>1 DEF RowWell, SameRow
    <3>4. Follows(ch, b, k) /\ \A x : Follows(ch, x, x)
      BY <2>0, <2>3 DEF RowWell, Follows
    <3> DEFINE F == From(c, ch)'
    <3>5. Follows(ch, F, k) /\ Follows(ch, F, t) /\ Follows(ch, t, k)
      <4> HIDE DEF b, k, t, F
      <4>1. F = IF b = None THEN t ELSE b
        BY <2>3 DEF b, t, F
      <4> QED
        BY <2>2, <3>4, <4>1, SameRowIs
    <3>6. /\ Follows(ch, From(c, ch), copy[c][ch])'
          /\ Follows(ch, From(c, ch), write[c].taken[ch])'
          /\ Follows(ch, write[c].taken[ch], copy[c][ch])'
      BY <1>1, <3>5 DEF Follows
    <3>7. (Is(ch, write[c].taken) =>
             RowItems(ch, copy[c][ch]) \cap RowItems(ch, From(c, ch))
               \subseteq RowItems(ch, write[c].taken[ch]))'
      BY <1>1, <2>4
    <3>8. (At(c, "files") =>
             /\ write[c].next[ch] = MergedRow(base[c][ch], write[c].taken[ch], index[ch])
             /\ Is(ch, base[c]) /\ ~Is(ch, write[c].taken) => ch \in deleted)'
      BY <1>1, <3>3
    <3> QED
      BY <3>1, <3>2, <3>6, <3>7, <3>8 DEF RowWell
  <2> QED
    BY <2>8, <2>9
<1>5. RowsKept
  BY <1>1, <1>3, <1>4, OneRow
<1>6. ASSUME NEW ch \in Chats PROVE Lost(c, ch)'
  <2>1. Lost(c, ch) /\ ~Storing(c, ch)'
    BY <1>2, <1>3 DEF All, PromiseInv, Storing, At
  <2>2. /\ Of(ch, copy[c])' = Of(ch, copy[c]) /\ Of(ch, base[c])' = Of(ch, base[c])
        /\ (Loaded(c, ch)' <=> Loaded(c, ch)) /\ (Is(ch, base[c])' <=> Is(ch, base[c]))
    BY <1>1 DEF Of, Loaded
  <2> QED
    BY <1>1, <2>1, <2>2 DEF Lost, Taken
<1>7. LostKept
  BY <1>1, <1>3, <1>6, OneLost
<1> QED
  BY <1>5, <1>7

\* What is listed: what was, and what is taken and was not in the base; what
\* the copy has besides has still to be.
LEMMA StoreIndexPromises ==
  ASSUME All, TypeOK', ListedIsReadable', NEW c \in Copies, StoreIndex(c)
  PROVE  RowsKept /\ LostKept
<1> DEFINE w == write[c]
           v == [w EXCEPT !.pc = "purge", !.next = NoChats]
<1>1. /\ w \in Writes /\ w.pc = "files" /\ index' = w.next /\ Goto(c, v) /\ Recorded
      /\ UNCHANGED <<copy, base, made, dropped, deleted>>
  BY DEF StoreIndex, All, Inv, TypeOK, At
<1>2. /\ v.pc = "purge" /\ v.taken = w.taken /\ v.next = NoChats
      /\ \A ch \in Chats : NoChats[ch] = None
  <2> HIDE DEF w
  <2> QED
    BY <1>1 DEF Writes, NoChats
<1> HIDE DEF v
<1>3. write'[c] = v /\ \A d \in Copies \ {c} : write'[d] = write[d]
  BY <1>1 DEF All, Inv, TypeOK, Goto
<1>4. \A d \in Copies \ {c} : ~At(d, "files")
  BY <1>1, OneStores DEF At, All, Inv
<1>5. ASSUME NEW ch \in Chats PROVE RowApart(ch)' /\ RowWell(c, ch)'
  <2> DEFINE b == base[c][ch]
             k == copy[c][ch]
             t == w.taken[ch]
             n == w.next[ch]
             X == RowItems(ch, t) \ RowItems(ch, b)
             E == {}
  <2>0. /\ RowApart(ch) /\ RowWell(c, ch) /\ stored \subseteq made
        /\ RowItems(ch, index[ch]) \subseteq stored
    BY IndexStored DEF All, PromiseInv, MadeWell
  <2>1. /\ n = MergedRow(b, t, index[ch])
        /\ write'[c].taken = w.taken /\ write'[c].next[ch] = None
        /\ From(c, ch) = (IF b = None THEN t ELSE b) /\ From(c, ch)' = t
    BY <1>1, <1>2, <1>3, <2>0 DEF RowWell, From, At
  <2>2. RowItems(ch, n) \subseteq stored \cup X
    <3> HIDE DEF b, t, n
    <3> QED
      BY <2>0, <2>1, MergedItems
  <2>3. RowItems(ch, None) = {}
    BY DEF RowItems
  <2>4. RowHas(c, ch)' \subseteq RowHas(c, ch) /\ X \subseteq RowHas(c, ch)
    BY <1>1, <2>1, <2>3 DEF RowHas
  <2>5. RowYet(c, ch)' \subseteq RowYet(c, ch) \ X
    <3>1. t # None => RowItems(ch, k) \cap RowItems(ch, From(c, ch)) \subseteq RowItems(ch, t)
      BY <2>0 DEF RowWell
    <3>2. RowYet(c, ch)' = IF t = None THEN {} ELSE RowItems(ch, k) \ RowItems(ch, t)
      BY <1>1, <2>1 DEF RowYet
    <3>3. t # None => RowYet(c, ch) = (RowItems(ch, k) \cup RowItems(ch, t)) \ RowItems(ch, From(c, ch))
      BY <2>1 DEF RowYet
    <3> HIDE DEF k, t, b
    <3>4. CASE t = None
      BY <3>2, <3>4
    <3>5. CASE t # None
      <4> SUFFICES ASSUME NEW i \in RowYet(c, ch)' PROVE i \in RowYet(c, ch) /\ i \notin X
        OBVIOUS
      <4>1. i \in RowItems(ch, k) /\ i \notin RowItems(ch, t)
        BY <3>2, <3>5
      <4> QED
        BY <3>1, <3>3, <3>5, <4>1
    <3> QED
      BY <3>4, <3>5
  <2>6. ASSUME NEW i \in stored', RowItem(ch, i), i \notin stored PROVE i \in X
    <3>1. PICK x \in Chats : OnDiskHas(x, i)'
      BY <1>1, <2>6, DiskHasNext DEF Recorded
    <3>2. \A m : i # Item(x, "chat", 0) /\ i # Item(x, "message", m)
      BY <2>6 DEF RowItem, Item
    <3>3. i \in RowItems(x, index'[x])
      BY <3>1, <3>2 DEF OnDiskHas
    <3>4. x = ch
      BY <2>6, <3>3, RowItemIs DEF RowItem
    <3> QED
      BY <1>1, <2>2, <2>6, <3>3, <3>4
  <2>7. RowApart(ch)'
    <3>1. \A e \in Copies \ {c} :
            RowHas(e, ch)' = RowHas(e, ch) /\ RowYet(e, ch)' = RowYet(e, ch)
      BY <1>1, <1>3, SameRows
    <3>2. /\ X \in SUBSET RowHas(c, ch) /\ E \cap made = {} /\ E \subseteq made'
          /\ \A i \in E : RowItem(ch, i)
          /\ RowHas(c, ch)' \subseteq RowHas(c, ch) \cup stored \cup E
          /\ RowYet(c, ch)' \subseteq (RowYet(c, ch) \ X) \cup E
          /\ \A i \in stored' : RowItem(ch, i) => i \in stored \cup X
      BY <2>4, <2>5, <2>6
    <3>3. made \subseteq made'
      BY <1>1
    <3> HIDE DEF X, E
    <3> QED
      BY <2>0, <3>1, <3>2, <3>3, RowsApart
  <2>8. RowWell(c, ch)'
    <3>1. (Knows(c, ch) \/ Is(ch, write[c].next) => Item(ch, "chat", 0) \in made)'
      BY <1>1, <2>0, <2>1 DEF RowWell, Knows
    <3>2. Follows(ch, t, k) /\ \A x : Follows(ch, x, x)
      BY <2>0 DEF RowWell, Follows
    <3>3. /\ Follows(ch, From(c, ch), copy[c][ch])'
          /\ Follows(ch, From(c, ch), write[c].taken[ch])'
          /\ Follows(ch, write[c].taken[ch], copy[c][ch])'
      BY <1>1, <2>1, <3>2 DEF Follows
    <3>4. ~At(c, "files")'
      BY <1>2, <1>3 DEF At
    <3>5. (Is(ch, base[c]) \/ Is(ch, write[c].taken) => Is(ch, copy[c]) \/ ch \in deleted)'
      BY <1>1, <2>0, <2>1 DEF RowWell
    <3>6. (Is(ch, write[c].taken) =>
             RowItems(ch, copy[c][ch]) \cap RowItems(ch, From(c, ch))
               \subseteq RowItems(ch, write[c].taken[ch]))'
      BY <1>1, <2>1
    <3> QED
      BY <3>1, <3>3, <3>4, <3>5, <3>6 DEF RowWell
  <2> QED
    BY <2>7, <2>8
<1>6. RowsKept
  BY <1>1, <1>3, <1>4, <1>5, OneRow
<1>7. ASSUME NEW ch \in Chats PROVE Lost(c, ch)'
  <2>1. Lost(c, ch) /\ ~Storing(c, ch)'
    BY <1>2, <1>3 DEF All, PromiseInv, Storing, At
  <2>2. /\ Of(ch, copy[c])' = Of(ch, copy[c]) /\ Of(ch, base[c])' = Of(ch, base[c])
        /\ (Loaded(c, ch)' <=> Loaded(c, ch)) /\ (Is(ch, base[c])' <=> Is(ch, base[c]))
    BY <1>1 DEF Of, Loaded
  <2> QED
    BY <1>1, <2>1, <2>2 DEF Lost, Taken
<1>8. LostKept
  BY <1>1, <1>3, <1>7, OneLost
<1> QED
  BY <1>6, <1>8

-----------------------------------------------------------------------------
(* What was made and what was stored, and the messages that are in no log.   *)

\* A step that makes nothing: what it stores was made, and is in no copy of
\* what is still to be stored.
LEMMA SaidKeeps ==
  ASSUME All, TypeOK', ListedIsReadable', OnceInv', Spreads, UNCHANGED <<made, edits>>,
         stored' = stored \/ Recorded,
         \A ch \in Chats : index'[ch] = index[ch] \/ \E c \in Copies : index'[ch] = write[c].next[ch]
  PROVE  MadeWell' /\ \A ch \in Chats : SaidWell(ch)'
<1>1. \A ch \in Chats : SaidWell(ch) /\ RowApart(ch) /\ Apart(ch)'
  BY DEF All, PromiseInv, OnceInv
<1>2. MadeWell /\ \A c \in Copies, ch \in Chats : RowWell(c, ch)
  BY DEF All, PromiseInv
<1>3. New = {}
  BY DEF New, All, Inv, TypeOK
<1>4. ASSUME NEW ch \in Chats
      PROVE  Everywhere(ch)' \subseteq Everywhere(ch) /\ Yet(ch)' \subseteq Yet(ch)
  BY <1>3 DEF Spreads, SpreadIn
<1>5. ASSUME NEW i \in OnDisk' 
      PROVE  i \in made /\ Item(i.chat, "chat", 0) \in OnDisk'
  <2>1. PICK ch \in Chats : OnDiskHas(ch, i)'
    BY <1>5, DiskHasNext
  <2>2. OnDiskHas(ch, Item(ch, "chat", 0))' /\ index'[ch] # None
    BY <2>1 DEF OnDiskHas
  <2>3. Item(ch, "chat", 0) \in OnDisk'
    BY <2>2, DiskHasNext
  <2>4. Item(ch, "chat", 0) \in made /\ RowItems(ch, index'[ch]) \subseteq made
    <3>1. CASE index'[ch] = index[ch]
      <4>1. RowItems(ch, index[ch]) \subseteq stored /\ Item(ch, "chat", 0) \in made
        BY <2>2, <3>1, IndexStored
      <4> QED
        BY <1>2, <3>1, <4>1 DEF MadeWell
    <3>2. ASSUME NEW c \in Copies, index'[ch] = write[c].next[ch]
          PROVE  Item(ch, "chat", 0) \in made /\ RowItems(ch, index'[ch]) \subseteq made
      BY <1>1, <1>2, <2>2, <3>2 DEF RowWell, RowApart, RowHas
    <3> QED
      BY <3>1, <3>2
  <2>5. CASE i = Item(ch, "chat", 0)
    BY <2>3, <2>4, <2>5 DEF Item
  <2>6. CASE i \in RowItems(ch, index'[ch])
    BY <2>3, <2>4, <2>6, RowItemIs
  <2>7. ASSUME NEW n \in InLog(ch)', i = Item(ch, "message", n)
        PROVE  i \in made /\ i.chat = ch
    <3>1. n \in Everywhere(ch)
      BY <1>4, <2>7 DEF Everywhere
    <3> QED
      BY <1>1, <2>7, <3>1 DEF SaidWell, Item
  <2> QED
    BY <2>1, <2>3, <2>5, <2>6, <2>7 DEF OnDiskHas
<1>6. MadeWell'
  <2>1. stored' \subseteq made'
    BY <1>2, <1>5 DEF MadeWell, Recorded
  <2>2. ASSUME NEW i \in stored' PROVE Had(i.chat)'
    BY <1>2, <1>5, <2>2 DEF MadeWell, Recorded, Had
  <2>3. \A i \in made' : i \in Promised!Items /\ i.n <= edits'
    BY <1>2 DEF MadeWell
  <2> QED
    BY <2>1, <2>2, <2>3 DEF MadeWell
<1>7. ASSUME NEW ch \in Chats PROVE SaidWell(ch)'
  <2>1. \A n \in Everywhere(ch)' : Item(ch, "message", n) \in made'
    BY <1>1, <1>4 DEF SaidWell
  <2>2. ASSUME NEW n \in Yet(ch)' PROVE Item(ch, "message", n) \notin stored'
    <3>1. Item(ch, "message", n) \notin stored
      BY <1>1, <1>4, <2>2 DEF SaidWell
    <3>2. n \notin InLog(ch)'
      BY <1>1, <2>2 DEF Yet, Apart
    <3>3. Item(ch, "message", n) \notin OnDisk'
      <4> SUFFICES ASSUME Item(ch, "message", n) \in OnDisk' PROVE FALSE
        OBVIOUS
      <4>1. PICK x \in Chats : OnDiskHas(x, Item(ch, "message", n))'
        BY DiskHasNext
      <4>2. /\ Item(ch, "message", n) # Item(x, "chat", 0)
            /\ Item(ch, "message", n) \notin RowItems(x, index'[x])
            /\ \A m : Item(ch, "message", n) = Item(x, "message", m) => x = ch /\ m = n
        <5>1. Item(ch, "message", n).kind = "message"
          BY DEF Item
        <5> QED
          BY <5>1, ItemIs, RowItemIs
      <4> QED
        BY <3>2, <4>1, <4>2 DEF OnDiskHas
    <3> QED
      BY <3>1, <3>3 DEF Recorded
  <2> QED
    BY <2>1, <2>2 DEF SaidWell
<1> QED
  BY <1>6, <1>7

-----------------------------------------------------------------------------
(* Edits.                                                                    *)

\* What an edit puts in a row is made by it; what it takes out of a copy is
\* dropped, or the chat deleted.
FollowsIn(S, ch, old, new) ==
  old # None /\ new # None =>
    /\ new.title # old.title => new.title # 0
    /\ \A n \in old.queue \ new.queue : Item(ch, "queued", n) \in S
Fresh(ch) == {i \in made' \ made : RowItem(ch, i)}
EditWell(c, ch, row) ==
  /\ Edit(c, ch, row) /\ made \subseteq made' /\ dropped \subseteq dropped'
  /\ deleted \subseteq deleted' /\ edits' \in Nat /\ edits <= edits'
  /\ \A i \in made' \ made : i \in Promised!Items /\ i.n <= edits'
  /\ row = None => ch \in deleted'
  /\ row # None =>
       /\ Item(ch, "chat", 0) \in made'
       /\ RowItems(ch, row) \subseteq RowItems(ch, copy[c][ch]) \cup Fresh(ch)
       /\ row.msgs # None =>
            \A n \in Messages(row.msgs) : n \in Of(ch, copy[c]) \/ Item(ch, "message", n) \in made'
       /\ ~Is(ch, copy[c]) => ~Is(ch, base[c]) /\ ~Is(ch, write[c].taken)
       /\ Is(ch, copy[c]) =>
            /\ row.title # copy[c][ch].title => row.title # 0
            /\ \A n \in copy[c][ch].queue \ row.queue : Item(ch, "queued", n) \in dropped'
            /\ row.msgs # None =>
                 /\ Loaded(c, ch)
                 /\ \A n \in Of(ch, copy[c]) \ Messages(row.msgs) : Item(ch, "message", n) \in dropped'

\* Such an edit keeps the invariant.
LEMMA EditPromises ==
  ASSUME All, NEW c \in Copies, NEW ch \in Chats, NEW row, EditWell(c, ch, row), Spreads
  PROVE  RowsKept /\ LostKept /\ MadeWell' /\ \A x \in Chats : SaidWell(x)'
<1>0. /\ UNCHANGED <<index, log, gens, base, write, stored>>
      /\ made \subseteq made' /\ dropped \subseteq dropped' /\ deleted \subseteq deleted'
      /\ edits' \in Nat /\ edits <= edits' /\ edits \in Nat
  BY DEF EditWell, Edit, disk, All, Inv, TypeOK
<1>1. /\ copy'[c][ch] = row
      /\ \A d \in Copies, x \in Chats : d # c \/ x # ch => copy'[d][x] = copy[d][x]
      /\ \A d \in Copies \ {c} : copy'[d] = copy[d]
  BY DEF EditWell, Edit, All, Inv, TypeOK
<1>2. MadeWell /\ \A x \in Chats : SaidWell(x) /\ RowApart(x) /\ RowWell(c, x) /\ Lost(c, x)
  BY DEF All, PromiseInv
<1>3. ASSUME NEW x \in Chats \ {ch} PROVE RowApart(x)' /\ RowWell(c, x)'
  <2> DEFINE X == {}
             E == {}
  <2>1. \A d \in Copies :
          RowHas(d, x)' = RowHas(d, x) /\ RowYet(d, x)' = RowYet(d, x)
    BY <1>0, <1>1, SameRows
  <2>2. /\ X \in SUBSET RowHas(c, x) /\ E \cap made = {} /\ E \subseteq made'
        /\ \A i \in E : RowItem(x, i)
        /\ RowHas(c, x)' \subseteq RowHas(c, x) \cup stored \cup E
        /\ RowYet(c, x)' \subseteq (RowYet(c, x) \ X) \cup E
        /\ \A i \in stored' : RowItem(x, i) => i \in stored \cup X
    BY <1>0, <2>1
  <2> HIDE DEF X, E
  <2>3. RowApart(x)'
    BY <1>0, <1>2, <2>1, <2>2, RowsApart DEF MadeWell
  <2>4. RowWell(c, x)'
    BY <1>0, <1>1, <1>2, RowWellStays
  <2> QED
    BY <2>3, <2>4
<1> DEFINE k == copy[c][ch]
           t == write[c].taken[ch]
           F == From(c, ch)
<1>4. From(c, ch)' = F /\ (F = base[c][ch] \/ F = t)
  BY <1>0 DEF From, At
<1>5. /\ row = None => ch \in deleted'
      /\ row # None => /\ Item(ch, "chat", 0) \in made'
                       /\ RowItems(ch, row) \subseteq RowItems(ch, k) \cup Fresh(ch)
                       /\ k = None => base[c][ch] = None /\ t = None
  BY DEF EditWell
<1>6. RowItems(ch, None) = {} /\ RowHas(c, ch) \subseteq made
  BY <1>2 DEF RowItems, RowApart
<1>7. RowItems(ch, row) \subseteq RowItems(ch, k) \cup Fresh(ch)
  BY <1>5, <1>6
<1>8. RowHas(c, ch)' \subseteq RowHas(c, ch) \cup Fresh(ch)
  BY <1>0, <1>1, <1>7 DEF RowHas
<1>9. RowYet(c, ch)' \subseteq RowYet(c, ch) \cup Fresh(ch)
  BY <1>0, <1>1, <1>4, <1>7 DEF RowYet
<1>10. RowApart(ch)'
  <2> DEFINE X == {}
             E == Fresh(ch)
  <2>1. \A d \in Copies \ {c} :
          RowHas(d, ch)' = RowHas(d, ch) /\ RowYet(d, ch)' = RowYet(d, ch)
    BY <1>0, <1>1, SameRows
  <2>2. /\ X \in SUBSET RowHas(c, ch) /\ E \cap made = {} /\ E \subseteq made'
        /\ \A i \in E : RowItem(ch, i)
        /\ RowHas(c, ch)' \subseteq RowHas(c, ch) \cup stored \cup E
        /\ RowYet(c, ch)' \subseteq (RowYet(c, ch) \ X) \cup E
        /\ \A i \in stored' : RowItem(ch, i) => i \in stored \cup X
    BY <1>0, <1>8, <1>9 DEF Fresh
  <2> HIDE DEF X, E
  <2> QED
    BY <1>0, <1>2, <2>1, <2>2, RowsApart DEF MadeWell
<1>11. ASSUME NEW x, Follows(ch, x, k), k = None => x = None PROVE FollowsIn(dropped', ch, x, row)
  <2> SUFFICES ASSUME x # None, row # None
               PROVE  /\ row.title # x.title => row.title # 0
                      /\ \A n \in x.queue \ row.queue : Item(ch, "queued", n) \in dropped'
    BY DEF FollowsIn
  <2>1. /\ k # None
        /\ row.title # k.title => row.title # 0
        /\ \A n \in k.queue \ row.queue : Item(ch, "queued", n) \in dropped'
    BY <1>11 DEF EditWell
  <2> QED
    BY <1>0, <1>11, <2>1 DEF Follows
<1>12. RowWell(c, ch)'
  <2>0. RowWell(c, ch)
    BY <1>2
  <2>1. (Knows(c, ch) \/ Is(ch, write[c].next) => Item(ch, "chat", 0) \in made)'
    BY <1>0, <1>1, <1>5, <2>0 DEF RowWell, Knows
  <2>2. (Is(ch, base[c]) \/ Is(ch, write[c].taken) => Is(ch, copy[c]) \/ ch \in deleted)'
    BY <1>0, <1>1, <1>5
  <2>3. (At(c, "files") =>
           /\ write[c].next[ch] = MergedRow(base[c][ch], write[c].taken[ch], index[ch])
           /\ Is(ch, base[c]) /\ ~Is(ch, write[c].taken) => ch \in deleted)'
    BY <1>0, <2>0 DEF RowWell, At
  <2>4. Follows(ch, F, k) /\ Follows(ch, F, t) /\ Follows(ch, t, k)
    BY <2>0 DEF RowWell
  <2>5. FollowsIn(dropped', ch, F, row) /\ FollowsIn(dropped', ch, t, row)
    <3> HIDE DEF F, t, k
    <3>1. CASE row = None
      BY <3>1 DEF FollowsIn
    <3>2. CASE row # None
      <4>1. k = None => F = None /\ t = None
        BY <1>4, <1>5, <3>2
      <4> QED
        BY <1>11, <2>4, <4>1
    <3> QED
      BY <3>1, <3>2
  <2>6. FollowsIn(dropped', ch, F, t)
    BY <1>0, <2>4 DEF Follows, FollowsIn
  <2>7. /\ Follows(ch, From(c, ch), copy[c][ch])'
        /\ Follows(ch, From(c, ch), write[c].taken[ch])'
        /\ Follows(ch, write[c].taken[ch], copy[c][ch])'
    BY <1>0, <1>1, <1>4, <2>5, <2>6 DEF Follows, FollowsIn
  <2>8. t # None => RowItems(ch, row) \cap RowItems(ch, F) \subseteq RowItems(ch, t)
    <3>1. t # None => RowItems(ch, k) \cap RowItems(ch, F) \subseteq RowItems(ch, t)
      BY <2>0 DEF RowWell
    <3>2. RowItems(ch, F) \subseteq made
      BY <1>4, <1>6 DEF RowHas
    <3>3. Fresh(ch) \cap made = {}
      BY DEF Fresh
    <3> HIDE DEF F, t, k
    <3> QED
      BY <1>7, <3>1, <3>2, <3>3
  <2>9. (Is(ch, write[c].taken) =>
           RowItems(ch, copy[c][ch]) \cap RowItems(ch, From(c, ch))
             \subseteq RowItems(ch, write[c].taken[ch]))'
    BY <1>0, <1>1, <1>4, <2>8
  <2> QED
    BY <2>1, <2>2, <2>3, <2>7, <2>9 DEF RowWell
<1>13. RowsKept
  BY <1>0, <1>1, <1>3, <1>10, <1>12, OneRow
<1>14. ASSUME NEW x \in Chats PROVE Lost(c, x)'
  <2>1. /\ Of(x, base[c])' = Of(x, base[c]) /\ (Is(x, base[c])' <=> Is(x, base[c]))
        /\ (Storing(c, x)' <=> Storing(c, x)) /\ Now(c, x)' = Now(c, x)
    BY <1>0 DEF Of, Storing, At, Now
  <2>2. ASSUME Loaded(c, x)', Is(x, base[c])
        PROVE  Loaded(c, x) /\ \A n \in Of(x, copy[c]) \ Of(x, copy[c])' : Item(x, "message", n) \in dropped'
    <3>1. CASE x # ch
      <4>1. Of(x, copy[c])' = Of(x, copy[c]) /\ Loaded(c, x)
        BY <1>1, <2>2, <3>1 DEF Of, Loaded
      <4> QED
        BY <4>1
    <3>2. CASE x = ch
      <4>1. row # None /\ row.msgs # None
        BY <1>1, <2>2, <3>2 DEF Loaded
      <4>2. Of(x, copy[c])' = Messages(row.msgs)
        BY <1>1, <3>2, <4>1 DEF Of
      <4> QED
        BY <2>2, <3>2, <4>1, <4>2 DEF EditWell
    <3> QED
      BY <3>1, <3>2
  <2> QED
    BY <1>0, <1>2, <2>1, <2>2 DEF Lost, Taken
<1>15. LostKept
  BY <1>0, <1>1, <1>14, OneLost
<1>16. MadeWell'
  <2>1. stored' \subseteq made' /\ \A i \in stored' : Had(i.chat)'
    BY <1>0, <1>2 DEF MadeWell, Had
  <2>2. ASSUME NEW i \in made' PROVE i \in Promised!Items /\ i.n <= edits'
    <3>1. CASE i \in made
      <4>1. i \in Promised!Items /\ i.n <= edits
        BY <1>2, <3>1 DEF MadeWell
      <4>2. i.n \in Nat
        BY <4>1 DEF Promised!Items
      <4> QED
        BY <1>0, <4>1, <4>2
    <3>2. CASE i \notin made
      BY <2>2, <3>2 DEF EditWell
    <3> QED
      BY <3>1, <3>2
  <2> QED
    BY <2>1, <2>2 DEF MadeWell
<1>17. ASSUME NEW x \in Chats PROVE SaidWell(x)'
  <2>1. InLog(x)' = InLog(x) /\ InTail(x)' = InTail(x)
    BY <1>0 DEF InLog, InTail
  <2>2. ASSUME NEW n \in Everywhere(x)' PROVE Item(x, "message", n) \in made'
    <3>1. CASE n \in Everywhere(x)
      BY <1>0, <1>2, <3>1 DEF SaidWell
    <3>2. CASE n \notin Everywhere(x)
      <4>1. PICK d \in Copies : n \in Has(d, x)' /\ n \notin Has(d, x)
        BY <2>1, <2>2, <3>2 DEF Everywhere
      <4>2. /\ Of(x, base[d])' = Of(x, base[d]) /\ Now(d, x)' = Now(d, x)
            /\ Of(x, write[d].taken)' = Of(x, write[d].taken)
        BY <1>0 DEF Of, Now, Storing, At
      <4>3. n \in Of(x, copy[d])' /\ n \notin Of(x, copy[d])
        BY <4>1, <4>2 DEF Has
      <4>4. d = c /\ x = ch
        BY <1>1, <4>3 DEF Of
      <4>5. row # None /\ row.msgs # None /\ n \in Messages(row.msgs)
        BY <1>1, <4>3, <4>4 DEF Of
      <4> QED
        BY <4>3, <4>4, <4>5 DEF EditWell
    <3> QED
      BY <3>1, <3>2
  <2>3. ASSUME NEW n \in Yet(x)' PROVE Item(x, "message", n) \notin stored'
    <3>1. n \in Yet(x) \/ n \in New
      BY <2>3 DEF Spreads, SpreadIn
    <3>2. CASE n \in Yet(x)
      BY <1>0, <1>2, <3>2 DEF SaidWell
    <3>3. CASE n \in New
      <4>1. n \in Nat /\ edits < n
        BY <3>3 DEF New
      <4>2. Item(x, "message", n).n = n
        BY DEF Item
      <4>3. Item(x, "message", n) \notin made
        BY <1>0, <1>2, <4>1, <4>2 DEF MadeWell
      <4> QED
        BY <1>0, <1>2, <4>3 DEF MadeWell
    <3> QED
      BY <3>1, <3>2, <3>3
  <2> QED
    BY <2>2, <2>3 DEF SaidWell
<1> QED
  BY <1>13, <1>15, <1>16, <1>17

\* One more takes none away.
LEMMA MoreHolds ==
  ASSUME NEW S, NEW s \in Seq(S), NEW e \in S
  PROVE  Messages(s) \subseteq Messages(Append(s, e))
<1>1. /\ Len(Append(s, e)) = Len(s) + 1 /\ Len(s) \in Nat
      /\ \A i \in 1..Len(s) : Append(s, e)[i] = s[i]
  OBVIOUS
<1>2. \A i \in 1..Len(s) : i \in 1..Len(Append(s, e))
  BY <1>1
<1> QED
  BY <1>1, <1>2 DEF Messages

\* Taking the last one takes no other.
LEMMA AllButLast ==
  ASSUME NEW S, NEW s \in Seq(S), s # <<>>
  PROVE  Messages(s) \subseteq Messages(SubSeq(s, 1, Len(s) - 1)) \cup {s[Len(s)]}
<1> DEFINE t == SubSeq(s, 1, Len(s) - 1)
<1>0. Len(s) \in Nat
  OBVIOUS
<1>1. 1 \in Int /\ Len(s) - 1 \in Int /\ \A i \in 1..(Len(s) - 1) : s[i] \in S
  OBVIOUS
<1>2. /\ Len(t) = IF 1 <= Len(s) - 1 THEN Len(s) - 1 ELSE 0
      /\ \A i \in 1..(Len(s) - 1 - 1 + 1) : t[i] = s[1 + i - 1]
  BY <1>1, SubSeqProperties
<1> HIDE DEF t
<1>3. ASSUME NEW i \in 1..Len(s), i # Len(s) PROVE i \in 1..Len(t) /\ t[i] = s[i]
  <2>1. i \in 1..(Len(s) - 1 - 1 + 1) /\ 1 + i - 1 = i /\ 1 <= Len(s) - 1 /\ i \in 1..(Len(s) - 1)
    BY <1>0, <1>3
  <2> QED
    BY <1>2, <2>1
<1> QED
  BY <1>3 DEF Messages, t

\* Every edit is such an edit.
LEMMA EditingIsWell ==
  ASSUME All, NEW c \in Copies, Editing(c)
  PROVE  \E ch \in Chats, row \in {None} \cup Held : EditWell(c, ch, row)
<1>1. PICK ch \in Chats :
        Say(c, ch) \/ Rename(c, ch) \/ Queue(c, ch) \/ Create(c, ch)
          \/ Unqueue(c, ch) \/ Undo(c, ch) \/ Delete(c, ch)
  BY DEF Editing
<1>2. /\ edits \in 0..MaxEdits /\ MaxEdits \in Nat /\ edits \in Nat
      /\ edits < MaxEdits => edits + 1 \in 1..MaxEdits /\ edits + 1 \in 0..MaxEdits
      /\ edits <= edits /\ edits < edits + 1 /\ edits <= edits + 1 /\ edits + 1 \in Nat
      /\ edits + 1 # 0
  BY StateStoreAssumption DEF All, Inv, TypeOK
<1>3. (Is(ch, copy[c]) => copy[c][ch] \in Held) /\ \A row \in Held : row # None
  BY StateStoreAssumption DEF All, Inv, TypeOK
<1>4. Is(ch, copy[c]) /\ copy[c][ch].msgs # None => copy[c][ch].msgs \in Histories
  BY <1>3 DEF Held
<1>5. Is(ch, copy[c]) => Item(ch, "chat", 0) \in made
  BY DEF All, PromiseInv, RowWell, Knows
<1>6. \A k \in Promised!Kinds, n \in Nat : Item(ch, k, n) \in Promised!Items
  BY DEF Promised!Items, Item
<1>7. "chat" \in Promised!Kinds /\ "title" \in Promised!Kinds /\ "queued" \in Promised!Kinds
        /\ "message" \in Promised!Kinds
  BY DEF Promised!Kinds
<1>8. \A k, n : Item(ch, k, n).n = n /\ Item(ch, k, n).kind = k /\ Item(ch, k, n).chat = ch
  BY DEF Item
<1>9. \A k : Item(ch, k, edits + 1) \notin made
  <2>1. ~(edits + 1 <= edits)
    BY <1>2
  <2> QED
    BY <1>8, <2>1 DEF All, PromiseInv, MadeWell
<1>10. Is(ch, copy[c]) /\ copy[c][ch].msgs # None => Of(ch, copy[c]) = Messages(copy[c][ch].msgs)
  BY DEF Of
\* An edit that keeps or adds: with what it makes.
<1>11. ASSUME NEW k \in {"title", "queued", "message"}, NEW row \in Held,
              Loaded(c, ch), edits < MaxEdits, edits' = edits + 1, Edit(c, ch, row),
              made' = made \cup {Item(ch, k, edits + 1)},
              UNCHANGED <<dropped, deleted>>,
              row.title = copy[c][ch].title \/ (k = "title" /\ row.title = edits + 1),
              copy[c][ch].queue \subseteq row.queue,
              \A n \in row.queue : n \in copy[c][ch].queue \/ (k = "queued" /\ n = edits + 1),
              row.msgs # None,
              Of(ch, copy[c]) \subseteq Messages(row.msgs),
              \A n \in Messages(row.msgs) : n \in Of(ch, copy[c]) \/ (k = "message" /\ n = edits + 1)
       PROVE  EditWell(c, ch, row)
  <2>1. made' = made \cup {Item(ch, k, edits + 1)}
    BY <1>11
  <2>2. Is(ch, copy[c]) /\ row # None
    BY <1>3, <1>11 DEF Loaded
  <2>3. Item(ch, k, edits + 1) \in Promised!Items
    BY <1>2, <1>6, <1>7
  <2>4. ASSUME NEW i \in RowItems(ch, row) PROVE i \in RowItems(ch, copy[c][ch]) \cup Fresh(ch)
    <3>1. \/ \E n : n # 0 /\ i = Item(ch, "title", n) /\ n = row.title
          \/ \E n \in row.queue : i = Item(ch, "queued", n)
      BY <2>4 DEF RowItems
    <3>2. i = Item(ch, k, edits + 1) => i \in Fresh(ch)
      BY <1>8, <1>9, <2>1, <2>4, RowItemsAre DEF Fresh
    <3>3. CASE \E n : n # 0 /\ i = Item(ch, "title", n) /\ n = row.title
      BY <1>11, <2>2, <3>2, <3>3, RowItemsAre
    <3>4. CASE \E n \in row.queue : i = Item(ch, "queued", n)
      BY <1>11, <2>2, <3>2, <3>4, RowItemsAre
    <3> QED
      BY <3>1, <3>3, <3>4
  <2>5. \A i \in made' \ made : i \in Promised!Items /\ i.n <= edits'
    BY <1>2, <1>8, <1>11, <2>1, <2>3
  <2>6. /\ made \subseteq made' /\ dropped \subseteq dropped' /\ deleted \subseteq deleted'
        /\ edits' \in Nat /\ edits <= edits' /\ Item(ch, "chat", 0) \in made'
    BY <1>2, <1>5, <1>11, <2>1, <2>2
  <2>7. \A n \in Messages(row.msgs) : n \in Of(ch, copy[c]) \/ Item(ch, "message", n) \in made'
    BY <1>11, <2>1
  <2>8. row.title # copy[c][ch].title => row.title # 0
    BY <1>2, <1>11
  <2> QED
    BY <1>11, <2>2, <2>4, <2>5, <2>6, <2>7, <2>8 DEF EditWell
\* One that takes out: what it does not leave is dropped.
<1>12. ASSUME NEW row \in Held, Is(ch, copy[c]), edits' = edits, Edit(c, ch, row),
              made' = made, dropped \subseteq dropped', deleted' = deleted,
              row.title = copy[c][ch].title, row.queue \subseteq copy[c][ch].queue,
              \A n \in copy[c][ch].queue \ row.queue : Item(ch, "queued", n) \in dropped',
              row.msgs # None =>
                /\ Loaded(c, ch) /\ Messages(row.msgs) \subseteq Of(ch, copy[c])
                /\ \A n \in Of(ch, copy[c]) \ Messages(row.msgs) : Item(ch, "message", n) \in dropped'
       PROVE  EditWell(c, ch, row)
  <2>1. row # None
    BY <1>3, <1>12
  <2>2. RowItems(ch, row) \subseteq RowItems(ch, copy[c][ch])
    BY <1>12, <2>1 DEF RowItems
  <2> QED
    BY <1>2, <1>5, <1>12, <2>1, <2>2 DEF EditWell
<1>13. ASSUME Say(c, ch) PROVE \E row \in {None} \cup Held : EditWell(c, ch, row)
  <2> DEFINE row == [copy[c][ch] EXCEPT !.msgs = Append(@, edits + 1)]
  <2>1. /\ Loaded(c, ch) /\ edits < MaxEdits /\ edits' = edits + 1 /\ Edit(c, ch, row)
        /\ UNCHANGED <<dropped, deleted>>
        /\ made' = made \cup {Item(ch, "message", edits + 1)}
    BY <1>13 DEF Say, Adds
  <2>2. /\ Append(copy[c][ch].msgs, edits + 1) \in Histories
        /\ \A n \in Messages(Append(copy[c][ch].msgs, edits + 1)) :
             n \in Messages(copy[c][ch].msgs) \/ n = edits + 1
    BY <1>2, <1>4, <2>1, OneMore DEF Loaded, Histories
  <2>3. /\ row \in Held
        /\ row.title = copy[c][ch].title /\ row.queue = copy[c][ch].queue
        /\ row.msgs = Append(copy[c][ch].msgs, edits + 1)
    BY <1>3, <2>1, <2>2 DEF Loaded, Held
  <2>4. Messages(copy[c][ch].msgs) \subseteq Messages(Append(copy[c][ch].msgs, edits + 1))
    <3>1. copy[c][ch].msgs \in Seq(1..MaxEdits) /\ edits + 1 \in 1..MaxEdits
      BY <1>2, <1>4, <2>1 DEF Loaded, Histories
    <3> QED
      BY <3>1, MoreHolds
  <2>5. Of(ch, copy[c]) = Messages(copy[c][ch].msgs) /\ row.msgs # None
    BY <1>10, <2>1, <2>2, <2>3, HistoryIs DEF Loaded
  <2> HIDE DEF row
  <2>6. \A n \in Messages(row.msgs) : n \in Of(ch, copy[c]) \/ n = edits + 1
    BY <2>2, <2>3, <2>5
  <2>7. Of(ch, copy[c]) \subseteq Messages(row.msgs)
    BY <2>3, <2>4, <2>5
  <2>8. EditWell(c, ch, row)
    <3> DEFINE k == "message"
    <3>1. /\ k \in {"title", "queued", "message"}
          /\ made' = made \cup {Item(ch, k, edits + 1)}
          /\ row.title = copy[c][ch].title \/ (k = "title" /\ row.title = edits + 1)
          /\ copy[c][ch].queue \subseteq row.queue
          /\ \A n \in row.queue : n \in copy[c][ch].queue \/ (k = "queued" /\ n = edits + 1)
          /\ \A n \in Messages(row.msgs) : n \in Of(ch, copy[c]) \/ (k = "message" /\ n = edits + 1)
      BY <2>1, <2>3, <2>6
    <3> HIDE DEF k
    <3> QED
      BY <1>11, <2>1, <2>3, <2>5, <2>7, <3>1
  <2> QED
    BY <2>3, <2>8
<1>14. ASSUME Rename(c, ch) PROVE \E row \in {None} \cup Held : EditWell(c, ch, row)
  <2> DEFINE row == [copy[c][ch] EXCEPT !.title = edits + 1]
  <2>1. /\ Loaded(c, ch) /\ edits < MaxEdits /\ edits' = edits + 1 /\ Edit(c, ch, row)
        /\ UNCHANGED <<dropped, deleted>>
        /\ made' = made \cup {Item(ch, "title", edits + 1)}
    BY <1>14 DEF Rename, Adds
  <2>2. /\ row \in Held /\ row.msgs = copy[c][ch].msgs
        /\ row.title = edits + 1 /\ row.queue = copy[c][ch].queue
    BY <1>2, <1>3, <2>1 DEF Loaded, Held
  <2>3. Of(ch, copy[c]) = Messages(row.msgs) /\ row.msgs # None
    BY <1>10, <2>1, <2>2 DEF Loaded
  <2> HIDE DEF row
  <2>4. EditWell(c, ch, row)
    <3> DEFINE k == "title"
    <3>1. /\ k \in {"title", "queued", "message"}
          /\ made' = made \cup {Item(ch, k, edits + 1)}
          /\ row.title = copy[c][ch].title \/ (k = "title" /\ row.title = edits + 1)
          /\ copy[c][ch].queue \subseteq row.queue
          /\ \A n \in row.queue : n \in copy[c][ch].queue \/ (k = "queued" /\ n = edits + 1)
      BY <2>1, <2>2
    <3>2. /\ Of(ch, copy[c]) \subseteq Messages(row.msgs)
          /\ \A n \in Messages(row.msgs) : n \in Of(ch, copy[c]) \/ (k = "message" /\ n = edits + 1)
      BY <2>3
    <3> HIDE DEF k
    <3> QED
      BY <1>11, <2>1, <2>2, <2>3, <3>1, <3>2
  <2> QED
    BY <2>2, <2>4
<1>15. ASSUME Queue(c, ch) PROVE \E row \in {None} \cup Held : EditWell(c, ch, row)
  <2> DEFINE row == [copy[c][ch] EXCEPT !.queue = @ \cup {edits + 1}]
  <2>1. /\ Loaded(c, ch) /\ edits < MaxEdits /\ edits' = edits + 1 /\ Edit(c, ch, row)
        /\ UNCHANGED <<dropped, deleted>>
        /\ made' = made \cup {Item(ch, "queued", edits + 1)}
    BY <1>15 DEF Queue, Adds
  <2>2. /\ row \in Held /\ row.msgs = copy[c][ch].msgs
        /\ row.title = copy[c][ch].title
        /\ row.queue = copy[c][ch].queue \cup {edits + 1}
    BY <1>2, <1>3, <2>1 DEF Loaded, Held
  <2>3. Of(ch, copy[c]) = Messages(row.msgs) /\ row.msgs # None
    BY <1>10, <2>1, <2>2 DEF Loaded
  <2> HIDE DEF row
  <2>4. EditWell(c, ch, row)
    <3> DEFINE k == "queued"
    <3>1. /\ k \in {"title", "queued", "message"}
          /\ made' = made \cup {Item(ch, k, edits + 1)}
          /\ row.title = copy[c][ch].title \/ (k = "title" /\ row.title = edits + 1)
          /\ copy[c][ch].queue \subseteq row.queue
          /\ \A n \in row.queue : n \in copy[c][ch].queue \/ (k = "queued" /\ n = edits + 1)
      BY <2>1, <2>2
    <3>2. /\ Of(ch, copy[c]) \subseteq Messages(row.msgs)
          /\ \A n \in Messages(row.msgs) : n \in Of(ch, copy[c]) \/ (k = "message" /\ n = edits + 1)
      BY <2>3
    <3> HIDE DEF k
    <3> QED
      BY <1>11, <2>1, <2>2, <2>3, <3>1, <3>2
  <2> QED
    BY <2>2, <2>4
<1>16. ASSUME Create(c, ch) PROVE \E row \in {None} \cup Held : EditWell(c, ch, row)
  <2> DEFINE row == [title |-> 0, queue |-> {}, msgs |-> <<edits + 1>>, at |-> Nowhere]
  <2>1. /\ gens[ch] = 0 /\ ch \notin deleted /\ \A d \in Copies : ~Is(ch, copy[d])
        /\ edits < MaxEdits /\ edits' = edits + 1 /\ Edit(c, ch, row)
        /\ UNCHANGED <<dropped, deleted>>
        /\ made' = made \cup {Item(ch, x, IF x = "chat" THEN 0 ELSE edits') : x \in {"chat", "message"}}
    BY <1>16 DEF Create, Adds
  <2>2. made' = made \cup {Item(ch, "chat", 0), Item(ch, "message", edits + 1)}
    BY <2>1
  <2>3. /\ row \in Held /\ row.msgs = <<edits + 1>> /\ row.title = 0 /\ row.queue = {}
    BY <1>2, <2>1 DEF Held, Histories, Nowhere, Spots
  <2>4. Messages(<<edits + 1>>) = {edits + 1}
    BY DEF Messages
  <2> HIDE DEF row
  <2>5. row # None /\ RowItems(ch, row) = {}
    BY <1>3, <2>3 DEF RowItems
  <2>6. ~Is(ch, base[c]) /\ ~Is(ch, write[c].taken)
    <3>1. Listing(c, ch) /\ ~Had(ch) /\ ~Is(ch, base[c])
      BY <2>1 DEF All, Inv, RecordInv, DiskStored, Listing
    <3> QED
      BY <2>1, <3>1 DEF Listing
  <2>7. /\ Item(ch, "chat", 0) \in Promised!Items /\ Item(ch, "message", edits + 1) \in Promised!Items
        /\ Item(ch, "chat", 0).n <= edits' /\ Item(ch, "message", edits + 1).n <= edits'
    BY <1>2, <1>6, <1>7, <1>8, <2>1
  <2>8. EditWell(c, ch, row)
    BY <1>2, <2>1, <2>2, <2>3, <2>4, <2>5, <2>6, <2>7 DEF EditWell
  <2> QED
    BY <2>3, <2>8
<1>17. ASSUME Unqueue(c, ch) PROVE \E row \in {None} \cup Held : EditWell(c, ch, row)
  <2>1. PICK n \in copy[c][ch].queue :
          /\ Removes(c, ch, [copy[c][ch] EXCEPT !.queue = @ \ {n}])
          /\ dropped' = dropped \cup {Item(ch, "queued", n)}
    BY <1>17 DEF Unqueue
  <2> DEFINE row == [copy[c][ch] EXCEPT !.queue = @ \ {n}]
  <2>2. /\ Is(ch, copy[c]) /\ edits' = edits /\ Edit(c, ch, row)
        /\ deleted' = deleted /\ made' = made
    BY <1>17, <2>1 DEF Unqueue, Removes
  <2>3. /\ row \in Held /\ row.msgs = copy[c][ch].msgs
        /\ row.title = copy[c][ch].title /\ row.queue = copy[c][ch].queue \ {n}
    BY <1>3, <2>2 DEF Held
  <2> HIDE DEF row
  <2>4. row.msgs # None => Loaded(c, ch) /\ Of(ch, copy[c]) = Messages(row.msgs)
    BY <1>10, <2>2, <2>3 DEF Loaded
  <2>5. EditWell(c, ch, row)
    BY <1>12, <2>1, <2>2, <2>3, <2>4
  <2> QED
    BY <2>3, <2>5
<1>18. ASSUME Undo(c, ch) PROVE \E row \in {None} \cup Held : EditWell(c, ch, row)
  <2> DEFINE msgs == copy[c][ch].msgs
             row == [copy[c][ch] EXCEPT !.msgs = SubSeq(@, 1, Len(@) - 1)]
  <2>1. /\ Loaded(c, ch) /\ msgs # <<>> /\ edits' = edits /\ made' = made
        /\ Edit(c, ch, row) /\ deleted' = deleted
        /\ dropped' = dropped \cup {Item(ch, "message", msgs[Len(msgs)])}
    BY <1>18 DEF Undo, Removes
  <2>2. msgs \in Seq(1..MaxEdits)
    BY <1>4, <2>1 DEF Loaded, Histories
  <2>3. /\ SubSeq(msgs, 1, Len(msgs) - 1) \in Histories
        /\ Messages(SubSeq(msgs, 1, Len(msgs) - 1)) \subseteq Messages(msgs)
        /\ Messages(msgs) \subseteq
             Messages(SubSeq(msgs, 1, Len(msgs) - 1)) \cup {msgs[Len(msgs)]}
    <3> HIDE DEF msgs
    <3> QED
      BY <2>1, <2>2, ButLast, AllButLast DEF Histories
  <2>4. /\ row \in Held
        /\ row.title = copy[c][ch].title /\ row.queue = copy[c][ch].queue
        /\ row.msgs = SubSeq(msgs, 1, Len(msgs) - 1)
    BY <1>3, <2>1, <2>3 DEF Loaded, Held
  <2>5. Of(ch, copy[c]) = Messages(msgs) /\ Is(ch, copy[c])
    BY <1>10, <2>1 DEF Loaded
  <2> HIDE DEF row, msgs
  <2>6. EditWell(c, ch, row)
    BY <1>12, <2>1, <2>3, <2>4, <2>5
  <2> QED
    BY <2>4, <2>6
<1>19. ASSUME Delete(c, ch) PROVE \E row \in {None} \cup Held : EditWell(c, ch, row)
  <2>1. /\ edits' = edits /\ Edit(c, ch, None)
        /\ deleted' = deleted \cup {ch} /\ UNCHANGED <<made, dropped>>
    BY <1>19 DEF Delete, Removes
  <2> QED
    BY <1>2, <2>1 DEF EditWell
<1> QED
  BY <1>1, <1>13, <1>14, <1>15, <1>16, <1>17, <1>18, <1>19

-----------------------------------------------------------------------------
(* The invariant holds.                                                      *)

\* At the start nothing is in any copy, and what is on disk was made.
LEMMA StartsPromised == Init => PromiseInv
<1> SUFFICES ASSUME Init PROVE PromiseInv
  OBVIOUS
<1>1. /\ \A c \in Copies, ch \in Chats :
           /\ copy[c][ch] = None /\ base[c][ch] = None
           /\ write[c].taken[ch] = None /\ write[c].next[ch] = None
      /\ \A c \in Copies : write[c].pc = "closed"
  BY DEF Init, NoChats, Closed, NoWrite
<1>2. \A ch \in Chats :
        /\ ch \in Listed => /\ index[ch] = [title |-> 0, queue |-> {}]
                            /\ log[ch] = Rewritten(1, <<>>)
        /\ ch \notin Listed => index[ch] = None /\ log[ch] = None
  BY DEF Init
<1>3. Messages(<<>>) = {}
  BY DEF Messages
<1>4. \A ch \in Chats : Everywhere(ch) = {} /\ Yet(ch) = {}
  <2> SUFFICES ASSUME NEW ch \in Chats PROVE Everywhere(ch) = {} /\ Yet(ch) = {}
    OBVIOUS
  <2>1. InLog(ch) = {} /\ InTail(ch) = {}
    BY <1>2, <1>3 DEF InLog, InTail, Rewritten
  <2>2. \A c \in Copies : Has(c, ch) = {} /\ Unsaid(c, ch) = {}
    BY <1>1 DEF Has, Unsaid, Of, Now, Storing, At
  <2> QED
    BY <2>1, <2>2 DEF Everywhere, Yet
<1>5. \A c \in Copies, ch \in Chats : RowHas(c, ch) = {} /\ RowYet(c, ch) = {}
  BY <1>1 DEF RowHas, RowYet, RowItems, From, At
<1>6. \A i \in OnDisk : \E ch \in Listed : i = Item(ch, "chat", 0)
  <2>1. TypeOK /\ ListedIsReadable
    BY StartsWell DEF StoreInv, FilesFirst
  <2>2. \A ch \in Chats : Is(ch, index) => ch \in Listed /\ RowItems(ch, index[ch]) = {}
    BY <1>2 DEF RowItems
  <2>3. \A ch \in Chats : InLog(ch) = {}
    BY <1>4 DEF Everywhere
  <2> QED
    BY <2>1, <2>2, <2>3, DiskHas DEF OnDiskHas
<1>7. \A ch \in Listed : Item(ch, "chat", 0) \in OnDisk
  <2>1. TypeOK /\ ListedIsReadable
    BY StartsWell DEF StoreInv, FilesFirst
  <2>2. \A ch \in Listed : ch \in Chats /\ Is(ch, index)
    <3>1. [title |-> 0, queue |-> {}] # None
      BY StateStoreAssumption DEF Rows
    <3> QED
      BY <1>2, <3>1, StateStoreAssumption
  <2> QED
    BY <2>1, <2>2, DiskHas DEF OnDiskHas
<1>8. MadeWell
  <2>1. \A ch : Item(ch, "chat", 0).chat = ch /\ Item(ch, "chat", 0).n = 0
    BY DEF Item
  <2>2. \A ch \in Listed : Item(ch, "chat", 0) \in Promised!Items
    BY StateStoreAssumption DEF Promised!Items, Promised!Kinds, Item
  <2>3. stored = OnDisk /\ made = OnDisk /\ edits = 0
    BY DEF Init
  <2> QED
    BY <1>6, <1>7, <2>1, <2>2, <2>3 DEF MadeWell, Had
<1>9. \A ch \in Chats : SaidWell(ch) /\ RowApart(ch)
  BY <1>4, <1>5 DEF SaidWell, RowApart
<1>10. \A c \in Copies, ch \in Chats : RowWell(c, ch) /\ Lost(c, ch)
  BY <1>1 DEF RowWell, Lost, Knows, Follows, From, At
<1> QED
  BY <1>8, <1>9, <1>10 DEF PromiseInv

\* Only an edit makes, drops or deletes anything, and only writeState's second
\* step stores an index.
LEMMA HistoryStays ==
  ASSUME NEW c \in Copies,
         \/ ReadIndex(c) \/ ReadLogs(c) \/ Begin(c) \/ Writing(c)
         \/ \E ch \in Chats : Checkpoint(c, ch)
         \/ Fail(c) \/ Crash(c)
  PROVE  /\ UNCHANGED <<made, dropped, deleted, edits>> /\ (stored' = stored \/ Recorded)
         /\ \/ index' = index
            \/ StoreIndex(c) /\ index' = write[c].next
<1>1. CASE ReadIndex(c) \/ ReadLogs(c) \/ Begin(c) \/ Fail(c) \/ Crash(c)
  BY <1>1 DEF ReadIndex, ReadLogs, Begin, Fail, Crash, disk, history
<1>2. CASE \E ch \in Chats : Checkpoint(c, ch)
  BY <1>2 DEF Checkpoint, TakeChat, disk, history
<1>3. CASE OwnNext(c)
  BY <1>3 DEF OwnNext, TakeChat, disk, history
<1>4. CASE StoreOwn(c) \/ StoreFile(c)
  BY <1>4 DEF StoreOwn, StoreFile
<1>5. CASE TakeState(c) \/ Purge(c) \/ Finish(c) \/ End(c)
  BY <1>5 DEF TakeState, Purge, Finish, End, disk, history
<1>6. CASE StoreIndex(c)
  BY <1>6 DEF StoreIndex
<1>7. CASE Later(c)
  BY <1>7 DEF Later, TakeChat, disk, history
<1> QED
  BY <1>1, <1>2, <1>3, <1>4, <1>5, <1>6, <1>7 DEF Writing

\* Every step keeps it, with the invariants it stands on.
LEMMA StaysPromised ==
  ASSUME All, Inv', ~StaleUndo, [Next]_vars
  PROVE  OnceInv' /\ Spreads /\ PromiseInv'
<1>1. OnceInv' /\ Spreads
  BY StaysOnce DEF All
<1>2. TypeOK' /\ ListedIsReadable'
  BY DEF Inv, StoreInv, FilesFirst
<1>3. CASE UNCHANGED vars
  <2>1. UNCHANGED <<index, log, copy, base, write, edits, made, dropped, deleted, stored>>
    BY <1>3 DEF vars, disk, history
  <2>2. MadeWell' /\ \A ch \in Chats : SaidWell(ch)'
    BY <1>1, <1>2, <2>1, SaidKeeps
  <2>3. ASSUME NEW c \in Copies, NEW ch \in Chats
        PROVE  RowWell(c, ch)' /\ Lost(c, ch)'
    <3>1. RowWell(c, ch) /\ Lost(c, ch)
      BY DEF All, PromiseInv
    <3> QED
      BY <2>1, <3>1, RowWellStays
         DEF Lost, Taken, Of, Now, Storing, At, Loaded
  <2>4. ASSUME NEW ch \in Chats PROVE RowApart(ch)'
    <3>1. RowApart(ch)
      BY DEF All, PromiseInv
    <3>2. \A c \in Copies : RowHas(c, ch)' = RowHas(c, ch) /\ RowYet(c, ch)' = RowYet(c, ch)
      BY <2>1, SameRows
    <3> QED
      BY <2>1, <3>1, <3>2 DEF RowApart
  <2> QED
    BY <1>1, <2>2, <2>3, <2>4 DEF PromiseInv
<1>4. CASE Next
  <2>1. PICK c \in Copies :
          \/ ReadIndex(c) \/ ReadLogs(c) \/ Editing(c)
          \/ Begin(c) \/ Writing(c) \/ \E ch \in Chats : Checkpoint(c, ch)
          \/ Fail(c) \/ Crash(c)
    BY <1>4 DEF Next
  <2>2. CASE Editing(c)
    <3>1. PICK ch \in Chats, row \in {None} \cup Held : EditWell(c, ch, row)
      BY <2>2, EditingIsWell
    <3>2. RowsKept /\ LostKept /\ MadeWell' /\ \A x \in Chats : SaidWell(x)'
      BY <1>1, <3>1, EditPromises
    <3> QED
      BY <1>1, <3>2 DEF PromiseInv, RowsKept, LostKept
  <2>3. CASE ~Editing(c)
    <3>1. /\ UNCHANGED <<made, dropped, deleted, edits>> /\ (stored' = stored \/ Recorded)
          /\ (index' = index \/ index' = write[c].next)
      BY <2>1, <2>3, HistoryStays
    <3>2. MadeWell' /\ \A ch \in Chats : SaidWell(ch)'
      <4>1. \A ch \in Chats :
              index'[ch] = index[ch] \/ \E d \in Copies : index'[ch] = write[d].next[ch]
        BY <3>1
      <4> QED
        BY <1>1, <1>2, <3>1, <4>1, SaidKeeps
    <3>3. RowsKept /\ LostKept
      <4>1. CASE ReadIndex(c)
        BY <4>1, ReadIndexPromises
      <4>2. CASE ReadLogs(c)
        BY <1>2, <4>2, ReadLogsPromises
      <4>3. CASE Begin(c)
        BY <4>3, BeginPromises
      <4>4. CASE \E ch \in Chats : Checkpoint(c, ch)
        BY <4>4, CheckpointPromises
      <4>5. CASE Fail(c)
        BY <4>5, FailPromises
      <4>6. CASE Crash(c)
        BY <4>6, CrashPromises
      <4>7. CASE OwnNext(c)
        BY <4>7, OwnNextPromises
      <4>8. CASE StoreOwn(c)
        BY <1>2, <4>8, StoreOwnPromises
      <4>9. CASE TakeState(c)
        BY <4>9, TakeStatePromises
      <4>10. CASE StoreFile(c)
        BY <1>2, <4>10, StoreFilePromises
      <4>11. CASE StoreIndex(c)
        BY <1>2, <4>11, StoreIndexPromises
      <4>12. CASE Purge(c)
        BY <4>12, PurgePromises
      <4>13. CASE Finish(c)
        BY <4>13, FinishPromises
      <4>14. CASE Later(c)
        BY <1>2, <4>14, LaterPromises
      <4>15. CASE End(c)
        BY <4>15, EndPromises
      <4> QED
        BY <2>1, <2>3, <4>1, <4>2, <4>3, <4>4, <4>5, <4>6, <4>7, <4>8, <4>9, <4>10,
           <4>11, <4>12, <4>13, <4>14, <4>15 DEF Writing
    <3> QED
      BY <1>1, <3>2, <3>3 DEF PromiseInv, RowsKept, LostKept
  <2> QED
    BY <2>1, <2>2, <2>3
<1> QED
  BY <1>3, <1>4

\* So it holds always, when history is undone only by a copy that has seen all of
\* it.
LEMMA PromisesHold ==
  ASSUME ~StaleUndo
  PROVE  Spec => []All
<1>1. Init /\ Inv => All
  BY StartsOnce, StartsPromised DEF All
<1>2. All /\ Inv' /\ [Next]_vars => All'
  BY StaysPromised DEF All
<1> QED
  BY <1>1, <1>2, AllInvariant, PTL DEF Spec

-----------------------------------------------------------------------------
(* Every step is one of the promise's.                                       *)

\* What a reader finds was stored.
LEMMA DiskIsStored ==
  ASSUME All
  PROVE  OnDisk \subseteq stored
<1> SUFFICES ASSUME NEW i \in OnDisk PROVE i \in stored
  OBVIOUS
<1>1. PICK ch \in Chats : OnDiskHas(ch, i)
  BY DiskHas DEF All, Inv, StoreInv, FilesFirst
<1>2. Is(ch, index) /\ Had(ch) /\ SaidIn(ch, log[ch].msgs, stored)
  BY <1>1 DEF OnDiskHas, All, Inv, RecordInv, DiskStored
<1>3. \A n \in InLog(ch) : Item(ch, "message", n) \in stored
  BY <1>2 DEF SaidIn, InLog
<1> QED
  BY <1>1, <1>2, <1>3, IndexStored DEF OnDiskHas, Had

\* A step that takes nothing back from where it went, and takes away only what
\* may leave, is a write.
LEMMA StepWrites ==
  ASSUME All, All', UNCHANGED <<made, dropped, deleted>>,
         Recorded \/ (stored' = stored /\ OnDisk' = OnDisk),
         \A i \in OnDisk' : i \in OnDisk \/ i \notin stored,
         \A i \in OnDisk \ OnDisk' : Promised!MayLeave(i, OnDisk' \ OnDisk)
  PROVE  Promised!Write
<1>1. OnDisk \subseteq stored
  BY DiskIsStored
<1>2. stored' = stored \cup OnDisk'
  BY <1>1 DEF Recorded
<1>3. OnDisk' \subseteq made
  BY <1>2 DEF All, PromiseInv, MadeWell
<1>4. OnDisk' \cap (stored \ OnDisk) = {}
  OBVIOUS
<1>5. stored' \ OnDisk' = (stored \ OnDisk) \cup (OnDisk \ OnDisk')
  BY <1>1, <1>2
<1> QED
  BY <1>3, <1>4, <1>5 DEF Promised!Write

\* The transcripts alone change: what is new in a listed one was in no log, and
\* what leaves it was taken out.
LEMMA LogsWrite ==
  ASSUME All, All', UNCHANGED <<index, made, dropped, deleted>>,
         \/ Recorded
         \/ stored' = stored /\ \A x \in Chats : Is(x, index) => InLog(x)' = InLog(x),
         \A x \in Chats : Is(x, index) =>
           /\ InLog(x)' \subseteq InLog(x) \cup Yet(x)
           /\ \A n \in InLog(x) \ InLog(x)' : Item(x, "message", n) \in dropped
  PROVE  Promised!Write
<1>1. \A i : /\ i \in OnDisk <=> \E ch \in Chats : OnDiskHas(ch, i)
             /\ i \in OnDisk' <=> \E ch \in Chats : OnDiskHas(ch, i)'
  BY DiskHas, DiskHasNext DEF All, Inv, StoreInv, FilesFirst
<1>2. ASSUME NEW ch \in Chats, NEW i, OnDiskHas(ch, i)'
      PROVE  OnDiskHas(ch, i) \/ \E n \in Yet(ch) : i = Item(ch, "message", n)
  BY <1>2 DEF OnDiskHas
<1>3. ASSUME NEW i \in OnDisk' PROVE i \in OnDisk \/ i \notin stored
  <2>1. PICK ch \in Chats : OnDiskHas(ch, i)'
    BY <1>1, <1>3
  <2>2. SaidWell(ch)
    BY DEF All, PromiseInv
  <2> QED
    BY <1>1, <1>2, <2>1, <2>2 DEF SaidWell
<1>4. ASSUME NEW i \in OnDisk \ OnDisk'
      PROVE  Promised!MayLeave(i, OnDisk' \ OnDisk)
  <2>1. PICK ch \in Chats : OnDiskHas(ch, i)
    BY <1>1, <1>4
  <2>2. ~OnDiskHas(ch, i)'
    BY <1>1, <1>4
  <2>3. i \in dropped
    BY <2>1, <2>2 DEF OnDiskHas
  <2> QED
    BY <2>3 DEF Promised!MayLeave
<1>5. Recorded \/ (stored' = stored /\ OnDisk' = OnDisk)
  <2> SUFFICES ASSUME stored' = stored, \A x \in Chats : Is(x, index) => InLog(x)' = InLog(x),
                      NEW i
               PROVE  i \in OnDisk' <=> i \in OnDisk
    OBVIOUS
  <2>1. \A x \in Chats : OnDiskHas(x, i)' <=> OnDiskHas(x, i)
    BY DEF OnDiskHas
  <2> QED
    BY <1>1, <2>1
<1> QED
  BY <1>3, <1>4, <1>5, StepWrites

\* A transcript stored on its chat's lock alone.
LEMMA OwnWrites ==
  ASSUME All, NEW c \in Copies, NEW ch \in Chats, Storing(c, ch), Is(ch, index),
         Put(ch, Out(ch, base[c][ch], write[c].now))
  PROVE  /\ InLog(ch)' \subseteq InLog(ch) \cup Yet(ch)
         /\ \A n \in InLog(ch) \ InLog(ch)' : Item(ch, "message", n) \in dropped
         /\ \A x \in Chats \ {ch} : log'[x] = log[x]
<1> DEFINE l == log[ch]
           b == base[c][ch]
           next == write[c].now
           gen == NextGen(ch)
           S == 1..MaxEdits
           out == Out(ch, b, next)
<1>0. TypeOK /\ StoreInv /\ At(c, "store") /\ write[c].chat = ch
  BY DEF All, Inv, Storing
<1>1. /\ Is(ch, log) /\ l \in Logs(S) /\ Once(l.msgs) /\ Once(l.tail)
      /\ Messages(l.msgs) = InLog(ch) /\ Messages(l.tail) = InTail(ch)
  <2>1. Is(ch, log) /\ LogWell(ch)
    BY DEF All, OnceInv, Locked
  <2> QED
    BY <1>0, <2>1 DEF LogWell, TypeOK, InLog, InTail
<1>2. /\ Is(ch, base[c]) /\ b \in Held /\ b.msgs \in Histories /\ b.at \in Spots
      /\ b.msgs \in Seq(S) /\ Of(ch, base[c]) = Messages(b.msgs)
  <2>1. Is(ch, base[c]) /\ b.msgs \in Histories
    BY <1>0 DEF StoreInv, StoresHistories
  <2> QED
    BY <1>0, <2>1, HistoryIs DEF TypeOK, Held, Histories, Of
<1>3. next \in Seq(S) /\ Once(next) /\ Now(c, ch) = Messages(next)
  BY <1>0 DEF TypeOK, Writes, Histories, All, OnceInv, OnceHeld, Now
<1>4. gens[ch] \in Nat /\ gen \in Nat \ {0}
  BY <1>0 DEF TypeOK, NextGen
<1>5. /\ \A n \in Messages(next) : n \in Messages(b.msgs) \/ n \in Unsaid(c, ch)
      /\ Messages(l.msgs) \cap Messages(next) \subseteq Messages(b.msgs)
      /\ Messages(l.msgs) \cap Messages(l.tail) = {} /\ Messages(l.tail) \cap Messages(next) = {}
      /\ Messages(l.tail) \subseteq Yet(ch) /\ Unsaid(c, ch) \subseteq Yet(ch)
  <2>1. Apart(ch)
    BY DEF All, OnceInv
  <2>2. Messages(next) \subseteq Has(c, ch)
    BY <1>3 DEF Has
  <2>3. \A n \in Messages(next) : n \in Messages(b.msgs) \/ n \in Unsaid(c, ch)
    BY <1>2, <1>3 DEF Unsaid
  <2> QED
    BY <1>1, <2>1, <2>2, <2>3 DEF Apart, Yet
<1>6. ~Extends(next, b.msgs) => Extends(l.msgs, b.msgs)
  <2>1. CutStands(c, ch)
    BY DEF All, OnceInv
  <2> QED
    BY <1>1, <1>2, <2>1, HistoryIs DEF CutStands, Cut
<1>7. \A n \in Messages(b.msgs) \ Messages(next) : Item(ch, "message", n) \in dropped
  BY <1>2, <1>3 DEF All, PromiseInv, Lost, Taken
<1>8. out.log = StoreTranscript(l, b, next, gen).log
  BY <1>1 DEF Out
<1>9. log'[ch] = out.log /\ \A x \in Chats \ {ch} : log'[x] = log[x]
  BY <1>0 DEF Put, TypeOK
<1>10. out.log \in Logs(S) /\ out.log # None
  BY <1>0, <1>2, <1>3, OutIsLog, StateStoreAssumption DEF Histories
<1>11. InLog(ch)' = Messages(out.log.msgs)
  BY <1>9, <1>10 DEF InLog
<1> HIDE DEF l, b, next, gen, S, out
<1>12. StoredAs(S, l, b.msgs, next, gen, out.log)
  BY <1>1, <1>2, <1>3, <1>4, <1>5, <1>8, StoreIs
<1>13. CASE \E add \in Seq(S) :
              /\ out.log = Appended(l, add)
              /\ Messages(add) \subseteq Messages(next)
              /\ Extends(next, b.msgs) \/ Extends(l.msgs, b.msgs)
                   => Messages(add) \cap Messages(b.msgs) = {}
  <2>1. PICK add \in Seq(S) :
              /\ out.log = Appended(l, add)
              /\ Messages(add) \subseteq Messages(next)
              /\ Extends(next, b.msgs) \/ Extends(l.msgs, b.msgs)
                   => Messages(add) \cap Messages(b.msgs) = {}
    BY <1>13
  <2>2. Messages(add) \cap Messages(b.msgs) = {}
    BY <1>6, <2>1
  <2>3. /\ add = <<>> => out.log = l
        /\ add # <<>> => Messages(out.log.msgs)
                           = Messages(l.msgs) \cup Messages(l.tail) \cup Messages(add)
    BY <1>1, <2>1, AppendedIs
  <2>4. Messages(l.msgs) \subseteq InLog(ch)'
    BY <1>11, <2>3
  <2>5. InLog(ch)' \subseteq InLog(ch) \cup Yet(ch)
    BY <1>1, <1>5, <1>11, <2>1, <2>2, <2>3
  <2> QED
    BY <1>1, <1>9, <2>4, <2>5
<1>14. CASE \E all \in Seq(S) :
              /\ out.log = Rewritten(gen, all)
              /\ Messages(all) \subseteq Messages(l.msgs) \cup Messages(next)
              /\ ~Extends(next, b.msgs)
  <2>1. PICK all \in Seq(S) :
              /\ out.log = Rewritten(gen, all)
              /\ Messages(all) \subseteq Messages(l.msgs) \cup Messages(next)
              /\ ~Extends(next, b.msgs)
    BY <1>14
  <2>2. InLog(ch)' = Messages(all)
    BY <1>11, <2>1 DEF Rewritten
  <2>3. Extends(l.msgs, b.msgs) /\ l.msgs \in Seq(S)
    BY <1>1, <1>6, <2>1 DEF Logs
  <2>4. /\ Messages(b.msgs) \subseteq Messages(l.msgs)
        /\ Messages(l.msgs) \subseteq Messages(b.msgs) \cup Messages(Rest(l.msgs, Len(b.msgs)))
    BY <1>2, <2>3, ExtendsMore, ExtendsMessages
  <2>5. /\ Messages(Rest(l.msgs, Len(b.msgs))) \subseteq Messages(out.log.msgs)
        /\ Messages(next) \subseteq Messages(out.log.msgs)
    BY <1>1, <1>2, <1>3, <1>4, <1>8, <2>1, <2>3, StoreKeepsBoth, CutHoldsNext
  <2>6. InLog(ch)' \subseteq InLog(ch) \cup Yet(ch)
    BY <1>1, <1>5, <2>1, <2>2, <2>4
  <2>7. \A n \in InLog(ch) \ InLog(ch)' : n \in Messages(b.msgs) /\ n \notin Messages(next)
    BY <1>1, <1>11, <2>4, <2>5
  <2> QED
    BY <1>7, <1>9, <2>6, <2>7
<1> QED
  BY <1>12, <1>13, <1>14 DEF StoredAs

\* The row a write stores: what it adds was never stored, and what it takes out
\* may leave.
LEMMA RowWrites ==
  ASSUME All, NEW c \in Copies, NEW ch \in Chats, At(c, "files"),
         Is(ch, index), Is(ch, write[c].next)
  PROVE  LET next == write[c].next[ch]
         IN  /\ \A i \in RowItems(ch, next) : i \in RowItems(ch, index[ch]) \/ i \notin stored
             /\ \A i \in RowItems(ch, index[ch]) \ RowItems(ch, next) :
                  \/ i \in dropped
                  \/ /\ i.kind = "title" /\ next.title # 0 /\ next.title # index[ch].title
<1> DEFINE b == base[c][ch]
           t == write[c].taken[ch]
           d == index[ch]
           next == write[c].next[ch]
<1>1. /\ next = MergedRow(b, t, d) /\ Follows(ch, From(c, ch), t)
      /\ From(c, ch) = IF b = None THEN t ELSE b
  BY DEF All, PromiseInv, RowWell, From, At
<1>2. /\ d # None /\ next # None /\ Had(ch)
      /\ t # None /\ b = None => ~Had(ch)
  BY DEF All, Inv, RecordInv, DiskStored, Listing
<1>3. RowYet(c, ch) \cap stored = {}
  BY DEF All, PromiseInv, RowApart
<1>4. b # None => RowItems(ch, t) \ RowItems(ch, b) \subseteq RowYet(c, ch)
  BY <1>1 DEF RowYet
<1> HIDE DEF b, t, d, next
<1>5. CASE b = None
  <2>1. next = d
    BY <1>1, <1>2, <1>5 DEF MergedRow
  <2> QED
    BY <2>1 DEF next, d
<1>6. CASE b # None
  <2>1. /\ t # None /\ next = [title |-> IF t.title # b.title THEN t.title ELSE d.title,
                               queue |-> (d.queue \ (b.queue \ t.queue)) \cup (t.queue \ b.queue)]
    BY <1>1, <1>2, <1>6 DEF MergedRow
  <2>2. /\ t.title # b.title => t.title # 0
        /\ \A n \in b.queue \ t.queue : Item(ch, "queued", n) \in dropped
    BY <1>1, <1>6, <2>1 DEF Follows
  <2>3. ASSUME NEW i \in RowItems(ch, next)
        PROVE  i \in RowItems(ch, d) \/ i \notin stored
    <3>1. RowItems(ch, next) \subseteq RowItems(ch, d) \cup (RowItems(ch, t) \ RowItems(ch, b))
      BY <1>1, MergedItems
    <3> QED
      BY <1>3, <1>4, <1>6, <2>3, <3>1
  <2>4. ASSUME NEW i \in RowItems(ch, d) \ RowItems(ch, next)
        PROVE  i \in dropped \/ (i.kind = "title" /\ next.title # 0 /\ next.title # d.title)
    <3>1. CASE \E n : n # 0 /\ n = d.title /\ i = Item(ch, "title", n)
      <4>1. next.title # d.title
        BY <1>2, <2>4, <3>1, RowItemsAre
      <4>2. next.title = t.title /\ t.title # b.title
        BY <2>1, <4>1
      <4> QED
        BY <2>2, <3>1, <4>1, <4>2 DEF Item
    <3>2. CASE \E n \in d.queue : i = Item(ch, "queued", n)
      <4>1. PICK n \in d.queue : i = Item(ch, "queued", n)
        BY <3>2
      <4>2. n \notin next.queue
        BY <1>2, <2>4, <4>1, RowItemsAre
      <4> QED
        BY <2>1, <2>2, <4>1, <4>2
    <3> QED
      BY <1>2, <2>4, <3>1, <3>2 DEF RowItems
  <2> QED
    BY <2>3, <2>4 DEF next, d
<1> QED
  BY <1>5, <1>6

\* The index is stored: its rows, the chats that are new and those that go.
LEMMA StoreIndexWrites ==
  ASSUME All, All', NEW c \in Copies, StoreIndex(c)
  PROVE  Promised!Write
<1> DEFINE next == write[c].next
<1>1. /\ At(c, "files") /\ index' = next /\ Recorded
      /\ UNCHANGED <<log, made, dropped, deleted>>
  BY DEF StoreIndex
<1>2. \A i : /\ i \in OnDisk <=> \E ch \in Chats : OnDiskHas(ch, i)
             /\ i \in OnDisk' <=> \E ch \in Chats : OnDiskHas(ch, i)'
  BY DiskHas, DiskHasNext DEF All, Inv, StoreInv, FilesFirst
<1>3. \A ch \in Chats : InLog(ch)' = InLog(ch)
  BY <1>1 DEF InLog
<1>4. \A ch \in Chats, i \in stored : i.chat = ch => Had(ch)
  BY DEF All, PromiseInv, MadeWell
<1>5. \A ch \in Chats : \A i : OnDiskHas(ch, i) => i.chat = ch
  BY RowItemIs DEF OnDiskHas, Item
<1>6. \A ch \in Chats : \A i : OnDiskHas(ch, i)' => i.chat = ch
  BY RowItemIs DEF OnDiskHas, Item
\* A chat listed now was never listed.
<1>7. ASSUME NEW ch \in Chats, ~Is(ch, index), Is(ch, next) PROVE ~Had(ch)
  BY <1>1, <1>7 DEF All, Inv, RecordInv, Listing
\* One that goes was deleted.
<1>8. ASSUME NEW ch \in Chats, Is(ch, index), ~Is(ch, next) PROVE ch \in deleted
  <2> DEFINE b == base[c][ch]
             t == write[c].taken[ch]
             d == index[ch]
  <2>1. /\ MergedRow(b, t, d) = None /\ d # None
        /\ b # None /\ t = None => ch \in deleted
    BY <1>1, <1>8 DEF All, PromiseInv, RowWell
  <2>2. t # None => [title |-> t.title, queue |-> t.queue] # None
    <3>1. t # None => t \in Held
      BY DEF All, Inv, TypeOK, Writes
    <3>2. t # None => [title |-> t.title, queue |-> t.queue] \in Rows
      BY <3>1 DEF Held, Rows
    <3> QED
      BY <3>2, StateStoreAssumption
  <2>3. b # None /\ t # None => write[c].next[ch] # None
    <3>1. b # None /\ t # None =>
            b \in Held /\ t \in Held /\ d \in Rows
      BY <2>1 DEF All, Inv, TypeOK, Writes
    <3> DEFINE row == [title |-> IF t.title # b.title THEN t.title ELSE d.title,
                       queue |-> (d.queue \ (b.queue \ t.queue)) \cup (t.queue \ b.queue)]
    <3>2. b # None /\ t # None => row \in Rows
      BY <3>1 DEF Held, Rows
    <3>3. b # None /\ t # None => MergedRow(b, t, d) = row
      BY <2>1 DEF MergedRow
    <3> HIDE DEF row
    <3> QED
      BY <2>1, <3>2, <3>3, StateStoreAssumption
  <2> HIDE DEF b, t, d
  <2>4. b = None => FALSE
    BY <2>1, <2>2 DEF MergedRow
  <2> QED
    BY <1>8, <2>1, <2>3, <2>4
<1>9. \A ch \in Chats : Is(ch, index) /\ Is(ch, next) =>
        /\ \A i \in RowItems(ch, next[ch]) : i \in RowItems(ch, index[ch]) \/ i \notin stored
        /\ \A i \in RowItems(ch, index[ch]) \ RowItems(ch, next[ch]) :
             \/ i \in dropped
             \/ /\ i.kind = "title" /\ next[ch].title # 0 /\ next[ch].title # index[ch].title
  BY <1>1, RowWrites
<1> HIDE DEF next
<1>10. ASSUME NEW i \in OnDisk' PROVE i \in OnDisk \/ i \notin stored
  <2>1. PICK ch \in Chats : OnDiskHas(ch, i)'
    BY <1>2, <1>10
  <2>2. Is(ch, next) /\ i.chat = ch
    BY <1>1, <1>6, <2>1 DEF OnDiskHas
  <2>3. CASE ~Is(ch, index)
    BY <1>4, <1>7, <2>2, <2>3
  <2>4. CASE Is(ch, index)
    <3>1. OnDiskHas(ch, i) \/ i \notin stored
      BY <1>1, <1>3, <1>9, <2>1, <2>2, <2>4 DEF OnDiskHas
    <3> QED
      BY <1>2, <3>1
  <2> QED
    BY <2>3, <2>4
<1>11. ASSUME NEW i \in OnDisk \ OnDisk'
       PROVE  Promised!MayLeave(i, OnDisk' \ OnDisk)
  <2>1. PICK ch \in Chats : OnDiskHas(ch, i)
    BY <1>2, <1>11
  <2>2. ~OnDiskHas(ch, i)' /\ i.chat = ch /\ Is(ch, index)
    BY <1>2, <1>5, <1>11, <2>1 DEF OnDiskHas
  <2>3. CASE ~Is(ch, next)
    BY <1>8, <2>2, <2>3 DEF Promised!MayLeave
  <2>4. CASE Is(ch, next)
    <3>1. i \in RowItems(ch, index[ch]) /\ i \notin RowItems(ch, next[ch])
      BY <1>1, <1>3, <2>1, <2>2, <2>4 DEF OnDiskHas
    <3>2. CASE i \in dropped
      BY <3>2 DEF Promised!MayLeave
    <3>3. CASE i.kind = "title" /\ next[ch].title # 0 /\ next[ch].title # index[ch].title
      <4>0. PICK j : j = Item(ch, "title", next[ch].title)
        OBVIOUS
      <4>1. j \in RowItems(ch, next[ch]) /\ j \notin RowItems(ch, index[ch])
        BY <2>2, <2>4, <3>3, <4>0, RowItemsAre
      <4>2. j.chat = ch /\ j.kind = "title" /\ j # Item(ch, "chat", 0)
            /\ \A n : j # Item(ch, "message", n)
        BY <4>0 DEF Item
      <4>3. OnDiskHas(ch, j)' /\ ~OnDiskHas(ch, j)
        BY <1>1, <2>4, <4>1, <4>2 DEF OnDiskHas
      <4>4. j \in OnDisk' /\ j \notin OnDisk
        BY <1>2, <1>5, <4>2, <4>3
      <4> QED
        BY <2>2, <3>3, <4>2, <4>4 DEF Promised!MayLeave
    <3> QED
      BY <1>9, <2>2, <2>4, <3>1, <3>2, <3>3
  <2> QED
    BY <2>3, <2>4
<1> QED
  BY <1>1, <1>10, <1>11, StepWrites

\* A step that stores no index.
LEMMA OtherWrites ==
  ASSUME All, All', NEW c \in Copies, ~StoreIndex(c),
         \/ ReadIndex(c) \/ ReadLogs(c) \/ Begin(c) \/ Writing(c)
         \/ \E ch \in Chats : Checkpoint(c, ch)
         \/ Fail(c) \/ Crash(c)
  PROVE  Promised!Write
<1>1. UNCHANGED <<index, made, dropped, deleted>> /\ (stored' = stored \/ Recorded)
  BY HistoryStays
\* It is enough that no listed transcript changes, or one does that its own
\* copy stores.
<1>2. ASSUME \A x \in Chats : Is(x, index) => InLog(x)' = InLog(x)
      PROVE  Promised!Write
  BY <1>1, <1>2, LogsWrite
<1>3. ASSUME log' = log PROVE Promised!Write
  BY <1>2, <1>3 DEF InLog
<1>4. ASSUME NEW ch \in Chats, ~Is(ch, index), \A x \in Chats \ {ch} : log'[x] = log[x]
      PROVE  Promised!Write
  BY <1>2, <1>4 DEF InLog
<1>5. TypeOK /\ StoreInv
  BY DEF All, Inv
<1>6. CASE ReadIndex(c) \/ ReadLogs(c) \/ Begin(c) \/ Fail(c) \/ TakeState(c) \/ Finish(c) \/ End(c)
  BY <1>3, <1>6 DEF ReadIndex, ReadLogs, Begin, Fail, TakeState, Finish, End, disk
<1>7. CASE OwnNext(c) \/ \E ch \in Chats : Checkpoint(c, ch)
  BY <1>3, <1>7 DEF OwnNext, Checkpoint, TakeChat, disk
<1>8. CASE StoreOwn(c)
  <2> DEFINE ch == write[c].chat
  <2>1. /\ Storing(c, ch) /\ ch \in Chats /\ Recorded
        /\ Put(ch, Out(ch, base[c][ch], write[c].now))
    BY <1>5, <1>8 DEF StoreOwn, Storing, At, StoreInv, StoresHistories
  <2> HIDE DEF ch
  <2>2. CASE Is(ch, index)
    <3>1. \A x \in Chats : Is(x, index) =>
            /\ InLog(x)' \subseteq InLog(x) \cup Yet(x)
            /\ \A n \in InLog(x) \ InLog(x)' : Item(x, "message", n) \in dropped
      BY <2>1, <2>2, OwnWrites DEF InLog
    <3> QED
      BY <1>1, <2>1, <3>1, LogsWrite
  <2>3. CASE ~Is(ch, index)
    BY <1>4, <1>5, <2>1, <2>3 DEF Put, TypeOK
  <2> QED
    BY <2>2, <2>3
<1>9. CASE StoreFile(c)
  <2>1. PICK ch \in Chats : FileStored(c, ch)
    BY <1>5, <1>9, StoreFileIs
  <2>2. /\ At(c, "files") /\ ch \in write[c].files /\ Is(ch, write[c].taken)
        /\ \A x \in Chats \ {ch} : log'[x] = log[x]
    BY <2>1 DEF FileStored, At
  <2>3. ~Is(ch, base[c])
    BY <2>2 DEF All, OnceInv, Locked
  <2>4. ~Had(ch)
    BY <2>2, <2>3 DEF All, Inv, RecordInv, Listing
  <2>5. ~Is(ch, index)
    BY <2>4 DEF All, Inv, RecordInv, DiskStored
  <2> QED
    BY <1>4, <2>2, <2>5
<1>10. CASE Purge(c)
  <2>1. PICK ch \in write[c].doomed : log' = [log EXCEPT ![ch] = None]
    BY <1>10 DEF Purge
  <2>2. ch \in Chats /\ ~Is(ch, index)
    BY <1>5, <1>10, <2>1 DEF Purge, TypeOK, Writes, StoreInv, FilesFirst
  <2> QED
    BY <1>4, <1>5, <2>1, <2>2 DEF TypeOK
<1>11. CASE Later(c)
  <2>1. PICK ch \in write[c].later :
          log' = log \/ (~Is(ch, index) /\ Put(ch, Out(ch, base[c][ch], copy[c][ch].msgs)))
    BY <1>11 DEF Later, TakeChat, disk
  <2>2. ch \in Chats
    BY <1>5 DEF TypeOK, Writes
  <2> QED
    BY <1>3, <1>4, <1>5, <2>1, <2>2 DEF Put, TypeOK
<1>12. CASE Crash(c)
  BY <1>2, <1>12, TornOnce DEF All
<1> QED
  BY <1>6, <1>7, <1>8, <1>9, <1>10, <1>11, <1>12 DEF Writing

\* An edit makes something or takes something out; the files stay.
LEMMA EditKeepsFiles ==
  ASSUME All, All', NEW c \in Copies, Editing(c)
  PROVE  Promised!Make \/ Promised!Remove
<1>1. PICK ch \in Chats, row \in {None} \cup Held : EditWell(c, ch, row)
  BY EditingIsWell
<1>2. /\ UNCHANGED <<index, log, stored>> /\ made \subseteq made'
      /\ dropped \subseteq dropped' /\ deleted \subseteq deleted'
  BY <1>1 DEF EditWell, Edit, disk
<1>3. OnDisk' = OnDisk
  BY <1>2 DEF OnDisk
<1>4. made' \subseteq Promised!Items
  BY DEF All, PromiseInv, MadeWell
<1>5. UNCHANGED <<dropped, deleted>> \/ UNCHANGED made
  BY DEF Editing, Say, Rename, Queue, Create, Unqueue, Undo, Delete, Adds, Removes
<1>6. CASE UNCHANGED <<dropped, deleted>>
  BY <1>2, <1>3, <1>4, <1>6 DEF Promised!Make
<1>7. CASE UNCHANGED made
  BY <1>2, <1>3, <1>7 DEF Promised!Remove
<1> QED
  BY <1>5, <1>6, <1>7

\* Every step is a step of the promise, or changes nothing of it.
LEMMA StepsPromised ==
  ASSUME All, All', [Next]_vars
  PROVE  [Promised!Next]_(Promised!storeVars)
<1>1. CASE UNCHANGED vars
  <2>1. UNCHANGED <<index, log, made, dropped, deleted, stored>>
    BY <1>1 DEF vars, disk, history
  <2>2. OnDisk' = OnDisk
    BY <2>1 DEF OnDisk
  <2> QED
    BY <2>1, <2>2 DEF Promised!storeVars
<1>2. CASE Next
  <2>1. PICK c \in Copies :
          \/ ReadIndex(c) \/ ReadLogs(c) \/ Editing(c)
          \/ Begin(c) \/ Writing(c) \/ \E ch \in Chats : Checkpoint(c, ch)
          \/ Fail(c) \/ Crash(c)
    BY <1>2 DEF Next
  <2>2. CASE Editing(c)
    BY <2>2, EditKeepsFiles DEF Promised!Next
  <2>3. CASE StoreIndex(c)
    BY <2>3, StoreIndexWrites DEF Promised!Next
  <2>4. CASE ~Editing(c) /\ ~StoreIndex(c)
    BY <2>1, <2>4, OtherWrites DEF Promised!Next
  <2> QED
    BY <2>2, <2>3, <2>4
<1> QED
  BY <1>1, <1>2

\* The files do what the store promises everyone who edits a copy (writeState,
\* writeTranscriptCheckpoint), for any number of copies and chats, when history
\* is undone only by a copy that has seen all of it: an edit is stored once,
\* goes only when it was taken out or replaced, and never comes back, whichever
\* stale copy is written next and wherever a write fails or its process dies.
THEOREM FilesImplementStore ==
  ASSUME ~StaleUndo
  PROVE  Spec => ImplementsStore
<1>1. ASSUME Init PROVE Promised!Init
  <2>1. made \subseteq Promised!Items
    BY <1>1, StartsPromised DEF PromiseInv, MadeWell
  <2>2. /\ made = OnDisk /\ stored = OnDisk /\ dropped = {} /\ deleted = {}
    BY <1>1 DEF Init
  <2> QED
    BY <2>1, <2>2 DEF Promised!Init
<1>2. All /\ All' /\ [Next]_vars => [Promised!Next]_(Promised!storeVars)
  BY StepsPromised
<1> QED
  BY <1>1, <1>2, PromisesHold, PTL DEF Spec, ImplementsStore, Promised!Spec
==============================================================================
