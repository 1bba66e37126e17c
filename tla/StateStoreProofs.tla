-------------------------- MODULE StateStoreProofs --------------------------
(* Proofs about the state store: what its files, its copies and its writes  *)
(* hold, that a chat listed is a chat that can be read, and that a          *)
(* transcript no chat is listed for is known to a live copy, whose writes   *)
(* list or remove it, unless the process that knew of it died or failed to  *)
(* store it; that what a copy remembers as stored was, and that when a      *)
(* write returns all it was to store has been.  For any copies, chats,      *)
(* edits and faults.                                                        *)
EXTENDS StateStore, TranscriptProofs

-----------------------------------------------------------------------------
(* The inductive invariant behind ListedIsReadable.                         *)

\* Who stores the index has the state lock.
WriterHasLock ==
  \A c \in Copies : write[c].pc \in {"files", "purge"} => stateLock = c

\* What is listed, or about to be, has its transcript or is waited for; what
\* is removed is listed no more.
FilesFirst ==
  /\ ListedIsReadable
  /\ \A c \in Copies, ch \in Chats :
       /\ At(c, "files") /\ Is(ch, write[c].next) /\ ch \notin write[c].files
            => Is(ch, log)
       /\ At(c, "files") /\ ch \in write[c].doomed => ~Is(ch, write[c].next)
       /\ At(c, "purge") /\ ch \in write[c].doomed => ~Is(ch, index)

\* A chat no file was ever made for is nowhere but in the copy that made it
\* and in that copy's write.
Unstored ==
  /\ \A ch \in Chats : gens[ch] = 0 =>
       /\ ~Is(ch, log)
       /\ \A c \in Copies :
            /\ ~Is(ch, base[c])
            /\ At(c, "opening") => ~Is(ch, write[c].next)
            /\ write[c].pc \in {"files", "purge"} /\ Is(ch, write[c].taken)
                 => ch \in write[c].files
  /\ \A c \in Copies :
       /\ At(c, "purge") => write[c].files = {}
       /\ At(c, "files") => \A ch \in write[c].files :
                              /\ Is(ch, write[c].taken)
                              /\ write[c].taken[ch].msgs \in Histories

\* A copy has a chat's history, unless it was read without and still is as it
\* was read; so what a step stores is always a history.
HasHistory(c, ch, held) ==
  Is(ch, copy[c]) =>
    \/ copy[c][ch].msgs \in Histories
         /\ (Is(ch, held) => held[ch].msgs \in Histories)
    \/ Is(ch, held) /\ copy[c][ch].msgs = held[ch].msgs

StoresHistories ==
  \A c \in Copies :
    /\ \A ch \in Chats :
         /\ HasHistory(c, ch, base[c])
         /\ write[c].pc \in {"files", "purge"} => HasHistory(c, ch, write[c].taken)
    /\ At(c, "store") =>
         LET ch == write[c].chat
         IN  /\ ch \in Chats
             /\ Is(ch, base[c]) /\ base[c][ch].msgs \in Histories
             /\ Is(ch, copy[c]) => copy[c][ch].msgs \in Histories

StoreInv == WriterHasLock /\ FilesFirst /\ Unstored /\ StoresHistories

-----------------------------------------------------------------------------
(* What a step stores.                                                      *)

USE DEF Is

\* What a step stores of a chat is a log, and its place in it is known
\* (storeTranscript).
LEMMA OutIsLog ==
  ASSUME TypeOK, NEW ch \in Chats, NEW b, b.msgs \in Histories, b.at \in Spots,
         NEW next \in Histories
  PROVE  Out(ch, b, next).log \in Logs(1..MaxEdits) /\ Out(ch, b, next).at \in Spots
<1>1. NextGen(ch) \in Nat \ {0}
  BY DEF TypeOK, NextGen
<1>2. CASE Is(ch, log)
  <2>1. log[ch] \in Logs(1..MaxEdits)
    BY <1>2 DEF TypeOK
  <2>2. Out(ch, b, next) = StoreTranscript(log[ch], b, next, NextGen(ch))
    BY <1>2 DEF Out
  <2> HIDE DEF Is
  <2> QED
    BY <1>1, <2>1, <2>2, StoreKeepsBoth DEF Histories
<1>3. CASE ~Is(ch, log)
  <2>1. Out(ch, b, next) = FirstStored(next, NextGen(ch))
    BY <1>3 DEF Out
  <2>2. Len(next) \in Nat
    BY DEF Histories
  <2> QED
    BY <1>1, <2>1, <2>2 DEF FirstStored, Rewritten, Logs, Spots, Histories
<1> QED
  BY <1>2, <1>3

\* Storing a log gives its chat a log and a generation, and takes none away.
LEMMA PutKeeps ==
  ASSUME TypeOK, NEW ch \in Chats, NEW out, out.log \in Logs(1..MaxEdits), Put(ch, out)
  PROVE  /\ log' \in [Chats -> {None} \cup Logs(1..MaxEdits)]
         /\ gens' \in [Chats -> Nat]
         /\ Is(ch, log)' /\ gens'[ch] # 0
         /\ \A x \in Chats : Is(x, log) => Is(x, log)'
         /\ \A x \in Chats : gens'[x] = 0 => gens[x] = 0 /\ (~Is(x, log) => ~Is(x, log)')
<1>1. out.log # None /\ out.log.gen \in Nat \ {0}
  BY StateStoreAssumption DEF Logs
<1>2. log' = [log EXCEPT ![ch] = out.log]
  BY DEF Put
<1>3. gens' = [gens EXCEPT ![ch] = IF @ < out.log.gen THEN out.log.gen ELSE @]
  BY DEF Put
<1>4. log \in [Chats -> {None} \cup Logs(1..MaxEdits)] /\ gens \in [Chats -> Nat]
  BY DEF TypeOK
<1>5. gens' \in [Chats -> Nat] /\ gens'[ch] # 0
  BY <1>1, <1>3, <1>4
<1>6. \A x \in Chats : x # ch => gens'[x] = gens[x] /\ log'[x] = log[x]
  BY <1>2, <1>3, <1>4
<1>7. log' \in [Chats -> {None} \cup Logs(1..MaxEdits)] /\ log'[ch] = out.log
  BY <1>2, <1>4
<1> QED
  BY <1>1, <1>5, <1>6, <1>7

\* A history without its last message is one.
LEMMA ButLast ==
  ASSUME NEW S, NEW s \in Seq(S)
  PROVE  /\ SubSeq(s, 1, Len(s) - 1) \in Seq(S)
         /\ Messages(SubSeq(s, 1, Len(s) - 1)) \subseteq Messages(s)
<1> DEFINE t == SubSeq(s, 1, Len(s) - 1)
<1>1. 1 \in Int /\ Len(s) - 1 \in Int /\ \A i \in 1..(Len(s) - 1) : s[i] \in S
  OBVIOUS
<1>2. /\ t \in Seq(S) /\ Len(t) = IF 1 <= Len(s) - 1 THEN Len(s) - 1 ELSE 0
      /\ \A i \in 1..(Len(s) - 1 - 1 + 1) : t[i] = s[1 + i - 1]
  BY <1>1, SubSeqProperties
<1> HIDE DEF t
<1>3. ASSUME NEW i \in 1..Len(t) PROVE i \in 1..Len(s) /\ t[i] = s[i]
  <2>1. Len(s) \in Nat /\ i \in 1..(Len(s) - 1) /\ 1 + i - 1 = i
    BY <1>2
  <2> QED
    BY <1>2, <2>1
<1>4. t \in Seq(S) /\ Messages(t) \subseteq Messages(s)
  BY <1>2, <1>3 DEF Messages
<1> QED
  BY <1>4 DEF t

\* One with a message at its end.
LEMMA OneMore ==
  ASSUME NEW S, NEW s \in Seq(S), NEW e \in S
  PROVE  /\ Append(s, e) \in Seq(S)
         /\ \A n \in Messages(Append(s, e)) : n \in Messages(s) \/ n = e
BY DEF Messages

-----------------------------------------------------------------------------
(* At the start.                                                            *)

LEMMA StartsWell == Init => TypeOK /\ StoreInv
<1> SUFFICES ASSUME Init PROVE TypeOK /\ StoreInv
  OBVIOUS
<1>1. NoChats \in [Chats -> {None}] /\ \A ch \in Chats : NoChats[ch] = None
  BY DEF NoChats
<1>2. <<>> \in Histories
  BY DEF Histories
<1>3. Rewritten(1, <<>>) \in Logs(1..MaxEdits)
  BY <1>2 DEF Rewritten, Logs, Histories
<1>4. Closed \in Writes /\ Closed.pc = "closed"
  BY <1>1, <1>2, StateStoreAssumption DEF Closed, NoWrite, Writes
<1>5. TypeOK
  <2>1. index \in [Chats -> {None} \cup Rows]
    BY StateStoreAssumption DEF Init, Rows
  <2>2. log \in [Chats -> {None} \cup Logs(1..MaxEdits)]
    BY <1>3 DEF Init
  <2>3. gens \in [Chats -> Nat] /\ edits \in 0..MaxEdits
    BY StateStoreAssumption DEF Init
  <2>4. /\ copy \in [Copies -> [Chats -> {None} \cup Held]]
        /\ base \in [Copies -> [Chats -> {None} \cup Held]]
    BY <1>1 DEF Init
  <2>5. chatLock \in [Chats -> {None} \cup Copies] /\ stateLock \in {None} \cup Copies
    BY <1>1 DEF Init
  <2>6. write \in [Copies -> Writes]
    BY <1>4 DEF Init
  <2> QED
    BY <2>1, <2>2, <2>3, <2>4, <2>5, <2>6 DEF TypeOK
<1>6. \A c \in Copies : write[c].pc = "closed" /\ copy[c] = NoChats /\ base[c] = NoChats
  BY <1>4 DEF Init
<1>7. \A ch \in Chats : IF ch \in Listed THEN log[ch] # None /\ gens[ch] = 1
                        ELSE log[ch] = None /\ index[ch] = None
  BY <1>3, StateStoreAssumption DEF Init
<1>8. WriterHasLock
  BY <1>6 DEF WriterHasLock
<1>9. FilesFirst
  BY <1>6, <1>7 DEF FilesFirst, ListedIsReadable, At
<1>10. Unstored
  BY <1>1, <1>6, <1>7 DEF Unstored, At
<1>11. StoresHistories
  BY <1>1, <1>6 DEF StoresHistories, HasHistory, At
<1> QED
  BY <1>5, <1>8, <1>9, <1>10, <1>11 DEF StoreInv

-----------------------------------------------------------------------------
(* Edits of a copy.                                                         *)

\* An edit keeps the invariant if what it leaves of the chat is a history,
\* wherever the copy had one; the files and the writes it does not touch.
LEMMA EditKeeps ==
  ASSUME TypeOK, StoreInv, NEW c \in Copies, NEW ch \in Chats,
         NEW row \in {None} \cup Held, Edit(c, ch, row), edits' \in 0..MaxEdits,
         row # None =>
           \/ Is(ch, copy[c]) /\ row.msgs = copy[c][ch].msgs
           \/ row.msgs \in Histories /\ (Loaded(c, ch) \/ gens[ch] = 0)
  PROVE  TypeOK' /\ StoreInv'
<1>1. /\ UNCHANGED <<index, log, gens, stateLock, chatLock, base, write>>
      /\ copy' = [copy EXCEPT ![c][ch] = row]
  BY DEF Edit, disk, locks
<1>2. /\ copy' \in [Copies -> [Chats -> {None} \cup Held]]
      /\ copy'[c][ch] = row
      /\ \A d \in Copies, x \in Chats : d # c \/ x # ch => copy'[d][x] = copy[d][x]
  BY <1>1 DEF TypeOK
<1>3. TypeOK'
  BY <1>1, <1>2 DEF TypeOK
<1>4. WriterHasLock' /\ FilesFirst'
  BY <1>1 DEF StoreInv, WriterHasLock, FilesFirst, ListedIsReadable, At
<1>5. Unstored'
  BY <1>1 DEF StoreInv, Unstored, At
<1>6. StoresHistories'
  <2>1. ASSUME NEW held, HasHistory(c, ch, held),
               gens[ch] = 0 /\ Is(ch, held) => held[ch].msgs \in Histories
        PROVE  HasHistory(c, ch, held)'
    <3>1. CASE row = None \/ (Is(ch, copy[c]) /\ row.msgs = copy[c][ch].msgs)
      BY <1>2, <2>1, <3>1 DEF HasHistory
    <3>2. CASE row.msgs \in Histories /\ gens[ch] = 0
      BY <1>2, <2>1, <3>2 DEF HasHistory
    <3>3. CASE row.msgs \in Histories /\ Loaded(c, ch)
      <4>1. copy[c][ch].msgs \in Histories
        BY <3>3 DEF Loaded, TypeOK, Held
      <4>2. Is(ch, held) => held[ch].msgs \in Histories
        BY <2>1, <3>3, <4>1 DEF HasHistory, Loaded
      <4> QED
        BY <1>2, <3>3, <4>2 DEF HasHistory
    <3> QED
      BY <3>1, <3>2, <3>3
  <2>2. HasHistory(c, ch, base[c])'
    <3>1. HasHistory(c, ch, base[c]) /\ (gens[ch] = 0 => ~Is(ch, base[c]))
      BY DEF StoreInv, StoresHistories, Unstored
    <3> QED
      BY <1>1, <2>1, <3>1
  <2>3. write[c].pc \in {"files", "purge"} => HasHistory(c, ch, write[c].taken)'
    <3> SUFFICES ASSUME write[c].pc \in {"files", "purge"}
                 PROVE  HasHistory(c, ch, write[c].taken)'
      OBVIOUS
    <3>1. HasHistory(c, ch, write[c].taken)
      BY DEF StoreInv, StoresHistories
    <3>2. gens[ch] = 0 /\ Is(ch, write[c].taken) => write[c].taken[ch].msgs \in Histories
      BY DEF StoreInv, Unstored, At
    <3> QED
      BY <1>1, <2>1, <3>1, <3>2
  <2>4. At(c, "store")' /\ write'[c].chat = ch /\ Is(ch, copy'[c])
          => copy'[c][ch].msgs \in Histories
    BY <1>1, <1>2 DEF StoreInv, StoresHistories, At
  <2>5. \A d \in Copies, x \in Chats : d # c \/ x # ch =>
          /\ HasHistory(d, x, base[d])'
          /\ write'[d].pc \in {"files", "purge"} => HasHistory(d, x, write[d].taken)'
    BY <1>1, <1>2 DEF StoreInv, StoresHistories, HasHistory
  <2>6. \A d \in Copies : At(d, "store")' =>
          LET x == write'[d].chat
          IN  /\ x \in Chats
              /\ Is(x, base'[d]) /\ base'[d][x].msgs \in Histories
              /\ Is(x, copy'[d]) => copy'[d][x].msgs \in Histories
    BY <1>1, <1>2, <2>4 DEF StoreInv, StoresHistories, At
  <2> QED
    BY <2>2, <2>3, <2>5, <2>6, <1>1 DEF StoresHistories, At
<1> QED
  BY <1>3, <1>4, <1>5, <1>6 DEF StoreInv

\* What an edit leaves of a chat was there, or has a new number.
OnlyNew(c, ch, row) ==
  LET old == copy[c][ch]
  IN  /\ row.title = old.title \/ edits < row.title
      /\ \A n \in row.queue : n \in old.queue \/ edits < n
      /\ row.msgs # None =>
           /\ Loaded(c, ch)
           /\ \A n \in Messages(row.msgs) : n \in Messages(old.msgs) \/ edits < n

\* The messages it leaves: those that were there, one more, the first of a new
\* chat, or all but the last.
SaidNow(c, ch, msgs) ==
  \/ Is(ch, copy[c]) /\ msgs = copy[c][ch].msgs
  \/ /\ Loaded(c, ch) /\ edits' = edits + 1
     /\ msgs = Append(copy[c][ch].msgs, edits + 1)
  \/ ~Is(ch, copy[c]) /\ edits' = edits + 1 /\ msgs = <<edits + 1>>
  \/ /\ Loaded(c, ch) /\ (SeesAll(c, ch) \/ StaleUndo)
     /\ msgs = SubSeq(copy[c][ch].msgs, 1, Len(copy[c][ch].msgs) - 1)

\* What an edit makes of a chat in a copy: it is taken out, or goes on as a
\* chat with a history if it had one, or is new and nobody else's.
EditedTo(c, ch, row) ==
  /\ Edit(c, ch, row) /\ Open(c) /\ edits' \in 0..MaxEdits /\ edits <= edits'
  /\ Is(ch, copy[c]) /\ row # None => OnlyNew(c, ch, row)
  /\ row # None => SaidNow(c, ch, row.msgs)
  /\ row # None =>
       \/ Is(ch, copy[c]) /\ row.msgs = copy[c][ch].msgs
       \/ row.msgs \in Histories /\ (Loaded(c, ch) \/ gens[ch] = 0)
  /\ gens[ch] = 0 => row = None \/ row.msgs \in Histories
  /\ deleted \subseteq deleted' /\ (row = None => ch \in deleted')
  /\ \/ Is(ch, copy[c])
     \/ gens[ch] = 0 /\ ch \notin deleted /\ \A d \in Copies : ~Is(ch, copy[d])

\* Every edit (external: a window's or a turn's) is such an edit.
LEMMA EditingIs ==
  ASSUME TypeOK, StoreInv, NEW c \in Copies, Editing(c)
  PROVE  \E ch \in Chats, row \in {None} \cup Held : EditedTo(c, ch, row)
<1>1. PICK ch \in Chats :
        Say(c, ch) \/ Rename(c, ch) \/ Queue(c, ch) \/ Create(c, ch)
          \/ Unqueue(c, ch) \/ Undo(c, ch) \/ Delete(c, ch)
  BY DEF Editing
<1>2. /\ edits \in 0..MaxEdits /\ MaxEdits \in Nat
      /\ edits < MaxEdits => edits + 1 \in 1..MaxEdits /\ edits + 1 \in 0..MaxEdits
      /\ edits <= edits /\ edits < edits + 1 /\ edits <= edits + 1
  BY StateStoreAssumption DEF TypeOK
<1>3. (Is(ch, copy[c]) => copy[c][ch] \in Held) /\ \A row \in Held : row # None
  BY StateStoreAssumption DEF TypeOK
<1>4. Is(ch, copy[c]) /\ copy[c][ch].msgs # None => copy[c][ch].msgs \in Histories
  BY <1>3 DEF Held
<1>5. ASSUME Say(c, ch) PROVE \E row \in {None} \cup Held : EditedTo(c, ch, row)
  <2> DEFINE row == [copy[c][ch] EXCEPT !.msgs = Append(@, edits + 1)]
  <2>1. /\ Loaded(c, ch) /\ edits < MaxEdits /\ edits' = edits + 1 /\ Edit(c, ch, row)
        /\ Open(c) /\ deleted' = deleted
    BY <1>5 DEF Say, Adds
  <2>2. /\ Append(copy[c][ch].msgs, edits + 1) \in Histories
        /\ \A n \in Messages(Append(copy[c][ch].msgs, edits + 1)) :
             n \in Messages(copy[c][ch].msgs) \/ n = edits + 1
    BY <1>2, <1>4, <2>1, OneMore DEF Loaded, Histories
  <2>3. /\ row \in Held /\ row.msgs \in Histories
        /\ row.title = copy[c][ch].title /\ row.queue = copy[c][ch].queue
        /\ row.msgs = Append(copy[c][ch].msgs, edits + 1)
    BY <1>3, <2>1, <2>2 DEF Loaded, Held
  <2> HIDE DEF row
  <2>4. OnlyNew(c, ch, row)
    BY <1>2, <2>1, <2>2, <2>3 DEF OnlyNew
  <2> QED
    BY <1>3, <1>2, <2>1, <2>3, <2>4 DEF EditedTo, Loaded, SaidNow
<1>6. ASSUME Rename(c, ch) PROVE \E row \in {None} \cup Held : EditedTo(c, ch, row)
  <2> DEFINE row == [copy[c][ch] EXCEPT !.title = edits + 1]
  <2>1. /\ Loaded(c, ch) /\ edits < MaxEdits /\ edits' = edits + 1 /\ Edit(c, ch, row)
        /\ Open(c) /\ deleted' = deleted
    BY <1>6 DEF Rename, Adds
  <2>2. /\ row \in Held /\ row.msgs = copy[c][ch].msgs
        /\ row.title = edits + 1 /\ row.queue = copy[c][ch].queue
    BY <1>2, <1>3, <2>1 DEF Loaded, Held
  <2> HIDE DEF row
  <2>3. OnlyNew(c, ch, row)
    BY <1>2, <2>1, <2>2 DEF OnlyNew
  <2> QED
    BY <1>3, <1>2, <1>4, <2>1, <2>2, <2>3 DEF EditedTo, Loaded, SaidNow
<1>7. ASSUME Queue(c, ch) PROVE \E row \in {None} \cup Held : EditedTo(c, ch, row)
  <2> DEFINE row == [copy[c][ch] EXCEPT !.queue = @ \cup {edits + 1}]
  <2>1. /\ Loaded(c, ch) /\ edits < MaxEdits /\ edits' = edits + 1 /\ Edit(c, ch, row)
        /\ Open(c) /\ deleted' = deleted
    BY <1>7 DEF Queue, Adds
  <2>2. /\ row \in Held /\ row.msgs = copy[c][ch].msgs
        /\ row.title = copy[c][ch].title
        /\ row.queue = copy[c][ch].queue \cup {edits + 1}
    BY <1>2, <1>3, <2>1 DEF Loaded, Held
  <2> HIDE DEF row
  <2>3. OnlyNew(c, ch, row)
    BY <1>2, <2>1, <2>2 DEF OnlyNew
  <2> QED
    BY <1>3, <1>2, <1>4, <2>1, <2>2, <2>3 DEF EditedTo, Loaded, SaidNow
<1>8. ASSUME Create(c, ch) PROVE \E row \in {None} \cup Held : EditedTo(c, ch, row)
  <2> DEFINE row == [title |-> 0, queue |-> {}, msgs |-> <<edits + 1>>, at |-> Nowhere]
  <2>1. /\ gens[ch] = 0 /\ ch \notin deleted /\ \A d \in Copies : ~Is(ch, copy[d])
        /\ edits < MaxEdits /\ edits' = edits + 1 /\ Edit(c, ch, row)
        /\ Open(c) /\ deleted' = deleted
    BY <1>8 DEF Create, Adds
  <2>2. row \in Held /\ row.msgs \in Histories
    BY <1>2, <2>1 DEF Held, Histories, Nowhere, Spots
  <2>3. row.msgs = <<edits + 1>>
    OBVIOUS
  <2> HIDE DEF row
  <2> QED
    BY <1>3, <1>2, <2>1, <2>2, <2>3 DEF EditedTo, Loaded, SaidNow
<1>9. ASSUME Unqueue(c, ch) PROVE \E row \in {None} \cup Held : EditedTo(c, ch, row)
  <2>1. PICK n \in copy[c][ch].queue :
          Removes(c, ch, [copy[c][ch] EXCEPT !.queue = @ \ {n}])
    BY <1>9 DEF Unqueue
  <2> DEFINE row == [copy[c][ch] EXCEPT !.queue = @ \ {n}]
  <2>2. /\ Is(ch, copy[c]) /\ edits' = edits /\ Edit(c, ch, row)
        /\ Open(c) /\ deleted' = deleted
    BY <1>9, <2>1 DEF Unqueue, Removes
  <2>3. /\ row \in Held /\ row.msgs = copy[c][ch].msgs
        /\ row.title = copy[c][ch].title /\ row.queue \subseteq copy[c][ch].queue
    BY <1>3, <2>2 DEF Held
  <2>4. gens[ch] = 0 => row.msgs \in Histories
    BY <2>2, <2>3 DEF StoreInv, Unstored, StoresHistories, HasHistory
  <2> HIDE DEF row
  <2>5. OnlyNew(c, ch, row)
    BY <2>2, <2>3 DEF OnlyNew, Loaded
  <2> QED
    BY <1>3, <1>2, <2>2, <2>3, <2>4, <2>5 DEF EditedTo, Loaded, SaidNow
<1>10. ASSUME Undo(c, ch) PROVE \E row \in {None} \cup Held : EditedTo(c, ch, row)
  <2> DEFINE row == [copy[c][ch] EXCEPT !.msgs = SubSeq(@, 1, Len(@) - 1)]
  <2>1. /\ Loaded(c, ch) /\ copy[c][ch].msgs # <<>> /\ edits' = edits
        /\ (SeesAll(c, ch) \/ StaleUndo) /\ Edit(c, ch, row) /\ Open(c) /\ deleted' = deleted
    BY <1>10 DEF Undo, Removes
  <2>2. /\ SubSeq(copy[c][ch].msgs, 1, Len(copy[c][ch].msgs) - 1) \in Histories
        /\ Messages(SubSeq(copy[c][ch].msgs, 1, Len(copy[c][ch].msgs) - 1))
             \subseteq Messages(copy[c][ch].msgs)
    BY <1>4, <2>1, ButLast DEF Loaded, Histories
  <2>3. /\ row \in Held /\ row.msgs \in Histories
        /\ row.title = copy[c][ch].title /\ row.queue = copy[c][ch].queue
        /\ row.msgs = SubSeq(copy[c][ch].msgs, 1, Len(copy[c][ch].msgs) - 1)
        /\ Messages(row.msgs) \subseteq Messages(copy[c][ch].msgs)
    BY <1>3, <2>1, <2>2 DEF Loaded, Held
  <2> HIDE DEF row
  <2>4. OnlyNew(c, ch, row)
    BY <2>1, <2>3 DEF OnlyNew
  <2> QED
    BY <1>3, <1>2, <2>1, <2>3, <2>4 DEF EditedTo, Loaded, SaidNow
<1>11. ASSUME Delete(c, ch) PROVE \E row \in {None} \cup Held : EditedTo(c, ch, row)
  <2>1. /\ Is(ch, copy[c]) /\ edits' = edits /\ Edit(c, ch, None)
        /\ Open(c) /\ deleted' = deleted \cup {ch}
    BY <1>11 DEF Delete, Removes
  <2> QED
    BY <1>3, <1>2, <2>1 DEF EditedTo, Loaded
<1> QED
  BY <1>1, <1>5, <1>6, <1>7, <1>8, <1>9, <1>10, <1>11

LEMMA EditingKeeps ==
  ASSUME TypeOK, StoreInv, NEW c \in Copies, Editing(c)
  PROVE  TypeOK' /\ StoreInv'
<1>1. PICK ch \in Chats, row \in {None} \cup Held : EditedTo(c, ch, row)
  BY EditingIs
<1> QED
  BY <1>1, EditKeeps DEF EditedTo

-----------------------------------------------------------------------------
(* Steps of a write.                                                        *)

\* A step that changes only what the copy is doing, and gives up or takes
\* locks, keeps the invariant unless it goes where the index is stored; what
\* it takes to a transcript's store must be there, and what it read of the
\* index must have been stored once.
LEMMA GotoKeeps ==
  ASSUME TypeOK, StoreInv, NEW c \in Copies, NEW w \in Writes, Goto(c, w),
         UNCHANGED <<disk, copy, base, edits>>,
         stateLock' \in {None} \cup Copies,
         chatLock' \in [Chats -> {None} \cup Copies],
         \A d \in Copies \ {c} : stateLock = d => stateLock' = d,
         w.pc \notin {"files", "purge"},
         w.pc = "opening" => \A ch \in Chats : gens[ch] = 0 => ~Is(ch, w.next),
         w.pc = "store" =>
           /\ w.chat \in Chats
           /\ Is(w.chat, base[c]) /\ base[c][w.chat].msgs \in Histories
           /\ Is(w.chat, copy[c]) => copy[c][w.chat].msgs \in Histories
  PROVE  TypeOK' /\ StoreInv'
<1>1. UNCHANGED <<index, log, gens, copy, base, edits>>
  BY DEF disk
<1>2. /\ write' \in [Copies -> Writes] /\ write'[c] = w
      /\ \A d \in Copies : d # c => write'[d] = write[d]
  BY DEF TypeOK, Goto
<1>3. TypeOK'
  BY <1>1, <1>2 DEF TypeOK
<1>4. WriterHasLock'
  BY <1>2 DEF StoreInv, WriterHasLock
<1>5. FilesFirst'
  BY <1>1, <1>2 DEF StoreInv, FilesFirst, ListedIsReadable, At
<1>6. Unstored'
  BY <1>1, <1>2 DEF StoreInv, Unstored, At
<1>7. StoresHistories'
  <2>1. \A d \in Copies, held, ch \in Chats : HasHistory(d, ch, held)' <=> HasHistory(d, ch, held)
    BY <1>1 DEF HasHistory
  <2> QED
    BY <1>1, <1>2 DEF StoreInv, StoresHistories, At, HasHistory
<1> QED
  BY <1>3, <1>4, <1>5, <1>6, <1>7 DEF StoreInv

LEMMA NoWriteIs ==
  /\ NoWrite \in Writes /\ Closed \in Writes
  /\ NoWrite.pc = "idle" /\ Closed.pc = "closed"
<1>1. NoChats \in [Chats -> {None}]
  BY DEF NoChats
<1>2. <<>> \in Histories
  BY DEF Histories
<1> QED
  BY <1>1, <1>2, StateStoreAssumption DEF Closed, NoWrite, Writes

\* Reading the index, a copy sees no chat that was never stored.
LEMMA ReadIndexKeeps ==
  ASSUME TypeOK, StoreInv, NEW c \in Copies, ReadIndex(c)
  PROVE  TypeOK' /\ StoreInv'
<1> DEFINE w == [NoWrite EXCEPT !.pc = "opening", !.next = index]
<1>1. w \in Writes /\ w.pc = "opening" /\ w.next = index
  BY NoWriteIs DEF TypeOK, Writes
<1>2. \A ch \in Chats : gens[ch] = 0 => ~Is(ch, w.next)
  BY <1>1 DEF StoreInv, Unstored, FilesFirst, ListedIsReadable
<1>3. Goto(c, w) /\ UNCHANGED <<disk, copy, base, edits, locks>>
  BY DEF ReadIndex
<1>4. UNCHANGED <<stateLock, chatLock>> 
  BY <1>3 DEF locks
<1> HIDE DEF w
<1> QED
  BY <1>1, <1>2, <1>3, <1>4, GotoKeeps DEF TypeOK

\* Where the messages of a copy and its base differ, both have the history.
LEMMA ChangedHasBoth ==
  ASSUME StoreInv, NEW c \in Copies, NEW ch \in Chats, Changed(c, ch)
  PROVE  /\ Is(ch, copy[c]) /\ copy[c][ch].msgs \in Histories
         /\ Is(ch, base[c]) /\ base[c][ch].msgs \in Histories
BY DEF StoreInv, StoresHistories, HasHistory, Changed, Known

\* Taking a chat's lock to store what its copy holds.
LEMMA TakeChatKeeps ==
  ASSUME TypeOK, StoreInv, NEW c \in Copies, NEW ch \in Chats, NEW w \in Writes,
         NEW back \in {"idle", "own", "later"}, Changed(c, ch),
         TakeChat(c, ch, w, back)
  PROVE  TypeOK' /\ StoreInv'
<1> DEFINE v == [w EXCEPT !.pc = "store", !.chat = ch, !.now = copy[c][ch].msgs,
                          !.back = back]
<1>1. /\ Is(ch, copy[c]) /\ copy[c][ch].msgs \in Histories
      /\ Is(ch, base[c]) /\ base[c][ch].msgs \in Histories
  BY ChangedHasBoth
<1>2. v \in Writes /\ v.pc = "store" /\ v.chat = ch
  BY <1>1 DEF Writes
<1>3. /\ Goto(c, v) /\ UNCHANGED <<disk, copy, base, edits, stateLock>>
      /\ chatLock' = [chatLock EXCEPT ![ch] = c]
  BY DEF TakeChat
<1>4. chatLock' \in [Chats -> {None} \cup Copies] /\ stateLock' \in {None} \cup Copies
  BY <1>3 DEF TypeOK
<1> HIDE DEF v
<1> QED
  BY <1>1, <1>2, <1>3, <1>4, GotoKeeps

\* A step that goes on with a write and touches nothing else.
LEMMA GoesOn ==
  ASSUME TypeOK, StoreInv, NEW c \in Copies, NEW w \in Writes, Goto(c, w),
         w.pc \in {"idle", "own", "later"},
         UNCHANGED <<disk, locks, copy, base, edits>>
  PROVE  TypeOK' /\ StoreInv'
<1>1. UNCHANGED <<stateLock, chatLock>>
  BY DEF locks
<1>2. UNCHANGED <<disk, copy, base, edits>>
  OBVIOUS
<1>3. w.pc \notin {"files", "purge"} /\ w.pc # "opening" /\ w.pc # "store"
  OBVIOUS
<1> QED
  BY <1>1, <1>2, <1>3, GotoKeeps DEF TypeOK

LEMMA CheckpointKeeps ==
  ASSUME TypeOK, StoreInv, NEW c \in Copies, NEW ch \in Chats, Checkpoint(c, ch)
  PROVE  TypeOK' /\ StoreInv'
<1>1. write[c] \in Writes /\ Changed(c, ch) /\ TakeChat(c, ch, write[c], "idle")
  BY DEF TypeOK, Checkpoint
<1> QED
  BY <1>1, TakeChatKeeps

LEMMA BeginKeeps ==
  ASSUME TypeOK, StoreInv, NEW c \in Copies, Begin(c)
  PROVE  TypeOK' /\ StoreInv'
<1> DEFINE w == [NoWrite EXCEPT !.pc = "own",
                   !.todo = {ch \in Chats : Known(c, ch) /\ Loaded(c, ch)}]
<1>1. w \in Writes /\ w.pc = "own"
  BY NoWriteIs DEF Writes
<1>2. Goto(c, w) /\ UNCHANGED <<disk, locks, copy, base, edits>>
  BY DEF Begin
<1> HIDE DEF w
<1> QED
  BY <1>1, <1>2, GoesOn

LEMMA OwnNextKeeps ==
  ASSUME TypeOK, StoreInv, NEW c \in Copies, OwnNext(c)
  PROVE  TypeOK' /\ StoreInv'
<1>1. PICK ch \in write[c].todo :
        LET w == [write[c] EXCEPT !.todo = @ \ {ch}]
        IN  IF Changed(c, ch) /\ Is(ch, index)
            THEN TakeChat(c, ch, w, "own")
            ELSE /\ Goto(c, IF Known(c, ch) /\ ~Changed(c, ch)
                              THEN [w EXCEPT !.own = @ \cup {ch}] ELSE w)
                 /\ UNCHANGED <<disk, locks, copy, base, edits, bounds, history>>
  BY DEF OwnNext
<1> DEFINE w == [write[c] EXCEPT !.todo = @ \ {ch}]
           v == IF Known(c, ch) /\ ~Changed(c, ch)
                  THEN [w EXCEPT !.own = @ \cup {ch}] ELSE w
<1>2. write[c] \in Writes /\ write[c].pc = "own"
  BY DEF TypeOK, OwnNext, At
<1>3. ch \in Chats
  BY <1>2 DEF Writes
<1>4. w \in Writes /\ w.pc = "own"
  BY <1>2 DEF Writes
<1>5. v \in Writes /\ v.pc = "own"
  <2> HIDE DEF w
  <2> QED
    BY <1>3, <1>4 DEF Writes
<1>6. CASE Changed(c, ch) /\ Is(ch, index)
  <2>1. TakeChat(c, ch, w, "own")
    BY <1>1, <1>6
  <2> HIDE DEF w
  <2> QED
    BY <1>3, <1>4, <1>6, <2>1, TakeChatKeeps
<1>7. CASE ~(Changed(c, ch) /\ Is(ch, index))
  <2>1. Goto(c, v) /\ UNCHANGED <<disk, locks, copy, base, edits>>
    BY <1>1, <1>7
  <2> HIDE DEF v
  <2> QED
    BY <1>5, <2>1, GoesOn
<1> QED
  BY <1>6, <1>7

LEMMA EndKeeps ==
  ASSUME TypeOK, StoreInv, NEW c \in Copies, End(c)
  PROVE  TypeOK' /\ StoreInv'
<1>1. Goto(c, NoWrite) /\ UNCHANGED <<disk, locks, copy, base, edits>>
  BY DEF End
<1> QED
  BY <1>1, NoWriteIs, GoesOn

LEMMA FailKeeps ==
  ASSUME TypeOK, StoreInv, NEW c \in Copies, Fail(c)
  PROVE  TypeOK' /\ StoreInv'
<1>1. Goto(c, NoWrite) /\ LetGo(c) /\ UNCHANGED <<disk, copy, base, edits>>
  BY DEF Fail
<1>2. /\ stateLock' \in {None} \cup Copies
      /\ chatLock' \in [Chats -> {None} \cup Copies]
      /\ \A d \in Copies \ {c} : stateLock = d => stateLock' = d
  BY <1>1 DEF LetGo, TypeOK
<1> QED
  BY <1>1, <1>2, NoWriteIs, GotoKeeps

\* The transcript is stored, and the base moves to it (a write's own
\* transcripts, and those left for later).
LEMMA StoredKeeps ==
  ASSUME TypeOK, StoreInv, NEW c \in Copies, NEW ch \in Chats,
         NEW msgs \in Histories, NEW w \in Writes, w.pc \in {"idle", "own", "later"},
         Is(ch, base[c]), base[c][ch].msgs \in Histories,
         Is(ch, copy[c]) => copy[c][ch].msgs \in Histories,
         Put(ch, Out(ch, base[c][ch], msgs)),
         Moved(c, ch, msgs, Out(ch, base[c][ch], msgs).at),
         Goto(c, w), UNCHANGED <<index, stateLock, copy, edits>>,
         chatLock' \in [Chats -> {None} \cup Copies]
  PROVE  TypeOK' /\ StoreInv'
<1> DEFINE out == Out(ch, base[c][ch], msgs)
<1>1. base[c][ch] \in Held
  BY DEF TypeOK
<1>2. out.log \in Logs(1..MaxEdits) /\ out.at \in Spots
  <2>1. base[c][ch].at \in Spots
    BY <1>1 DEF Held
  <2> QED
    BY <2>1, OutIsLog
<1> HIDE DEF out
<1>3. /\ log' \in [Chats -> {None} \cup Logs(1..MaxEdits)]
      /\ gens' \in [Chats -> Nat]
      /\ gens'[ch] # 0
      /\ \A x \in Chats : Is(x, log) => Is(x, log)'
      /\ \A x \in Chats : gens'[x] = 0 => gens[x] = 0 /\ (~Is(x, log) => ~Is(x, log)')
  <2>1. Put(ch, out)
    BY DEF out
  <2> QED
    BY <1>2, <2>1, PutKeeps
<1>4. /\ write' \in [Copies -> Writes] /\ write'[c] = w
      /\ \A d \in Copies : d # c => write'[d] = write[d]
  BY DEF TypeOK, Goto
<1> DEFINE row == [base[c][ch] EXCEPT !.msgs = msgs, !.at = out.at]
<1>5. row \in Held /\ row.msgs = msgs
  BY <1>1, <1>2 DEF Held
<1>6. base' = [base EXCEPT ![c][ch] = row]
  BY DEF Moved, out, TypeOK
<1> HIDE DEF row
<1>7. /\ base' \in [Copies -> [Chats -> {None} \cup Held]]
      /\ base'[c][ch] = row
      /\ \A d \in Copies, x \in Chats : d # c \/ x # ch => base'[d][x] = base[d][x]
  BY <1>5, <1>6 DEF TypeOK
<1>8. TypeOK'
  BY <1>3, <1>4, <1>7 DEF TypeOK
<1>9. WriterHasLock'
  BY <1>4 DEF StoreInv, WriterHasLock
<1>10. FilesFirst'
  BY <1>3, <1>4 DEF StoreInv, FilesFirst, ListedIsReadable, At
<1>11. Unstored'
  <2>1. \A x \in Chats : gens'[x] = 0 => x # ch /\ gens[x] = 0 /\ ~Is(x, log)'
    BY <1>3 DEF StoreInv, Unstored
  <2>2. w.pc \notin {"opening", "files", "purge"}
    OBVIOUS
  <2>3. \A x \in Chats : gens'[x] = 0 =>
          /\ ~Is(x, log)'
          /\ \A d \in Copies :
               /\ ~Is(x, base'[d])
               /\ At(d, "opening")' => ~Is(x, write'[d].next)
               /\ write'[d].pc \in {"files", "purge"} /\ Is(x, write'[d].taken)
                    => x \in write'[d].files
    BY <1>4, <1>7, <2>1, <2>2 DEF StoreInv, Unstored, At
  <2>4. \A d \in Copies :
          /\ At(d, "purge")' => write'[d].files = {}
          /\ At(d, "files")' => \A x \in write'[d].files :
                                  /\ Is(x, write'[d].taken)
                                  /\ write'[d].taken[x].msgs \in Histories
    BY <1>4, <2>2 DEF StoreInv, Unstored, At
  <2> QED
    BY <2>3, <2>4 DEF Unstored
<1>12. StoresHistories'
  <2>1. HasHistory(c, ch, base[c])'
    BY <1>5, <1>7 DEF HasHistory
  <2>2. \A d \in Copies, x \in Chats : d # c \/ x # ch =>
          (HasHistory(d, x, base[d])' <=> HasHistory(d, x, base[d]))
    BY <1>7 DEF HasHistory
  <2>3. \A d \in Copies \ {c} : write'[d] = write[d] /\ base'[d] = base[d]
    BY <1>4, <1>6 DEF TypeOK
  <2>4. \A d \in Copies \ {c}, x \in Chats :
          HasHistory(d, x, write[d].taken)' <=> HasHistory(d, x, write[d].taken)
    BY <2>3 DEF HasHistory
  <2>5. w.pc # "store" /\ w.pc \notin {"files", "purge"}
    OBVIOUS
  <2>6. \A d \in Copies, x \in Chats : HasHistory(d, x, base[d])'
    BY <2>1, <2>2 DEF StoreInv, StoresHistories
  <2>7. \A d \in Copies, x \in Chats :
          write'[d].pc \in {"files", "purge"} => HasHistory(d, x, write[d].taken)'
    BY <1>4, <2>3, <2>4, <2>5 DEF StoreInv, StoresHistories
  <2>8. \A d \in Copies : At(d, "store")' => d # c /\ At(d, "store")
    BY <1>4, <2>3, <2>5 DEF At
  <2> QED
    BY <2>3, <2>6, <2>7, <2>8 DEF StoreInv, StoresHistories
<1> QED
  BY <1>8, <1>9, <1>10, <1>11, <1>12 DEF StoreInv

LEMMA StoreOwnKeeps ==
  ASSUME TypeOK, StoreInv, NEW c \in Copies, StoreOwn(c)
  PROVE  TypeOK' /\ StoreInv'
<1> DEFINE w == write[c]
           ch == w.chat
           v == [w EXCEPT !.pc = w.back, !.chat = None, !.now = <<>>, !.back = "idle",
                          !.own = IF w.back = "own" THEN @ \cup {w.chat} ELSE @]
<1>1. /\ At(c, "store") /\ w \in Writes
      /\ ch \in Chats /\ w.now \in Histories
      /\ Is(ch, base[c]) /\ base[c][ch].msgs \in Histories
      /\ Is(ch, copy[c]) => copy[c][ch].msgs \in Histories
  BY DEF StoreOwn, TypeOK, StoreInv, StoresHistories, Writes
<1>2. v \in Writes /\ v.pc \in {"idle", "own", "later"}
  <2>1. w.own \cup {ch} \in SUBSET Chats /\ <<>> \in Histories
    BY <1>1 DEF Writes, Histories
  <2> HIDE DEF w
  <2>2. ch = w.chat
    OBVIOUS
  <2> HIDE DEF ch
  <2> QED
    BY <1>1, <2>1, <2>2 DEF Writes
<1>3. /\ Put(ch, Out(ch, base[c][ch], w.now))
      /\ Moved(c, ch, w.now, Out(ch, base[c][ch], w.now).at)
      /\ Goto(c, v) /\ UNCHANGED <<index, stateLock, copy, edits>>
      /\ chatLock' = [chatLock EXCEPT ![ch] = None]
  BY DEF StoreOwn
<1>4. chatLock' \in [Chats -> {None} \cup Copies]
  BY <1>3 DEF TypeOK
<1> HIDE DEF w, ch, v
<1> QED
  BY <1>1, <1>2, <1>3, <1>4, StoredKeeps

LEMMA LaterKeeps ==
  ASSUME TypeOK, StoreInv, NEW c \in Copies, Later(c)
  PROVE  TypeOK' /\ StoreInv'
<1>1. PICK ch \in write[c].later :
        LET w == [write[c] EXCEPT !.later = @ \ {ch}]
            out == Out(ch, base[c][ch], copy[c][ch].msgs)
        IN  \/ /\ ~Changed(c, ch)
               /\ Goto(c, w)
               /\ UNCHANGED <<disk, locks, copy, base, edits, bounds, history>>
            \/ /\ Changed(c, ch) /\ Is(ch, index)
               /\ TakeChat(c, ch, w, "later")
            \/ /\ Changed(c, ch) /\ ~Is(ch, index)
               /\ stateLock = None /\ chatLock[ch] = None
               /\ Put(ch, out) /\ Moved(c, ch, copy[c][ch].msgs, out.at)
               /\ Goto(c, w)
               /\ UNCHANGED <<index, locks, copy, edits, bounds, made, dropped,
                              deleted, littered>>
               /\ Recorded
  BY DEF Later
<1> DEFINE w == [write[c] EXCEPT !.later = @ \ {ch}]
           out == Out(ch, base[c][ch], copy[c][ch].msgs)
<1>2. write[c] \in Writes /\ write[c].pc = "later"
  BY DEF TypeOK, Later, At
<1>3. ch \in Chats /\ w \in Writes /\ w.pc = "later"
  BY <1>2 DEF Writes
<1>4. CASE ~Changed(c, ch) /\ Goto(c, w)
             /\ UNCHANGED <<disk, locks, copy, base, edits>>
  BY <1>3, <1>4, GoesOn
<1>5. CASE Changed(c, ch) /\ TakeChat(c, ch, w, "later")
  BY <1>3, <1>5, TakeChatKeeps
<1>6. CASE /\ Changed(c, ch)
           /\ Put(ch, out) /\ Moved(c, ch, copy[c][ch].msgs, out.at)
           /\ Goto(c, w) /\ UNCHANGED <<index, locks, copy, edits>>
  <2>1. /\ Is(ch, copy[c]) /\ copy[c][ch].msgs \in Histories
        /\ Is(ch, base[c]) /\ base[c][ch].msgs \in Histories
    BY <1>3, <1>6, ChangedHasBoth
  <2>2. UNCHANGED <<stateLock, chatLock>>
    BY <1>6 DEF locks
  <2>3. chatLock' \in [Chats -> {None} \cup Copies]
    BY <2>2 DEF TypeOK
  <2> HIDE DEF w
  <2> QED
    BY <1>3, <1>6, <2>1, <2>2, <2>3, StoredKeeps
<1> QED
  BY <1>1, <1>4, <1>5, <1>6

\* A snapshot has the chats of its copy, each with the history the copy or its
\* base has.
LEMMA SnapshotIs ==
  ASSUME TypeOK, NEW c \in Copies, NEW later, NEW ch \in Chats
  PROVE  LET taken == Snapshot(c, later)
         IN  /\ Is(ch, taken) <=> Is(ch, copy[c])
             /\ ~Is(ch, base[c]) => taken[ch] = copy[c][ch]
             /\ Is(ch, copy[c]) =>
                  \/ taken[ch] = copy[c][ch]
                  \/ Is(ch, base[c]) /\ taken[ch].msgs = base[c][ch].msgs
<1> DEFINE taken == Snapshot(c, later)
           row == [copy[c][ch] EXCEPT !.msgs = base[c][ch].msgs, !.at = base[c][ch].at]
<1>1. base[c][ch] \in {None} \cup Held /\ copy[c][ch] \in {None} \cup Held
  BY DEF TypeOK
<1>2. CASE ~Is(ch, copy[c])
  BY <1>2 DEF Snapshot
<1>3. CASE Is(ch, copy[c]) /\ taken[ch] = copy[c][ch]
  BY <1>3
<1>4. CASE Is(ch, copy[c]) /\ Is(ch, base[c]) /\ taken[ch] = row
  <2>1. row \in Held /\ row.msgs = base[c][ch].msgs
    BY <1>1, <1>4 DEF Held
  <2> HIDE DEF row, taken
  <2>2. row # None
    BY <2>1, StateStoreAssumption
  <2> QED
    BY <1>4, <2>1, <2>2 DEF taken
<1> QED
  BY <1>2, <1>3, <1>4 DEF Snapshot

\* With the state lock, what the write will store of each chat is taken.
LEMMA TakeStateKeeps ==
  ASSUME TypeOK, StoreInv, NEW c \in Copies, TakeState(c)
  PROVE  TypeOK' /\ StoreInv'
<1> DEFINE w == write[c]
           next == [ch \in Chats |-> MergedRow(base[c][ch], copy[c][ch], index[ch])]
           later == {ch \in w.own : Is(ch, index) /\ Changed(c, ch)}
           taken == Snapshot(c, later)
           files == {ch \in Chats : Is(ch, copy[c]) /\ ~Is(ch, base[c])}
           doomed == {ch \in Chats : Is(ch, base[c]) /\ next[ch] = None}
           v == [w EXCEPT !.pc = "files", !.own = {}, !.later = later, !.upTo = edits,
                          !.next = next, !.taken = taken, !.files = files,
                          !.doomed = doomed]
<1>1. /\ w \in Writes /\ Goto(c, v) /\ stateLock = None /\ stateLock' = c
      /\ UNCHANGED <<index, log, gens, chatLock, copy, base, edits>>
  BY DEF TakeState, TypeOK, disk
<1>2. \A ch \in Chats :
        /\ index[ch] \in {None} \cup Rows
        /\ base[c][ch] \in {None} \cup Held
        /\ copy[c][ch] \in {None} \cup Held
  BY DEF TypeOK
<1>3. next \in [Chats -> {None} \cup Rows]
  <2> SUFFICES ASSUME NEW ch \in Chats
               PROVE  MergedRow(base[c][ch], copy[c][ch], index[ch]) \in {None} \cup Rows
    OBVIOUS
  <2> QED
    BY <1>2 DEF MergedRow, Rows, Held
<1>4. later \in SUBSET Chats
  BY <1>1 DEF Writes
<1>5. taken \in [Chats -> {None} \cup Held]
  <2> HIDE DEF later
  <2> QED
    BY <1>2 DEF Snapshot, Held
<1>6. \A ch \in Chats :
        /\ Is(ch, taken) => Is(ch, copy[c])
        /\ ch \in files => taken[ch] = copy[c][ch]
        /\ Is(ch, copy[c]) =>
             /\ Is(ch, taken)
             /\ \/ taken[ch] = copy[c][ch]
                \/ Is(ch, base[c]) /\ taken[ch].msgs = base[c][ch].msgs
  <2> HIDE DEF later
  <2> QED
    BY SnapshotIs
<1>7. \A ch \in Chats : Is(ch, next) /\ ch \notin files => Is(ch, index)
  BY <1>2 DEF MergedRow
<1>8. /\ v \in Writes /\ v.pc = "files" /\ v.next = next /\ v.taken = taken
      /\ v.files = files /\ v.doomed = doomed
  <2>1. files \in SUBSET Chats /\ doomed \in SUBSET Chats
    OBVIOUS
  <2> HIDE DEF w, next, later, taken, files, doomed
  <2> QED
    BY <1>1, <1>3, <1>4, <1>5, <2>1 DEF Writes, TypeOK
<1>9. \A ch \in doomed : ~Is(ch, next)
  OBVIOUS
<1>10. \A ch \in files : Is(ch, copy[c]) /\ ~Is(ch, base[c]) /\ ch \in Chats
  OBVIOUS
<1>11. \A ch \in Chats : Is(ch, taken) /\ ~Is(ch, base[c]) => ch \in files
  BY <1>6
<1>12. \A d \in Copies : write[d].pc \notin {"files", "purge"}
  BY <1>1, StateStoreAssumption DEF StoreInv, WriterHasLock
<1> HIDE DEF w, next, later, taken, files, doomed, v
<1>13. /\ write' \in [Copies -> Writes] /\ write'[c] = v
       /\ \A d \in Copies : d # c => write'[d] = write[d]
  BY <1>1, <1>8 DEF TypeOK, Goto
<1>14. TypeOK'
  BY <1>1, <1>13 DEF TypeOK
<1>15. WriterHasLock'
  BY <1>1, <1>12, <1>13 DEF WriterHasLock
<1>16. FilesFirst'
  BY <1>1, <1>7, <1>8, <1>9, <1>12, <1>13
     DEF StoreInv, FilesFirst, ListedIsReadable, At
<1>17. Unstored'
  <2>1. \A ch \in files : Is(ch, taken) /\ taken[ch].msgs \in Histories
    BY <1>6, <1>10 DEF StoreInv, StoresHistories, HasHistory
  <2> QED
    BY <1>1, <1>8, <1>11, <1>12, <1>13, <2>1 DEF StoreInv, Unstored, At
<1>18. StoresHistories'
  <2>1. \A ch \in Chats : HasHistory(c, ch, taken)
    <3>1. \A ch \in Chats : HasHistory(c, ch, base[c])
      BY DEF StoreInv, StoresHistories
    <3> QED
      BY <1>6, <3>1 DEF HasHistory
  <2>2. \A d \in Copies, held, ch \in Chats : HasHistory(d, ch, held)' <=> HasHistory(d, ch, held)
    BY <1>1 DEF HasHistory
  <2> QED
    BY <1>1, <1>8, <1>12, <1>13, <2>1, <2>2 DEF StoreInv, StoresHistories, At, HasHistory
<1> QED
  BY <1>14, <1>15, <1>16, <1>17, <1>18 DEF StoreInv

\* Only one write is storing the index.
LEMMA OneStores ==
  ASSUME StoreInv, NEW c \in Copies, write[c].pc \in {"files", "purge"}
  PROVE  /\ stateLock = c
         /\ \A d \in Copies : write[d].pc \in {"files", "purge"} => d = c
BY DEF StoreInv, WriterHasLock

\* What is in a log now, as a base that does not know where it stands in it.
LogNow(ch) == [msgs |-> IF Is(ch, log) THEN log[ch].msgs ELSE <<>>, at |-> Nowhere]

\* What storing the transcript of a chat not listed yet changes.
FileStored(c, ch) ==
  /\ write[c].pc = "files" /\ ch \in write[c].files
  /\ UNCHANGED <<index, stateLock, chatLock, copy, base, edits, deleted, littered>>
  /\ Is(ch, write[c].taken) /\ write[c].taken[ch].msgs \in Histories
  /\ write'[c].pc = "files"
  /\ write'[c].next = write[c].next /\ write'[c].doomed = write[c].doomed
  /\ write'[c].files = write[c].files \ {ch}
  /\ write'[c].later = write[c].later /\ write'[c].upTo = write[c].upTo
  /\ Is(ch, write'[c].taken)
  /\ write'[c].taken[ch].title = write[c].taken[ch].title
  /\ write'[c].taken[ch].queue = write[c].taken[ch].queue
  /\ write'[c].taken[ch].msgs = write[c].taken[ch].msgs
  /\ \A x \in Chats : x # ch => write'[c].taken[x] = write[c].taken[x]
  /\ write' \in [Copies -> Writes]
  /\ \A d \in Copies : d # c => write'[d] = write[d]
  /\ log' \in [Chats -> {None} \cup Logs(1..MaxEdits)]
  /\ gens' \in [Chats -> Nat]
  /\ Is(ch, log)' /\ gens'[ch] # 0
  /\ \A x \in Chats : x # ch => log'[x] = log[x] /\ gens'[x] = gens[x]
  /\ Put(ch, Out(ch, LogNow(ch), write[c].taken[ch].msgs))

\* The step is that, of a chat waited for.
LEMMA StoreFileIs ==
  ASSUME TypeOK, StoreInv, NEW c \in Copies, StoreFile(c)
  PROVE  \E ch \in Chats : FileStored(c, ch)
<1>1. PICK ch \in write[c].files :
        LET msgs == write[c].taken[ch].msgs
            out == IF ~Is(ch, log) THEN FirstStored(msgs, NextGen(ch))
                   ELSE Out(ch, [msgs |-> log[ch].msgs, at |-> Nowhere], msgs)
        IN  /\ chatLock[ch] = None
            /\ Put(ch, out)
            /\ Goto(c, [write[c] EXCEPT !.files = @ \ {ch}, !.taken[ch].at = out.at])
  BY DEF StoreFile
<1> DEFINE w == write[c]
           msgs == w.taken[ch].msgs
           b == [msgs |-> log[ch].msgs, at |-> Nowhere]
           out == IF ~Is(ch, log) THEN FirstStored(msgs, NextGen(ch))
                  ELSE Out(ch, b, msgs)
           row == [w.taken[ch] EXCEPT !.at = out.at]
           v == [w EXCEPT !.files = @ \ {ch}, !.taken = [@ EXCEPT ![ch] = row]]
<1>2. /\ w \in Writes /\ w.pc = "files"
      /\ UNCHANGED <<index, stateLock, chatLock, copy, base, edits, deleted, littered>>
  BY DEF TypeOK, StoreFile, At, locks
<1>3. ch \in Chats
  BY <1>2 DEF Writes
<1>4. Is(ch, w.taken) /\ msgs \in Histories /\ w.taken[ch] \in Held
  <2>1. Is(ch, w.taken) /\ msgs \in Histories
    BY <1>2 DEF StoreInv, Unstored, At
  <2> QED
    BY <1>2, <1>3, <2>1 DEF Writes
<1>5. out.log \in Logs(1..MaxEdits) /\ out.at \in Spots
  <2>1. CASE Is(ch, log)
    <3>1. b.msgs \in Histories /\ b.at \in Spots
      BY <1>3, <2>1 DEF TypeOK, Logs, Histories, Nowhere, Spots
    <3>2. out = Out(ch, b, msgs)
      BY <2>1
    <3> HIDE DEF b, msgs, out
    <3> QED
      BY <1>3, <1>4, <3>1, <3>2, OutIsLog
  <2>2. CASE ~Is(ch, log)
    <3>1. out = FirstStored(msgs, NextGen(ch))
      BY <2>2
    <3>2. NextGen(ch) \in Nat \ {0} /\ Len(msgs) \in Nat
      BY <1>3, <1>4 DEF TypeOK, NextGen, Histories
    <3> HIDE DEF msgs, out
    <3> QED
      BY <1>4, <3>1, <3>2 DEF FirstStored, Rewritten, Logs, Spots, Histories
  <2> QED
    BY <2>1, <2>2
<1>6. Put(ch, out) /\ Goto(c, v)
  BY <1>1, <1>2 DEF Writes
<1>14. out = Out(ch, LogNow(ch), msgs)
  BY DEF Out, LogNow
<1> HIDE DEF msgs, b, out
<1>7. /\ row \in Held /\ row.msgs = msgs
      /\ row.title = w.taken[ch].title /\ row.queue = w.taken[ch].queue
  BY <1>4, <1>5 DEF Held, msgs
<1> HIDE DEF row
<1>8. /\ v \in Writes /\ v.pc = "files" /\ v.next = w.next /\ v.doomed = w.doomed
      /\ v.later = w.later /\ v.upTo = w.upTo
      /\ v.files = w.files \ {ch} /\ v.taken = [w.taken EXCEPT ![ch] = row]
  <2>1. [w.taken EXCEPT ![ch] = row] \in [Chats -> {None} \cup Held]
    BY <1>2, <1>7 DEF Writes
  <2> HIDE DEF w
  <2> QED
    BY <1>2, <2>1 DEF Writes
<1>9. /\ v.taken[ch] = row
      /\ \A x \in Chats : x # ch => v.taken[x] = w.taken[x]
  BY <1>2, <1>3, <1>8 DEF Writes
<1>10. /\ log' \in [Chats -> {None} \cup Logs(1..MaxEdits)]
       /\ gens' \in [Chats -> Nat]
       /\ Is(ch, log)' /\ gens'[ch] # 0
  BY <1>3, <1>5, <1>6, PutKeeps
<1>11. \A x \in Chats : x # ch => log'[x] = log[x] /\ gens'[x] = gens[x]
  BY <1>6 DEF Put, TypeOK
<1> HIDE DEF v
<1>12. /\ write' \in [Copies -> Writes] /\ write'[c] = v
       /\ \A d \in Copies : d # c => write'[d] = write[d]
  BY <1>6, <1>8 DEF TypeOK, Goto
<1>13. row # None
  BY <1>7, StateStoreAssumption
<1> QED
  BY <1>2, <1>3, <1>4, <1>6, <1>7, <1>8, <1>9, <1>10, <1>11, <1>12, <1>13, <1>14
     DEF FileStored, msgs

\* A transcript not listed yet is stored.
LEMMA StoreFileKeeps ==
  ASSUME TypeOK, StoreInv, NEW c \in Copies, StoreFile(c)
  PROVE  TypeOK' /\ StoreInv'
<1>1. PICK ch \in Chats : FileStored(c, ch)
  BY StoreFileIs
<1> DEFINE w == write[c]
           v == write'[c]
<1>2. /\ w \in Writes /\ w.pc = "files" /\ ch \in w.files
      /\ UNCHANGED <<index, stateLock, chatLock, copy, base, edits>>
  BY <1>1 DEF TypeOK, FileStored
<1>3. /\ v.pc = "files" /\ v.next = w.next /\ v.doomed = w.doomed
      /\ v.files = w.files \ {ch}
      /\ \A x \in Chats : x # ch => v.taken[x] = w.taken[x]
      /\ Is(ch, w.taken) /\ w.taken[ch].msgs \in Histories
      /\ Is(ch, v.taken) /\ v.taken[ch].msgs = w.taken[ch].msgs
  BY <1>1 DEF FileStored
<1>4. /\ log' \in [Chats -> {None} \cup Logs(1..MaxEdits)]
      /\ gens' \in [Chats -> Nat]
      /\ Is(ch, log)' /\ \A x \in Chats : Is(x, log) => Is(x, log)'
      /\ \A x \in Chats : gens'[x] = 0 => x # ch /\ gens[x] = 0 /\ ~Is(x, log)'
  BY <1>1 DEF FileStored, StoreInv, Unstored
<1>5. /\ write' \in [Copies -> Writes] /\ write'[c] = v
      /\ \A d \in Copies : d # c => write'[d] = write[d]
  BY <1>1 DEF FileStored
<1>6. \A d \in Copies : write[d].pc \in {"files", "purge"} => d = c
  BY <1>2, OneStores
<1> HIDE DEF v
<1>7. TypeOK'
  BY <1>2, <1>4, <1>5 DEF TypeOK
<1>8. WriterHasLock'
  BY <1>2, <1>3, <1>5 DEF StoreInv, WriterHasLock
<1>9. FilesFirst'
  BY <1>2, <1>3, <1>4, <1>5, <1>6 DEF StoreInv, FilesFirst, ListedIsReadable, At
<1>10. Unstored'
  <2>1. \A x \in Chats : gens'[x] = 0 =>
          /\ ~Is(x, log)'
          /\ \A d \in Copies :
               /\ ~Is(x, base'[d])
               /\ At(d, "opening")' => ~Is(x, write'[d].next)
               /\ write'[d].pc \in {"files", "purge"} /\ Is(x, write'[d].taken)
                    => x \in write'[d].files
    <3>1. ASSUME NEW x \in Chats, gens'[x] = 0
          PROVE  \A d \in Copies \ {c} :
                   /\ ~Is(x, base[d])
                   /\ At(d, "opening") => ~Is(x, write[d].next)
                   /\ write[d].pc \notin {"files", "purge"}
      BY <1>4, <1>6, <3>1 DEF StoreInv, Unstored
    <3>2. ASSUME NEW x \in Chats, gens'[x] = 0
          PROVE  /\ ~Is(x, base[c]) /\ x # ch
                 /\ Is(x, w.taken) => x \in w.files
      BY <1>2, <1>4, <3>2 DEF StoreInv, Unstored
    <3> HIDE DEF w
    <3>3. ASSUME NEW x \in Chats, gens'[x] = 0
          PROVE  Is(x, v.taken) => x \in v.files
      BY <1>3, <3>2, <3>3
    <3>4. v.pc # "opening"
      BY <1>3
    <3> QED
      BY <1>2, <1>4, <1>5, <3>1, <3>2, <3>3, <3>4 DEF At
  <2>2. \A d \in Copies : At(d, "purge")' => write'[d].files = {}
    BY <1>3, <1>5 DEF StoreInv, Unstored, At
  <2>3. \A x \in v.files : x \in Chats /\ x # ch /\ x \in w.files
    BY <1>2, <1>3 DEF Writes
  <2>4. \A x \in v.files : Is(x, v.taken) /\ v.taken[x].msgs \in Histories
    BY <1>2, <1>3, <2>3 DEF StoreInv, Unstored, At
  <2> QED
    BY <1>3, <1>5, <1>6, <2>1, <2>2, <2>4 DEF Unstored, At
<1>11. StoresHistories'
  <2>1. \A d \in Copies, held, x \in Chats : HasHistory(d, x, held)' <=> HasHistory(d, x, held)
    BY <1>2 DEF HasHistory
  <2>2. \A x \in Chats : HasHistory(c, x, v.taken)
    <3>1. \A x \in Chats : HasHistory(c, x, w.taken)
      BY <1>2 DEF StoreInv, StoresHistories
    <3> QED
      BY <1>3, <3>1 DEF HasHistory
  <2>3. \A d \in Copies, x \in Chats : HasHistory(d, x, base[d])'
    BY <1>2 DEF StoreInv, StoresHistories, HasHistory
  <2>4. \A d \in Copies, x \in Chats :
          write'[d].pc \in {"files", "purge"} => HasHistory(d, x, write[d].taken)'
    <3>1. \A d \in Copies : write'[d].pc \in {"files", "purge"} => d = c
      BY <1>5, <1>6
    <3> QED
      BY <1>2, <1>5, <2>2, <3>1 DEF HasHistory
  <2>5. \A d \in Copies : At(d, "store")' => At(d, "store") /\ write'[d] = write[d]
    BY <1>3, <1>5 DEF At
  <2> QED
    BY <1>2, <2>3, <2>4, <2>5 DEF StoreInv, StoresHistories
<1> QED
  BY <1>7, <1>8, <1>9, <1>10, <1>11 DEF StoreInv

\* The index is stored: all it lists has a transcript, and nothing that will
\* be removed is listed.
LEMMA StoreIndexKeeps ==
  ASSUME TypeOK, StoreInv, NEW c \in Copies, StoreIndex(c)
  PROVE  TypeOK' /\ StoreInv'
<1> DEFINE w == write[c]
           v == [w EXCEPT !.pc = "purge", !.next = NoChats]
<1>1. /\ w \in Writes /\ w.pc = "files" /\ w.files = {}
      /\ index' = w.next /\ Goto(c, v)
      /\ UNCHANGED <<log, gens, stateLock, chatLock, copy, base, edits>>
  BY DEF StoreIndex, TypeOK, At, locks
<1>2. /\ v \in Writes /\ v.pc = "purge" /\ v.files = w.files
      /\ v.doomed = w.doomed /\ v.taken = w.taken
  <2>1. NoChats \in [Chats -> {None} \cup Rows]
    BY DEF NoChats
  <2> HIDE DEF w
  <2> QED
    BY <1>1, <2>1 DEF Writes
<1>3. w.next \in [Chats -> {None} \cup Rows]
  BY <1>1 DEF Writes
<1>4. /\ stateLock = c
      /\ \A d \in Copies : write[d].pc \in {"files", "purge"} => d = c
  BY <1>1, OneStores
<1> HIDE DEF v
<1>5. /\ write' \in [Copies -> Writes] /\ write'[c] = v
      /\ \A d \in Copies : d # c => write'[d] = write[d]
  BY <1>1, <1>2 DEF TypeOK, Goto
<1>6. TypeOK'
  BY <1>1, <1>3, <1>5 DEF TypeOK
<1>7. WriterHasLock'
  BY <1>1, <1>4, <1>5 DEF WriterHasLock
<1>8. FilesFirst'
  <2>1. \A ch \in Chats : Is(ch, w.next) => Is(ch, log)
    BY <1>1 DEF StoreInv, FilesFirst, At
  <2>2. \A ch \in w.doomed : ch \in Chats /\ ~Is(ch, w.next)
    BY <1>1 DEF StoreInv, FilesFirst, At, Writes
  <2> QED
    BY <1>1, <1>2, <1>4, <1>5, <2>1, <2>2 DEF FilesFirst, ListedIsReadable, At
<1>9. Unstored'
  BY <1>1, <1>2, <1>4, <1>5 DEF StoreInv, Unstored, At
<1>10. StoresHistories'
  <2>1. \A d \in Copies, held, x \in Chats : HasHistory(d, x, held)' <=> HasHistory(d, x, held)
    BY <1>1 DEF HasHistory
  <2>2. \A x \in Chats : HasHistory(c, x, w.taken)
    BY <1>1 DEF StoreInv, StoresHistories
  <2> QED
    BY <1>1, <1>2, <1>4, <1>5, <2>1, <2>2 DEF StoreInv, StoresHistories, At, HasHistory
<1> QED
  BY <1>6, <1>7, <1>8, <1>9, <1>10 DEF StoreInv

\* A transcript no longer listed is removed.
LEMMA PurgeKeeps ==
  ASSUME TypeOK, StoreInv, NEW c \in Copies, Purge(c)
  PROVE  TypeOK' /\ StoreInv'
<1>1. PICK ch \in write[c].doomed :
        /\ log' = [log EXCEPT ![ch] = None]
        /\ Goto(c, [write[c] EXCEPT !.doomed = @ \ {ch}])
  BY DEF Purge
<1> DEFINE w == write[c]
           v == [w EXCEPT !.doomed = @ \ {ch}]
<1>2. /\ w \in Writes /\ w.pc = "purge"
      /\ UNCHANGED <<index, gens, stateLock, chatLock, copy, base, edits>>
  BY DEF Purge, TypeOK, At, locks
<1>3. ch \in Chats /\ ~Is(ch, index)
  BY <1>2 DEF StoreInv, FilesFirst, At, Writes
<1>4. /\ v \in Writes /\ v.pc = "purge" /\ v.files = w.files
      /\ v.doomed \subseteq w.doomed /\ v.taken = w.taken
  BY <1>2 DEF Writes
<1>5. /\ log' \in [Chats -> {None} \cup Logs(1..MaxEdits)]
      /\ log'[ch] = None /\ \A x \in Chats : x # ch => log'[x] = log[x]
  BY <1>1, <1>3 DEF TypeOK
<1>6. /\ stateLock = c
      /\ \A d \in Copies : write[d].pc \in {"files", "purge"} => d = c
  BY <1>2, OneStores
<1>7. Goto(c, v)
  BY <1>1
<1> HIDE DEF v
<1>8. /\ write' \in [Copies -> Writes] /\ write'[c] = v
      /\ \A d \in Copies : d # c => write'[d] = write[d]
  BY <1>4, <1>7 DEF TypeOK, Goto
<1>9. TypeOK'
  BY <1>2, <1>5, <1>8 DEF TypeOK
<1>10. WriterHasLock'
  BY <1>2, <1>6, <1>8 DEF WriterHasLock
<1>11. FilesFirst'
  BY <1>2, <1>3, <1>4, <1>5, <1>6, <1>8
     DEF StoreInv, FilesFirst, ListedIsReadable, At
<1>12. Unstored'
  BY <1>2, <1>4, <1>5, <1>6, <1>8 DEF StoreInv, Unstored, At
<1>13. StoresHistories'
  <2>1. \A d \in Copies, held, x \in Chats : HasHistory(d, x, held)' <=> HasHistory(d, x, held)
    BY <1>2 DEF HasHistory
  <2>2. \A x \in Chats : HasHistory(c, x, w.taken)
    BY <1>2 DEF StoreInv, StoresHistories
  <2> QED
    BY <1>2, <1>4, <1>6, <1>8, <2>1, <2>2 DEF StoreInv, StoresHistories, At, HasHistory
<1> QED
  BY <1>9, <1>10, <1>11, <1>12, <1>13 DEF StoreInv

\* The base is what was taken.
LEMMA FinishKeeps ==
  ASSUME TypeOK, StoreInv, NEW c \in Copies, Finish(c)
  PROVE  TypeOK' /\ StoreInv'
<1> DEFINE w == write[c]
           v == [NoWrite EXCEPT !.pc = "later", !.later = w.later, !.upTo = w.upTo]
<1>1. /\ w \in Writes /\ w.pc = "purge" /\ Goto(c, v) /\ stateLock' = None
      /\ base' = [base EXCEPT ![c] = w.taken]
      /\ UNCHANGED <<index, log, gens, chatLock, copy, edits>>
  BY DEF Finish, TypeOK, At, disk
<1>2. v \in Writes /\ v.pc = "later"
  <2> HIDE DEF w
  <2> QED
    BY <1>1, NoWriteIs DEF Writes
<1>3. w.taken \in [Chats -> {None} \cup Held]
  BY <1>1 DEF Writes
<1>4. \A d \in Copies : write[d].pc \in {"files", "purge"} => d = c
  BY <1>1, OneStores
<1> HIDE DEF v
<1>5. /\ write' \in [Copies -> Writes] /\ write'[c] = v
      /\ \A d \in Copies : d # c => write'[d] = write[d]
  BY <1>1, <1>2 DEF TypeOK, Goto
<1>6. /\ base' \in [Copies -> [Chats -> {None} \cup Held]]
      /\ base'[c] = w.taken /\ \A d \in Copies : d # c => base'[d] = base[d]
  BY <1>1, <1>3 DEF TypeOK
<1>7. TypeOK'
  BY <1>1, <1>5, <1>6 DEF TypeOK
<1>8. WriterHasLock'
  BY <1>2, <1>4, <1>5 DEF WriterHasLock
<1>9. FilesFirst'
  BY <1>1, <1>2, <1>4, <1>5 DEF StoreInv, FilesFirst, ListedIsReadable, At
<1>10. Unstored'
  <2>1. \A ch \in Chats : gens[ch] = 0 => ~Is(ch, w.taken)
    BY <1>1 DEF StoreInv, Unstored, At
  <2> QED
    BY <1>1, <1>2, <1>4, <1>5, <1>6, <2>1 DEF StoreInv, Unstored, At
<1>11. StoresHistories'
  <2>1. \A d \in Copies, held, x \in Chats : HasHistory(d, x, held)' <=> HasHistory(d, x, held)
    BY <1>1 DEF HasHistory
  <2>2. \A x \in Chats : HasHistory(c, x, w.taken)
    BY <1>1 DEF StoreInv, StoresHistories
  <2> QED
    BY <1>1, <1>2, <1>4, <1>5, <1>6, <2>1, <2>2
       DEF StoreInv, StoresHistories, At, HasHistory
<1> QED
  BY <1>7, <1>8, <1>9, <1>10, <1>11 DEF StoreInv

\* A copy and its base start out alike.
LEMMA ReadLogsKeeps ==
  ASSUME TypeOK, StoreInv, NEW c \in Copies, ReadLogs(c)
  PROVE  TypeOK' /\ StoreInv'
<1> DEFINE next == write[c].next
           was == [ch \in Chats |-> IF Is(ch, next) THEN AsRead(next[ch], log[ch]) ELSE None]
           mine == [ch \in Chats |-> IF Is(ch, was) THEN [was[ch] EXCEPT !.at = Nowhere]
                                                    ELSE None]
<1>1. /\ At(c, "opening") /\ write[c] \in Writes /\ Goto(c, NoWrite)
      /\ base' = [base EXCEPT ![c] = was]
      /\ UNCHANGED <<index, log, gens, stateLock, chatLock, edits>>
  BY DEF ReadLogs, TypeOK, disk, locks
<1>2. next \in [Chats -> {None} \cup Rows]
  BY <1>1 DEF Writes
<1>3. was \in [Chats -> {None} \cup Held]
  <2> SUFFICES ASSUME NEW ch \in Chats, Is(ch, next)
               PROVE  AsRead(next[ch], log[ch]) \in Held
    OBVIOUS
  <2>1. next[ch] \in Rows
    BY <1>2
  <2>2. CASE log[ch] = None
    BY <2>1, <2>2 DEF AsRead, Held, Rows, Nowhere, Spots
  <2>3. CASE log[ch] # None
    <3>1. log[ch] \in Logs(1..MaxEdits)
      BY <2>3 DEF TypeOK
    <3>2. log[ch].msgs \in Histories /\ log[ch].gen \in Nat /\ Len(log[ch].msgs) \in Nat
      BY <3>1 DEF Logs, Histories
    <3> QED
      BY <2>1, <2>3, <3>2 DEF AsRead, Held, Rows, Spots
  <2> QED
    BY <2>2, <2>3
<1>4. /\ base' \in [Copies -> [Chats -> {None} \cup Held]]
      /\ base'[c] = was /\ \A d \in Copies : d # c => base'[d] = base[d]
  BY <1>1, <1>3 DEF TypeOK
<1>5. copy' = [copy EXCEPT ![c] = mine]
  <2> HIDE DEF was
  <2> QED
    BY <1>4 DEF ReadLogs
<1>6. /\ mine \in [Chats -> {None} \cup Held]
      /\ \A ch \in Chats : Is(ch, mine) => Is(ch, was) /\ mine[ch].msgs = was[ch].msgs
  <2> HIDE DEF was
  <2> SUFFICES ASSUME NEW ch \in Chats, Is(ch, was)
               PROVE  LET row == [was[ch] EXCEPT !.at = Nowhere]
                      IN  row \in Held /\ row.msgs = was[ch].msgs
    OBVIOUS
  <2>1. was[ch] \in Held /\ Nowhere \in Spots
    BY <1>3 DEF Nowhere, Spots
  <2> QED
    BY <2>1 DEF Held
<1>7. \A ch \in Chats : gens[ch] = 0 => ~Is(ch, was)
  BY <1>1 DEF StoreInv, Unstored
<1> HIDE DEF was, mine
<1>8. /\ copy' \in [Copies -> [Chats -> {None} \cup Held]]
      /\ copy'[c] = mine /\ \A d \in Copies : d # c => copy'[d] = copy[d]
  BY <1>5, <1>6 DEF TypeOK
<1>9. /\ write' \in [Copies -> Writes] /\ write'[c] = NoWrite
      /\ \A d \in Copies : d # c => write'[d] = write[d]
  BY <1>1, NoWriteIs DEF TypeOK, Goto
<1>10. TypeOK'
  BY <1>1, <1>4, <1>8, <1>9 DEF TypeOK
<1>11. WriterHasLock'
  BY <1>1, <1>9, NoWriteIs DEF StoreInv, WriterHasLock
<1>12. FilesFirst'
  BY <1>1, <1>9, NoWriteIs DEF StoreInv, FilesFirst, ListedIsReadable, At
<1>13. Unstored'
  BY <1>1, <1>4, <1>7, <1>9, NoWriteIs DEF StoreInv, Unstored, At
<1>14. StoresHistories'
  <2>1. \A ch \in Chats : HasHistory(c, ch, base[c])'
    BY <1>4, <1>6, <1>8 DEF HasHistory
  <2>2. \A d \in Copies \ {c} : write'[d] = write[d] /\ base'[d] = base[d] /\ copy'[d] = copy[d]
    BY <1>4, <1>8, <1>9
  <2>3. \A d \in Copies \ {c}, ch \in Chats :
          /\ HasHistory(d, ch, base[d])'
          /\ write'[d].pc \in {"files", "purge"} => HasHistory(d, ch, write[d].taken)'
    BY <2>2 DEF StoreInv, StoresHistories, HasHistory
  <2> QED
    BY <1>9, <2>1, <2>2, <2>3, NoWriteIs DEF StoreInv, StoresHistories, At
<1> QED
  BY <1>10, <1>11, <1>12, <1>13, <1>14 DEF StoreInv

\* A crash leaves every log as it was, but for a torn record.
LEMMA TornIs ==
  ASSUME TypeOK, StoreInv, NEW c \in Copies, Crash(c)
  PROVE  /\ log' \in [Chats -> {None} \cup Logs(1..MaxEdits)]
         /\ \A ch \in Chats : Is(ch, log)' <=> Is(ch, log)
         /\ \A ch \in Chats : Is(ch, log) => log'[ch].msgs = log[ch].msgs
<1>1. CASE log' = log
  BY <1>1 DEF TypeOK
<1>2. CASE log' # log
  <2> DEFINE w == write[c]
             ch == w.chat
             out == Out(ch, base[c][ch], w.now)
             tail == Rest(out.log.msgs, Len(log[ch].msgs))
             row == [log[ch] EXCEPT !.tail = tail]
  <2>1. /\ At(c, "store") /\ Is(ch, log)
        /\ log' = [log EXCEPT ![ch].tail = tail]
    BY <1>2 DEF Crash
  <2>2. /\ ch \in Chats /\ w.now \in Histories
        /\ base[c][ch].msgs \in Histories /\ base[c][ch] \in Held
    BY <2>1 DEF TypeOK, StoreInv, StoresHistories, Writes
  <2>3. out.log \in Logs(1..MaxEdits)
    <3>1. base[c][ch].at \in Spots
      BY <2>2 DEF Held
    <3> HIDE DEF w, ch
    <3> QED
      BY <2>2, <3>1, OutIsLog
  <2>4. log[ch] \in Logs(1..MaxEdits)
    BY <2>1, <2>2 DEF TypeOK
  <2>5. tail \in Seq(1..MaxEdits)
    <3>1. out.log.msgs \in Seq(1..MaxEdits) /\ log[ch].msgs \in Seq(1..MaxEdits)
      BY <2>3, <2>4 DEF Logs
    <3>2. Len(log[ch].msgs) \in Nat
      BY <3>1
    <3> HIDE DEF out, ch
    <3> QED
      BY <3>1, <3>2, RestIs
  <2> HIDE DEF tail
  <2>6. row \in Logs(1..MaxEdits) /\ row # None
    BY <2>4, <2>5, StateStoreAssumption DEF Logs
  <2>7. log' = [log EXCEPT ![ch] = row]
    BY <2>1, <2>2 DEF TypeOK
  <2> HIDE DEF row, ch
  <2> QED
    BY <2>1, <2>2, <2>6, <2>7 DEF TypeOK
<1> QED
  BY <1>1, <1>2

\* A process dies: its copy and its locks go, and a log may be left with a
\* torn record.
LEMMA CrashKeeps ==
  ASSUME TypeOK, StoreInv, NEW c \in Copies, Crash(c)
  PROVE  TypeOK' /\ StoreInv'
<1>1. /\ UNCHANGED <<index, gens, edits>>
      /\ copy' = [copy EXCEPT ![c] = NoChats]
      /\ base' = [base EXCEPT ![c] = NoChats]
      /\ Goto(c, Closed) /\ LetGo(c)
  BY DEF Crash
<1>2. NoChats \in [Chats -> {None} \cup Held] /\ \A ch \in Chats : ~Is(ch, NoChats)
  BY DEF NoChats
<1>3. /\ copy' \in [Copies -> [Chats -> {None} \cup Held]]
      /\ base' \in [Copies -> [Chats -> {None} \cup Held]]
      /\ copy'[c] = NoChats /\ base'[c] = NoChats
      /\ \A d \in Copies : d # c => copy'[d] = copy[d] /\ base'[d] = base[d]
  BY <1>1, <1>2 DEF TypeOK
<1>4. /\ write' \in [Copies -> Writes] /\ write'[c] = Closed
      /\ \A d \in Copies : d # c => write'[d] = write[d]
  BY <1>1, NoWriteIs DEF TypeOK, Goto
<1>5. /\ stateLock' \in {None} \cup Copies
      /\ chatLock' \in [Chats -> {None} \cup Copies]
      /\ \A d \in Copies \ {c} : stateLock = d => stateLock' = d
  BY <1>1 DEF LetGo, TypeOK
<1>6. /\ log' \in [Chats -> {None} \cup Logs(1..MaxEdits)]
      /\ \A ch \in Chats : Is(ch, log)' <=> Is(ch, log)
  BY TornIs
<1>7. TypeOK'
  BY <1>1, <1>3, <1>4, <1>5, <1>6 DEF TypeOK
<1>8. WriterHasLock'
  BY <1>4, <1>5, NoWriteIs DEF StoreInv, WriterHasLock
<1>9. FilesFirst'
  BY <1>1, <1>4, <1>6, NoWriteIs DEF StoreInv, FilesFirst, ListedIsReadable, At
<1>10. Unstored'
  BY <1>1, <1>2, <1>3, <1>4, <1>6, NoWriteIs DEF StoreInv, Unstored, At
<1>11. StoresHistories'
  BY <1>2, <1>3, <1>4, NoWriteIs DEF StoreInv, StoresHistories, HasHistory, At
<1> QED
  BY <1>7, <1>8, <1>9, <1>10, <1>11 DEF StoreInv

-----------------------------------------------------------------------------
(* The theorems.                                                            *)

\* The inductive invariant: files, copies and writes have their types, one
\* write at a time stores the index, a chat is listed after its transcript is
\* stored and before it is removed, and a history is stored only by a copy
\* that has it.
THEOREM StoreInvariant == Spec => [](TypeOK /\ StoreInv)
<1>1. TypeOK /\ StoreInv /\ [Next]_vars => (TypeOK /\ StoreInv)'
  <2> SUFFICES ASSUME TypeOK, StoreInv, [Next]_vars PROVE (TypeOK /\ StoreInv)'
    OBVIOUS
  <2>1. CASE UNCHANGED vars
    <3>1. UNCHANGED <<index, log, gens, stateLock, chatLock, copy, base, write, edits>>
      BY <2>1 DEF vars, disk, locks
    <3>2. TypeOK'
      BY <3>1 DEF TypeOK
    <3>3. WriterHasLock' /\ FilesFirst' /\ Unstored' /\ StoresHistories'
      BY <3>1 DEF StoreInv, WriterHasLock, FilesFirst, ListedIsReadable, Unstored,
                  StoresHistories, HasHistory, At
    <3> QED
      BY <3>2, <3>3 DEF StoreInv
  <2>2. CASE Next
    <3>1. PICK c \in Copies :
            \/ ReadIndex(c) \/ ReadLogs(c) \/ Editing(c)
            \/ Begin(c) \/ Writing(c) \/ \E ch \in Chats : Checkpoint(c, ch)
            \/ Fail(c) \/ Crash(c)
      BY <2>2 DEF Next
    <3>2. CASE ReadIndex(c)
      BY <3>2, ReadIndexKeeps
    <3>3. CASE ReadLogs(c)
      BY <3>3, ReadLogsKeeps
    <3>4. CASE Editing(c)
      BY <3>4, EditingKeeps
    <3>5. CASE Begin(c)
      BY <3>5, BeginKeeps
    <3>6. CASE \E ch \in Chats : Checkpoint(c, ch)
      BY <3>6, CheckpointKeeps
    <3>7. CASE Fail(c)
      BY <3>7, FailKeeps
    <3>8. CASE Crash(c)
      BY <3>8, CrashKeeps
    <3>9. CASE Writing(c)
      <4>1. CASE OwnNext(c)
        BY <4>1, OwnNextKeeps
      <4>2. CASE StoreOwn(c)
        BY <4>2, StoreOwnKeeps
      <4>3. CASE TakeState(c)
        BY <4>3, TakeStateKeeps
      <4>4. CASE StoreFile(c)
        BY <4>4, StoreFileKeeps
      <4>5. CASE StoreIndex(c)
        BY <4>5, StoreIndexKeeps
      <4>6. CASE Purge(c)
        BY <4>6, PurgeKeeps
      <4>7. CASE Finish(c)
        BY <4>7, FinishKeeps
      <4>8. CASE Later(c)
        BY <4>8, LaterKeeps
      <4>9. CASE End(c)
        BY <4>9, EndKeeps
      <4> QED
        BY <3>9, <4>1, <4>2, <4>3, <4>4, <4>5, <4>6, <4>7, <4>8, <4>9 DEF Writing
    <3> QED
      BY <3>1, <3>2, <3>3, <3>4, <3>5, <3>6, <3>7, <3>8, <3>9
  <2> QED
    BY <2>1, <2>2
<1> QED
  BY StartsWell, <1>1, PTL DEF Spec

\* The files, the copies and their writes have their types: in particular the
\* index carries no messages, and no copy writes what is not a history.
THEOREM StoreTypes == Spec => []TypeOK
<1> QED
  BY StoreInvariant, PTL

\* A chat the index lists has its transcript on disk, whenever a reader or a
\* crash looks (write.ts: "a session must never be listed before it is
\* readable"), however many processes edit, write, fail and die.
THEOREM ListedChatsAreReadable == Spec => []ListedIsReadable
<1>1. TypeOK /\ StoreInv => ListedIsReadable
  BY DEF StoreInv, FilesFirst
<1> QED
  BY <1>1, StoreInvariant, PTL

-----------------------------------------------------------------------------
(* The inductive invariant behind OrphanIsOwed.                              *)

\* A closed copy has nothing, and what a write took is let go with it.
LetGoOf ==
  \A c \in Copies, ch \in Chats :
    /\ write[c].pc \in {"closed", "opening"} => ~Is(ch, copy[c]) /\ ~Is(ch, base[c])
    /\ write[c].pc \notin {"files", "purge"} => ~Is(ch, write[c].taken)

\* A chat that is in a copy and in none of its baselines was made there and is
\* in no other; once it has a file, a write is listing it, or one failed to.
MadeByOne ==
  \A c \in Copies, ch \in Chats :
    /\ Is(ch, copy[c]) /\ ~Is(ch, base[c])
         => gens[ch] = 0 \/ ch \in littered \/ Is(ch, write[c].taken)
    /\ gens[ch] = 0 =>
         /\ Is(ch, write[c].taken) => Is(ch, copy[c]) \/ ch \in deleted
         /\ \A d \in Copies \ {c} :
              Is(ch, copy[c]) => ~Is(ch, copy[d]) /\ ~Is(ch, write[d].taken)

\* What a write takes off the list it knows of, until it has removed the
\* transcript, and after that the others who stored it again do.
Removing ==
  \A c \in Copies, ch \in Chats :
    /\ At(c, "files") => /\ Is(ch, base[c]) /\ (~Is(ch, write[c].next) \/ ~Is(ch, write[c].taken))
                              => ch \in write[c].doomed
                         /\ Is(ch, index) /\ ~Is(ch, write[c].next) => Is(ch, base[c])
    /\ write[c].pc \in {"files", "purge"} /\ Is(ch, base[c]) /\ ~Is(ch, write[c].taken)
         => ~Is(ch, copy[c])
    /\ At(c, "purge") /\ Is(ch, base[c]) /\ ~Is(ch, write[c].taken)
         /\ ch \notin write[c].doomed /\ Is(ch, log) /\ ch \notin littered
         => \E d \in Copies \ {c} : Knows(d, ch)

OwedInv == LetGoOf /\ MadeByOne /\ Removing /\ OrphanIsOwed

LEMMA StartsOwed == Init => OwedInv
<1> SUFFICES ASSUME Init PROVE OwedInv
  OBVIOUS
<1>1. \A ch \in Chats : NoChats[ch] = None
  BY DEF NoChats
<1>2. \A c \in Copies : write[c] = Closed /\ copy[c] = NoChats /\ base[c] = NoChats
  BY DEF Init
<1>3. Closed.pc = "closed" /\ Closed.taken = NoChats
  BY DEF Closed, NoWrite
<1>4. \A ch \in Chats : ch \notin Listed => ~Is(ch, log)
  BY DEF Init
<1>5. \A ch \in Chats : ch \in Listed => Is(ch, index)
  <2>1. ASSUME NEW ch \in Listed PROVE [title |-> 0, queue |-> {}] # None
    BY StateStoreAssumption DEF Rows
  <2> QED
    BY <2>1, StateStoreAssumption DEF Init
<1> QED
  BY <1>1, <1>2, <1>3, <1>4, <1>5
     DEF OwedInv, LetGoOf, MadeByOne, Removing, OrphanIsOwed, At

-----------------------------------------------------------------------------
(* Who knows of a transcript goes on knowing of it.                          *)

StillKnown ==
  \A d \in Copies, x \in Chats :
    Knows(d, x) /\ Is(x, log)' /\ x \notin littered' => Knows(d, x)'

\* A transcript that has a file is in no copy's edits alone.
LEMMA Learned ==
  ASSUME StoreInv, OwedInv, NEW c \in Copies, NEW ch \in Chats,
         Is(ch, log), ch \notin littered, Is(ch, copy[c])
  PROVE  Is(ch, base[c]) \/ Is(ch, write[c].taken)
BY DEF StoreInv, Unstored, OwedInv, MadeByOne

\* An edit changes one chat of one copy: one that is there, or one nobody has.
LEMMA EditOwes ==
  ASSUME TypeOK, StoreInv, OwedInv, NEW c \in Copies, NEW ch \in Chats,
         NEW row \in {None} \cup Held, Edit(c, ch, row), Open(c),
         deleted \subseteq deleted', row = None => ch \in deleted',
         \/ Is(ch, copy[c])
         \/ gens[ch] = 0 /\ ch \notin deleted /\ \A d \in Copies : ~Is(ch, copy[d])
  PROVE  OwedInv'
<1>1. /\ UNCHANGED <<index, log, gens, stateLock, chatLock, base, write, littered>>
      /\ copy' = [copy EXCEPT ![c][ch] = row]
  BY DEF Edit, disk, locks
<1>2. /\ copy'[c][ch] = row
      /\ \A d \in Copies, x \in Chats : d # c \/ x # ch => copy'[d][x] = copy[d][x]
  BY <1>1 DEF TypeOK
<1>3. StillKnown
  BY <1>1, <1>2, Learned DEF StillKnown, Knows
<1>4. LetGoOf'
  BY <1>1, <1>2 DEF OwedInv, LetGoOf, Open
<1>5. gens[ch] = 0 => \A d \in Copies : ~Is(ch, base[d])
  BY DEF StoreInv, Unstored
<1>6. MadeByOne'
  BY <1>1, <1>2, <1>5 DEF OwedInv, MadeByOne
<1>7. Removing'
  BY <1>1, <1>2, <1>3, <1>5 DEF OwedInv, Removing, StillKnown, At
<1>8. OrphanIsOwed'
  BY <1>1, <1>3 DEF OwedInv, OrphanIsOwed, StillKnown
<1> QED
  BY <1>4, <1>6, <1>7, <1>8 DEF OwedInv

LEMMA EditingOwes ==
  ASSUME TypeOK, StoreInv, OwedInv, NEW c \in Copies, Editing(c)
  PROVE  OwedInv'
<1>1. PICK ch \in Chats, row \in {None} \cup Held : EditedTo(c, ch, row)
  BY EditingIs
<1> QED
  BY <1>1, EditOwes DEF EditedTo

-----------------------------------------------------------------------------
(* Steps of a write.                                                         *)

\* A step that only moves a write on, outside of where the index is stored,
\* leaves what everyone knows; a write that is given up is littered.
LEMMA GotoOwes ==
  ASSUME TypeOK, StoreInv, OwedInv, NEW c \in Copies, NEW w \in Writes, Goto(c, w),
         UNCHANGED <<disk, copy, base, deleted>>,
         littered \subseteq littered',
         \A ch \in Chats : Is(ch, write[c].taken) => ch \in littered',
         w.pc \notin {"files", "purge"}, \A ch \in Chats : ~Is(ch, w.taken),
         w.pc \in {"closed", "opening"} => write[c].pc \in {"closed", "opening"}
  PROVE  OwedInv'
<1>1. UNCHANGED <<index, log, gens, copy, base>>
  BY DEF disk
<1>2. write'[c] = w /\ \A d \in Copies : d # c => write'[d] = write[d]
  BY DEF TypeOK, Goto
<1>3. StillKnown
  BY <1>1, <1>2 DEF StillKnown, Knows
<1>4. LetGoOf'
  BY <1>1, <1>2 DEF OwedInv, LetGoOf
<1>5. MadeByOne'
  <2>1. ASSUME NEW d \in Copies, NEW ch \in Chats, Is(ch, copy[d]), ~Is(ch, base[d])
        PROVE  gens[ch] = 0 \/ ch \in littered' \/ Is(ch, write'[d].taken)
    BY <1>2, <2>1 DEF OwedInv, MadeByOne
  <2> QED
    BY <1>1, <1>2, <2>1 DEF OwedInv, MadeByOne
<1>6. Removing'
  BY <1>1, <1>2, <1>3 DEF OwedInv, Removing, StillKnown, At
<1>7. OrphanIsOwed'
  BY <1>1, <1>3 DEF OwedInv, OrphanIsOwed, StillKnown
<1> QED
  BY <1>4, <1>5, <1>6, <1>7 DEF OwedInv

LEMMA NoWriteTook == \A ch \in Chats : ~Is(ch, NoWrite.taken) /\ ~Is(ch, Closed.taken)
BY DEF NoWrite, Closed, NoChats

\* The same, for a step within a write or between two.
LEMMA GoesOnOwes ==
  ASSUME TypeOK, StoreInv, OwedInv, NEW c \in Copies, NEW w \in Writes, Goto(c, w),
         UNCHANGED <<disk, copy, base, deleted, littered>>,
         write[c].pc \notin {"files", "purge"}, w.pc \notin {"files", "purge"},
         w.taken = write[c].taken \/ w.taken = NoChats,
         w.pc \in {"closed", "opening"} => write[c].pc \in {"closed", "opening"}
  PROVE  OwedInv'
<1>1. \A ch \in Chats : ~Is(ch, write[c].taken) /\ ~Is(ch, w.taken)
  BY DEF OwedInv, LetGoOf, NoChats
<1> QED
  BY <1>1, GotoOwes

LEMMA ReadIndexOwes ==
  ASSUME TypeOK, StoreInv, OwedInv, NEW c \in Copies, ReadIndex(c)
  PROVE  OwedInv'
<1> DEFINE w == [NoWrite EXCEPT !.pc = "opening", !.next = index]
<1>1. w \in Writes /\ w.pc = "opening" /\ w.taken = NoChats
  <2>1. NoWrite.taken = NoChats
    BY DEF NoWrite
  <2> QED
    BY <2>1, NoWriteIs DEF TypeOK, Writes
<1>2. Goto(c, w) /\ write[c].pc = "closed"
      /\ UNCHANGED <<disk, copy, base, deleted, littered>>
  BY DEF ReadIndex, At, history
<1> HIDE DEF w
<1> QED
  BY <1>1, <1>2, GoesOnOwes

LEMMA TakeChatOwes ==
  ASSUME TypeOK, StoreInv, OwedInv, NEW c \in Copies, NEW ch \in Chats, NEW w \in Writes,
         NEW back \in {"idle", "own", "later"}, Changed(c, ch),
         TakeChat(c, ch, w, back), w.taken = write[c].taken,
         write[c].pc \in {"idle", "own", "later"}
  PROVE  OwedInv'
<1> DEFINE v == [w EXCEPT !.pc = "store", !.chat = ch, !.now = copy[c][ch].msgs,
                          !.back = back]
<1>1. copy[c][ch].msgs \in Histories
  BY ChangedHasBoth
<1>2. v \in Writes /\ v.pc = "store" /\ v.taken = write[c].taken
  BY <1>1 DEF Writes
<1>3. Goto(c, v) /\ UNCHANGED <<disk, copy, base, deleted, littered>>
  BY DEF TakeChat, history
<1> HIDE DEF v
<1> QED
  BY <1>2, <1>3, GoesOnOwes

LEMMA CheckpointOwes ==
  ASSUME TypeOK, StoreInv, OwedInv, NEW c \in Copies, NEW ch \in Chats, Checkpoint(c, ch)
  PROVE  OwedInv'
<1>1. /\ write[c] \in Writes /\ write[c].pc = "idle" /\ Changed(c, ch)
      /\ TakeChat(c, ch, write[c], "idle")
  BY DEF TypeOK, Checkpoint, At
<1> QED
  BY <1>1, TakeChatOwes

LEMMA BeginOwes ==
  ASSUME TypeOK, StoreInv, OwedInv, NEW c \in Copies, Begin(c)
  PROVE  OwedInv'
<1> DEFINE w == [NoWrite EXCEPT !.pc = "own",
                   !.todo = {ch \in Chats : Known(c, ch) /\ Loaded(c, ch)}]
<1>1. w \in Writes /\ w.pc = "own" /\ w.taken = NoChats
  <2>1. NoWrite.taken = NoChats
    BY DEF NoWrite
  <2> QED
    BY <2>1, NoWriteIs DEF Writes
<1>2. Goto(c, w) /\ write[c].pc = "idle"
      /\ UNCHANGED <<disk, copy, base, deleted, littered>>
  BY DEF Begin, At, history
<1> HIDE DEF w
<1> QED
  BY <1>1, <1>2, GoesOnOwes

LEMMA OwnNextOwes ==
  ASSUME TypeOK, StoreInv, OwedInv, NEW c \in Copies, OwnNext(c)
  PROVE  OwedInv'
<1>1. PICK ch \in write[c].todo :
        LET w == [write[c] EXCEPT !.todo = @ \ {ch}]
        IN  IF Changed(c, ch) /\ Is(ch, index)
            THEN TakeChat(c, ch, w, "own")
            ELSE /\ Goto(c, IF Known(c, ch) /\ ~Changed(c, ch)
                              THEN [w EXCEPT !.own = @ \cup {ch}] ELSE w)
                 /\ UNCHANGED <<disk, locks, copy, base, edits, bounds, history>>
  BY DEF OwnNext
<1> DEFINE w == [write[c] EXCEPT !.todo = @ \ {ch}]
           v == IF Known(c, ch) /\ ~Changed(c, ch)
                  THEN [w EXCEPT !.own = @ \cup {ch}] ELSE w
<1>2. write[c] \in Writes /\ write[c].pc = "own"
  BY DEF TypeOK, OwnNext, At
<1>3. ch \in Chats
  BY <1>2 DEF Writes
<1>4. w \in Writes /\ w.pc = "own" /\ w.taken = write[c].taken
  BY <1>2 DEF Writes
<1>5. v \in Writes /\ v.pc = "own" /\ v.taken = write[c].taken
  <2> HIDE DEF w
  <2> QED
    BY <1>3, <1>4 DEF Writes
<1>6. CASE Changed(c, ch) /\ Is(ch, index)
  <2>1. TakeChat(c, ch, w, "own")
    BY <1>1, <1>6
  <2> HIDE DEF w
  <2> QED
    BY <1>2, <1>3, <1>4, <1>6, <2>1, TakeChatOwes
<1>7. CASE ~(Changed(c, ch) /\ Is(ch, index))
  <2>1. Goto(c, v) /\ UNCHANGED <<disk, copy, base, deleted, littered>>
    BY <1>1, <1>7 DEF history
  <2> HIDE DEF v
  <2> QED
    BY <1>2, <1>5, <2>1, GoesOnOwes
<1> QED
  BY <1>6, <1>7

LEMMA EndOwes ==
  ASSUME TypeOK, StoreInv, OwedInv, NEW c \in Copies, End(c)
  PROVE  OwedInv'
<1>1. Goto(c, NoWrite) /\ write[c].pc = "later"
      /\ UNCHANGED <<disk, copy, base, deleted, littered>>
  BY DEF End, At, history
<1>2. NoWrite.taken = NoChats
  BY DEF NoWrite
<1> QED
  BY <1>1, <1>2, NoWriteIs, GoesOnOwes

\* What a failed write had taken is littered.
LEMMA FailOwes ==
  ASSUME TypeOK, StoreInv, OwedInv, NEW c \in Copies, Fail(c)
  PROVE  OwedInv'
<1>1. /\ Goto(c, NoWrite) /\ UNCHANGED <<disk, copy, base, deleted>>
      /\ littered' = littered \cup {ch \in Chats : Is(ch, write[c].taken)}
  BY DEF Fail
<1> QED
  BY <1>1, NoWriteIs, NoWriteTook, GotoOwes

\* The base of a chat that was stored is a chat still.
LEMMA MovedIs ==
  ASSUME base \in [Copies -> [Chats -> {None} \cup Held]],
         NEW c \in Copies, NEW ch \in Chats, base[c][ch] # None,
         NEW msgs \in Histories, NEW at \in Spots, Moved(c, ch, msgs, at)
  PROVE  /\ base'[c][ch] \in Held
         /\ base'[c][ch].title = base[c][ch].title
         /\ base'[c][ch].queue = base[c][ch].queue /\ base'[c][ch].msgs = msgs
         /\ \A d \in Copies, x \in Chats : d # c \/ x # ch => base'[d][x] = base[d][x]
<1> DEFINE row == [base[c][ch] EXCEPT !.msgs = msgs, !.at = at]
<1>1. base[c][ch] \in Held
  OBVIOUS
<1>2. /\ row \in Held /\ row.msgs = msgs
      /\ row.title = base[c][ch].title /\ row.queue = base[c][ch].queue
  BY <1>1 DEF Held
<1>3. base' = [base EXCEPT ![c][ch] = row]
  BY DEF Moved
<1> HIDE DEF row
<1> QED
  BY <1>2, <1>3

\* Who stores a transcript of a chat it has a base of goes on knowing of it.
LEMMA StoredOwes ==
  ASSUME TypeOK, StoreInv, OwedInv, TypeOK', NEW c \in Copies, NEW ch \in Chats,
         NEW out, NEW msgs \in Histories, NEW at \in Spots,
         NEW w \in Writes, w.pc \in {"idle", "own", "later"},
         write[c].pc \in {"store", "later"}, w.taken = write[c].taken,
         Is(ch, base[c]), Put(ch, out), Moved(c, ch, msgs, at),
         Goto(c, w), UNCHANGED <<index, copy, deleted, littered>>
  PROVE  OwedInv'
<1>1. write'[c] = w /\ \A d \in Copies : d # c => write'[d] = write[d]
  BY DEF TypeOK, Goto
<1>2. \A d \in Copies, x \in Chats : Is(x, base[d])' <=> Is(x, base[d])
  <2>1. base \in [Copies -> [Chats -> {None} \cup Held]]
    BY DEF TypeOK
  <2>2. /\ base'[c][ch] \in Held
        /\ \A d \in Copies, x \in Chats : d # c \/ x # ch => base'[d][x] = base[d][x]
    BY <2>1, MovedIs
  <2> QED
    BY <2>2, StateStoreAssumption
<1>3. gens[ch] # 0
  BY DEF StoreInv, Unstored
<1>4. \A x \in Chats : x # ch => log'[x] = log[x] /\ gens'[x] = gens[x]
  BY DEF Put, TypeOK
<1>5. gens'[ch] # 0
  <2>1. gens'[ch] = IF gens[ch] < out.log.gen THEN out.log.gen ELSE gens[ch]
    BY DEF Put, TypeOK
  <2>2. gens'[ch] \in Nat /\ gens[ch] \in Nat
    BY DEF TypeOK
  <2>3. CASE gens[ch] < out.log.gen
    <3>1. log'[ch] = out.log /\ log'[ch] \in {None} \cup Logs(1..MaxEdits)
      BY DEF Put, TypeOK
    <3> QED
      BY <1>3, <2>1, <2>2, <2>3
  <2> QED
    BY <1>3, <2>1, <2>3
<1>6. \A x \in Chats : gens'[x] = 0 <=> gens[x] = 0
  BY <1>3, <1>4, <1>5
<1>7. StillKnown
  BY <1>1, <1>2 DEF StillKnown, Knows
<1>8. Knows(c, ch)'
  BY <1>2 DEF Knows
<1>9. LetGoOf'
  BY <1>1, <1>2 DEF OwedInv, LetGoOf
<1>10. MadeByOne'
  BY <1>1, <1>2, <1>6 DEF OwedInv, MadeByOne
<1>11. Removing'
  BY <1>1, <1>2, <1>4, <1>7, <1>8 DEF OwedInv, Removing, StillKnown, At
<1>12. OrphanIsOwed'
  BY <1>4, <1>7, <1>8 DEF OwedInv, OrphanIsOwed, StillKnown
<1> QED
  BY <1>9, <1>10, <1>11, <1>12 DEF OwedInv

LEMMA StoreOwnOwes ==
  ASSUME TypeOK, StoreInv, OwedInv, TypeOK', NEW c \in Copies, StoreOwn(c)
  PROVE  OwedInv'
<1> DEFINE w == write[c]
           ch == w.chat
           v == [w EXCEPT !.pc = w.back, !.chat = None, !.now = <<>>, !.back = "idle",
                          !.own = IF w.back = "own" THEN @ \cup {w.chat} ELSE @]
           out == Out(ch, base[c][ch], w.now)
<1>1. /\ w.pc = "store" /\ w \in Writes /\ ch \in Chats /\ Is(ch, base[c])
  BY DEF StoreOwn, At, TypeOK, StoreInv, StoresHistories
<1>2. v \in Writes /\ v.pc \in {"idle", "own", "later"} /\ v.taken = w.taken
  <2>1. w.own \cup {ch} \in SUBSET Chats /\ <<>> \in Histories
    BY <1>1 DEF Writes, Histories
  <2> HIDE DEF w
  <2>2. ch = w.chat
    OBVIOUS
  <2> HIDE DEF ch
  <2> QED
    BY <1>1, <2>1, <2>2 DEF Writes
<1>3. /\ Put(ch, out) /\ Moved(c, ch, w.now, out.at)
      /\ Goto(c, v) /\ UNCHANGED <<index, copy, deleted, littered>>
  BY DEF StoreOwn
<1>4. w.now \in Histories /\ out.at \in Spots
  <2>1. base[c][ch] \in Held /\ base[c][ch].msgs \in Histories /\ w.now \in Histories
    BY <1>1 DEF TypeOK, Writes, StoreInv, StoresHistories, At
  <2>2. base[c][ch].at \in Spots
    BY <2>1 DEF Held
  <2> HIDE DEF w, ch
  <2> QED
    BY <1>1, <2>1, <2>2, OutIsLog
<1> HIDE DEF ch, v, out
<1> QED
  BY <1>1, <1>2, <1>3, <1>4, StoredOwes

LEMMA LaterOwes ==
  ASSUME TypeOK, StoreInv, OwedInv, TypeOK', NEW c \in Copies, Later(c)
  PROVE  OwedInv'
<1>1. PICK ch \in write[c].later :
        LET w == [write[c] EXCEPT !.later = @ \ {ch}]
            out == Out(ch, base[c][ch], copy[c][ch].msgs)
        IN  \/ /\ ~Changed(c, ch)
               /\ Goto(c, w)
               /\ UNCHANGED <<disk, locks, copy, base, edits, bounds, history>>
            \/ /\ Changed(c, ch) /\ Is(ch, index)
               /\ TakeChat(c, ch, w, "later")
            \/ /\ Changed(c, ch) /\ ~Is(ch, index)
               /\ stateLock = None /\ chatLock[ch] = None
               /\ Put(ch, out) /\ Moved(c, ch, copy[c][ch].msgs, out.at)
               /\ Goto(c, w)
               /\ UNCHANGED <<index, locks, copy, edits, bounds, made, dropped,
                              deleted, littered>>
               /\ Recorded
  BY DEF Later
<1> DEFINE w == [write[c] EXCEPT !.later = @ \ {ch}]
           out == Out(ch, base[c][ch], copy[c][ch].msgs)
<1>2. write[c] \in Writes /\ write[c].pc = "later"
  BY DEF TypeOK, Later, At
<1>3. ch \in Chats /\ w \in Writes /\ w.pc = "later" /\ w.taken = write[c].taken
  BY <1>2 DEF Writes
<1>4. CASE Goto(c, w) /\ UNCHANGED <<disk, copy, base, deleted, littered>>
  BY <1>2, <1>3, <1>4, GoesOnOwes
<1>5. CASE Changed(c, ch) /\ TakeChat(c, ch, w, "later")
  BY <1>2, <1>3, <1>5, TakeChatOwes
<1>6. CASE /\ Changed(c, ch)
           /\ Put(ch, out) /\ Moved(c, ch, copy[c][ch].msgs, out.at)
           /\ Goto(c, w) /\ UNCHANGED <<index, copy, deleted, littered>>
  <2>1. Is(ch, base[c]) /\ base[c][ch].msgs \in Histories /\ copy[c][ch].msgs \in Histories
    BY <1>3, <1>6, ChangedHasBoth
  <2>2. base[c][ch].at \in Spots
    BY <1>3, <2>1 DEF TypeOK, Held
  <2>3. out.at \in Spots
    BY <1>3, <2>1, <2>2, OutIsLog
  <2> HIDE DEF w, out
  <2> QED
    BY <1>2, <1>3, <1>6, <2>1, <2>3, StoredOwes
<1> QED
  BY <1>1, <1>4, <1>5, <1>6 DEF history

\* Reading, a copy only learns.
LEMMA ReadLogsOwes ==
  ASSUME TypeOK, StoreInv, OwedInv, TypeOK', StoreInv', NEW c \in Copies, ReadLogs(c)
  PROVE  OwedInv'
<1>1. /\ write[c].pc = "opening" /\ Goto(c, NoWrite)
      /\ UNCHANGED <<index, log, gens, deleted, littered>>
  BY DEF ReadLogs, At, disk, history
<1>2. write'[c] = NoWrite /\ \A d \in Copies : d # c => write'[d] = write[d]
  BY <1>1 DEF TypeOK, Goto
<1>3. \A d \in Copies : d # c => copy'[d] = copy[d] /\ base'[d] = base[d]
  BY DEF ReadLogs, TypeOK
<1>4. \A ch \in Chats : Is(ch, copy'[c]) => Is(ch, base'[c])
  BY DEF ReadLogs, TypeOK
<1>5. \A ch \in Chats : ~Is(ch, copy[c]) /\ ~Is(ch, base[c]) /\ ~Is(ch, write[c].taken)
  BY <1>1 DEF OwedInv, LetGoOf
<1>6. \A ch \in Chats : gens[ch] = 0 => ~Is(ch, copy'[c])
  BY <1>1, <1>4 DEF StoreInv, Unstored
<1>7. StillKnown
  BY <1>2, <1>3, <1>5 DEF StillKnown, Knows
<1>8. LetGoOf'
  BY <1>2, <1>3, NoWriteIs, NoWriteTook DEF OwedInv, LetGoOf
<1>9. MadeByOne'
  BY <1>1, <1>2, <1>3, <1>4, <1>6, NoWriteTook DEF OwedInv, MadeByOne
<1>10. Removing'
  BY <1>1, <1>2, <1>3, <1>7, NoWriteIs DEF OwedInv, Removing, StillKnown, At
<1>11. OrphanIsOwed'
  BY <1>1, <1>7 DEF OwedInv, OrphanIsOwed, StillKnown
<1> QED
  BY <1>8, <1>9, <1>10, <1>11 DEF OwedInv

\* A dead process litters all it knew of.
LEMMA CrashOwes ==
  ASSUME TypeOK, StoreInv, OwedInv, NEW c \in Copies, Crash(c)
  PROVE  OwedInv'
<1>1. /\ UNCHANGED <<index, gens, deleted>> /\ Goto(c, Closed)
      /\ copy' = [copy EXCEPT ![c] = NoChats]
      /\ base' = [base EXCEPT ![c] = NoChats]
      /\ littered' = littered \cup {ch \in Chats : Knows(c, ch)}
  BY DEF Crash
<1>2. write'[c] = Closed /\ \A d \in Copies : d # c => write'[d] = write[d]
  BY <1>1 DEF TypeOK, Goto
<1>3. /\ \A ch \in Chats : ~Is(ch, copy'[c]) /\ ~Is(ch, base'[c])
      /\ \A d \in Copies : d # c => copy'[d] = copy[d] /\ base'[d] = base[d]
  BY <1>1 DEF TypeOK, NoChats
<1>4. \A ch \in Chats : Is(ch, log)' => Is(ch, log)
  BY DEF Crash, TypeOK
<1>5. StillKnown
  BY <1>1, <1>2, <1>3 DEF StillKnown, Knows
<1>6. LetGoOf'
  BY <1>2, <1>3, NoWriteTook DEF OwedInv, LetGoOf
<1>7. MadeByOne'
  BY <1>1, <1>2, <1>3, NoWriteTook DEF OwedInv, MadeByOne
<1>8. Removing'
  BY <1>1, <1>2, <1>3, <1>4, <1>5, NoWriteIs DEF OwedInv, Removing, StillKnown, At
<1>9. OrphanIsOwed'
  BY <1>1, <1>4, <1>5 DEF OwedInv, OrphanIsOwed, StillKnown
<1> QED
  BY <1>6, <1>7, <1>8, <1>9 DEF OwedInv

-----------------------------------------------------------------------------
(* Storing the index.                                                        *)

\* What is taken under the state lock is the copy; what the write takes off
\* the list is what it removes.
LEMMA TakeStateOwes ==
  ASSUME TypeOK, StoreInv, OwedInv, NEW c \in Copies, TakeState(c)
  PROVE  OwedInv'
<1> DEFINE w == write[c]
           next == [ch \in Chats |-> MergedRow(base[c][ch], copy[c][ch], index[ch])]
           later == {ch \in w.own : Is(ch, index) /\ Changed(c, ch)}
           taken == Snapshot(c, later)
           files == {ch \in Chats : Is(ch, copy[c]) /\ ~Is(ch, base[c])}
           doomed == {ch \in Chats : Is(ch, base[c]) /\ next[ch] = None}
           v == [w EXCEPT !.pc = "files", !.own = {}, !.later = later, !.upTo = edits,
                          !.next = next, !.taken = taken, !.files = files,
                          !.doomed = doomed]
<1>1. /\ w \in Writes /\ w.pc = "own" /\ Goto(c, v) /\ stateLock = None
      /\ UNCHANGED <<index, log, gens, copy, base, deleted, littered>>
  BY DEF TakeState, TypeOK, At, disk, history
<1>2. \A ch \in Chats : Is(ch, taken) <=> Is(ch, copy[c])
  <2> HIDE DEF later
  <2> QED
    BY SnapshotIs
<1>3. \A ch \in Chats :
        /\ Is(ch, base[c]) /\ (~Is(ch, next) \/ ~Is(ch, copy[c])) => ch \in doomed
        /\ Is(ch, index) /\ ~Is(ch, next) => Is(ch, base[c])
  <2> SUFFICES ASSUME NEW ch \in Chats
               PROVE  LET row == MergedRow(base[c][ch], copy[c][ch], index[ch])
                      IN  /\ Is(ch, base[c]) /\ ~Is(ch, copy[c]) => row = None
                          /\ Is(ch, index) /\ row = None => Is(ch, base[c])
    OBVIOUS
  <2>1. copy[c][ch] # None =>
          [title |-> copy[c][ch].title, queue |-> copy[c][ch].queue] # None
    <3> SUFFICES ASSUME copy[c][ch] # None
                 PROVE  [title |-> copy[c][ch].title, queue |-> copy[c][ch].queue] \in Rows
      BY StateStoreAssumption
    <3>1. copy[c][ch] \in Held
      BY DEF TypeOK
    <3> QED
      BY <3>1 DEF Held, Rows
  <2> QED
    BY <2>1 DEF MergedRow
<1>4. v.pc = "files" /\ v.taken = taken /\ v.next = next /\ v.doomed = doomed
  <2> HIDE DEF w, next, later, taken, files, doomed
  <2> QED
    BY <1>1 DEF Writes
<1>5. \A d \in Copies : write[d].pc \notin {"files", "purge"}
  BY <1>1, StateStoreAssumption DEF StoreInv, WriterHasLock
<1> HIDE DEF next, later, taken, files, doomed, v
<1>6. write'[c] = v /\ \A d \in Copies : d # c => write'[d] = write[d]
  BY <1>1 DEF TypeOK, Goto
<1>7. \A ch \in Chats, d \in Copies : ~Is(ch, write[d].taken)
  BY <1>5 DEF OwedInv, LetGoOf
<1> HIDE DEF w
<1>8. StillKnown
  BY <1>1, <1>6, <1>7 DEF StillKnown, Knows
<1>9. LetGoOf'
  BY <1>1, <1>4, <1>6 DEF OwedInv, LetGoOf
<1>10. MadeByOne'
  BY <1>1, <1>2, <1>4, <1>6, <1>7 DEF OwedInv, MadeByOne
<1>11. Removing'
  BY <1>1, <1>2, <1>3, <1>4, <1>5, <1>6 DEF Removing, At
<1>12. OrphanIsOwed'
  BY <1>1, <1>8 DEF OwedInv, OrphanIsOwed, StillKnown
<1> QED
  BY <1>9, <1>10, <1>11, <1>12 DEF OwedInv

\* A transcript not listed yet is known to the write that stores it.
LEMMA StoreFileOwes ==
  ASSUME TypeOK, StoreInv, OwedInv, NEW c \in Copies, StoreFile(c)
  PROVE  OwedInv'
<1>1. PICK ch \in Chats : FileStored(c, ch)
  BY StoreFileIs
<1>2. /\ write[c].pc = "files" /\ write'[c].pc = "files"
      /\ write'[c].next = write[c].next /\ write'[c].doomed = write[c].doomed
      /\ UNCHANGED <<index, copy, base, deleted, littered>>
      /\ \A d \in Copies : d # c => write'[d] = write[d]
      /\ \A x \in Chats : x # ch => log'[x] = log[x] /\ gens'[x] = gens[x]
      /\ Is(ch, write[c].taken) /\ gens'[ch] # 0
  BY <1>1 DEF FileStored
<1>3. \A d \in Copies, x \in Chats : Is(x, write'[d].taken) <=> Is(x, write[d].taken)
  BY <1>1 DEF FileStored
<1>4. \A d \in Copies : d # c => write[d].pc \notin {"files", "purge"}
  BY <1>2, OneStores
<1>5. \A d \in Copies, x \in Chats : Knows(d, x)' <=> Knows(d, x)
  BY <1>2, <1>3 DEF Knows
<1>6. Knows(c, ch)
  BY <1>2 DEF Knows
<1>7. LetGoOf'
  BY <1>2, <1>3 DEF OwedInv, LetGoOf
<1>8. MadeByOne'
  <2>1. ASSUME NEW d \in Copies, Is(ch, copy[d]), ~Is(ch, base[d])
        PROVE  ch \in littered \/ Is(ch, write[d].taken)
    BY <1>2, <2>1 DEF OwedInv, MadeByOne
  <2>2. \A x \in Chats : gens'[x] = 0 => x # ch /\ gens[x] = 0
    BY <1>2
  <2> QED
    BY <1>2, <1>3, <2>1, <2>2 DEF OwedInv, MadeByOne
<1>9. Removing'
  BY <1>2, <1>3, <1>4 DEF OwedInv, Removing, At
<1>10. OrphanIsOwed'
  BY <1>2, <1>5, <1>6 DEF OwedInv, OrphanIsOwed
<1> QED
  BY <1>7, <1>8, <1>9, <1>10 DEF OwedInv

\* What the index lists no more, the write that dropped it had in its base.
LEMMA StoreIndexOwes ==
  ASSUME TypeOK, StoreInv, OwedInv, NEW c \in Copies, StoreIndex(c)
  PROVE  OwedInv'
<1> DEFINE w == write[c]
           v == [w EXCEPT !.pc = "purge", !.next = NoChats]
<1>1. /\ w \in Writes /\ w.pc = "files" /\ index' = w.next /\ Goto(c, v)
      /\ UNCHANGED <<log, gens, copy, base, deleted, littered>>
  BY DEF StoreIndex, TypeOK, At
<1>2. v.pc = "purge" /\ v.taken = w.taken /\ v.doomed = w.doomed
  <2> HIDE DEF w
  <2> QED
    BY <1>1 DEF Writes
<1>3. \A d \in Copies : d # c => write[d].pc \notin {"files", "purge"}
  BY <1>1, OneStores
<1> HIDE DEF v
<1>4. write'[c] = v /\ \A d \in Copies : d # c => write'[d] = write[d]
  BY <1>1 DEF TypeOK, Goto
<1>5. \A d \in Copies, x \in Chats : Is(x, write'[d].taken) <=> Is(x, write[d].taken)
  BY <1>2, <1>4
<1>6. \A d \in Copies, x \in Chats : Knows(d, x)' <=> Knows(d, x)
  BY <1>1, <1>5 DEF Knows
<1>7. \A ch \in Chats :
        /\ Is(ch, base[c]) /\ ~Is(ch, w.taken) => ch \in w.doomed /\ ~Is(ch, copy[c])
        /\ Is(ch, index) /\ ~Is(ch, w.next) => Is(ch, base[c])
  BY <1>1 DEF OwedInv, Removing, At
<1> HIDE DEF w
<1>8. LetGoOf'
  BY <1>1, <1>2, <1>4, <1>5 DEF OwedInv, LetGoOf, w
<1>9. MadeByOne'
  BY <1>1, <1>5 DEF OwedInv, MadeByOne
<1>10. Removing'
  BY <1>1, <1>2, <1>3, <1>4, <1>7 DEF Removing, At
<1>11. OrphanIsOwed'
  BY <1>1, <1>6, <1>7 DEF OwedInv, OrphanIsOwed, Knows
<1> QED
  BY <1>8, <1>9, <1>10, <1>11 DEF OwedInv

\* What is removed is forgotten by all.
LEMMA PurgeOwes ==
  ASSUME TypeOK, StoreInv, OwedInv, NEW c \in Copies, Purge(c)
  PROVE  OwedInv'
<1>1. PICK ch \in write[c].doomed :
        /\ log' = [log EXCEPT ![ch] = None]
        /\ Goto(c, [write[c] EXCEPT !.doomed = @ \ {ch}])
  BY DEF Purge
<1> DEFINE w == write[c]
           v == [w EXCEPT !.doomed = @ \ {ch}]
<1>2. /\ w \in Writes /\ w.pc = "purge" /\ Goto(c, v)
      /\ UNCHANGED <<index, gens, copy, base, deleted, littered>>
  BY <1>1 DEF Purge, TypeOK, At, history
<1>3. v.pc = "purge" /\ v.taken = w.taken /\ v.doomed = w.doomed \ {ch} /\ ch \in Chats
  BY <1>2 DEF Writes
<1>4. ~Is(ch, log)' /\ \A x \in Chats : x # ch => log'[x] = log[x]
  BY <1>1, <1>3 DEF TypeOK
<1>5. \A d \in Copies : d # c => write[d].pc \notin {"files", "purge"}
  BY <1>2, OneStores
<1> HIDE DEF v
<1>6. write'[c] = v /\ \A d \in Copies : d # c => write'[d] = write[d]
  BY <1>2 DEF TypeOK, Goto
<1>7. \A d \in Copies, x \in Chats : Is(x, write'[d].taken) <=> Is(x, write[d].taken)
  BY <1>3, <1>6
<1>8. \A d \in Copies, x \in Chats : Knows(d, x)' <=> Knows(d, x)
  BY <1>2, <1>7 DEF Knows
<1>9. LetGoOf'
  BY <1>2, <1>3, <1>6, <1>7 DEF OwedInv, LetGoOf
<1>10. MadeByOne'
  BY <1>2, <1>7 DEF OwedInv, MadeByOne
<1>11. Removing'
  BY <1>2, <1>3, <1>4, <1>5, <1>6, <1>8 DEF OwedInv, Removing, At
<1>12. OrphanIsOwed'
  BY <1>2, <1>4, <1>8 DEF OwedInv, OrphanIsOwed
<1> QED
  BY <1>9, <1>10, <1>11, <1>12 DEF OwedInv

\* A write is remembered once it has nothing left to remove; what it alone
\* knew of is in its base now, or was stored again by another.
LEMMA FinishOwes ==
  ASSUME TypeOK, StoreInv, OwedInv, NEW c \in Copies, Finish(c)
  PROVE  OwedInv'
<1> DEFINE w == write[c]
           v == [NoWrite EXCEPT !.pc = "later", !.later = w.later, !.upTo = w.upTo]
<1>1. /\ w \in Writes /\ w.pc = "purge" /\ w.doomed = {} /\ Goto(c, v)
      /\ base' = [base EXCEPT ![c] = w.taken]
      /\ UNCHANGED <<index, log, gens, copy, deleted, littered>>
  BY DEF Finish, TypeOK, At, disk, history
<1>2. v.pc = "later" /\ v.taken = NoChats
  BY DEF NoWrite
<1>3. \A d \in Copies : d # c => write[d].pc \notin {"files", "purge"}
  BY <1>1, OneStores
<1> HIDE DEF v
<1>4. write'[c] = v /\ \A d \in Copies : d # c => write'[d] = write[d]
  BY <1>1 DEF TypeOK, Goto
<1>5. base'[c] = w.taken /\ \A d \in Copies : d # c => base'[d] = base[d]
  BY <1>1 DEF TypeOK
<1>6. \A x \in Chats : ~Is(x, NoChats)
  BY DEF NoChats
<1>7. \A d \in Copies, x \in Chats : d # c => (Knows(d, x)' <=> Knows(d, x))
  BY <1>1, <1>4, <1>5 DEF Knows
<1>8. \A ch \in Chats :
        Is(ch, base[c]) /\ ~Is(ch, w.taken) =>
          /\ ~Is(ch, copy[c])
          /\ Is(ch, log) /\ ch \notin littered => \E d \in Copies \ {c} : Knows(d, ch)
  BY <1>1 DEF OwedInv, Removing, At
<1>9. \A ch \in Chats : Is(ch, copy[c]) \/ Is(ch, w.taken) => Knows(c, ch)'
  BY <1>1, <1>5 DEF Knows
<1>10. LetGoOf'
  BY <1>1, <1>2, <1>4, <1>5, <1>6 DEF OwedInv, LetGoOf
<1>11. MadeByOne'
  <2>1. \A ch \in Chats : Is(ch, copy[c]) /\ ~Is(ch, w.taken) =>
                            gens[ch] = 0 \/ ch \in littered
    BY <1>8 DEF OwedInv, MadeByOne
  <2> QED
    BY <1>1, <1>2, <1>4, <1>5, <1>6, <2>1 DEF OwedInv, MadeByOne
<1>12. Removing'
  BY <1>2, <1>3, <1>4 DEF Removing, At
<1>13. OrphanIsOwed'
  <2> SUFFICES ASSUME NEW ch \in Chats, Is(ch, log), ~Is(ch, index), ch \notin littered
               PROVE  \E d \in Copies : Knows(d, ch)'
    BY <1>1 DEF OrphanIsOwed
  <2>1. PICK d \in Copies : Knows(d, ch)
    BY DEF OwedInv, OrphanIsOwed
  <2> QED
    BY <1>7, <1>8, <1>9, <2>1 DEF Knows
<1> QED
  BY <1>10, <1>11, <1>12, <1>13 DEF OwedInv

-----------------------------------------------------------------------------
(* The theorem.                                                              *)

LEMMA StaysOwed ==
  ASSUME TypeOK, StoreInv, OwedInv, (TypeOK /\ StoreInv)', [Next]_vars
  PROVE  OwedInv'
<1>1. CASE UNCHANGED vars
  <2>1. UNCHANGED <<index, log, gens, copy, base, write, deleted, littered>>
    BY <1>1 DEF vars, disk, history
  <2> QED
    BY <2>1 DEF OwedInv, LetGoOf, MadeByOne, Removing, OrphanIsOwed, Knows, At
<1>2. CASE Next
  <2>1. PICK c \in Copies :
          \/ ReadIndex(c) \/ ReadLogs(c) \/ Editing(c)
          \/ Begin(c) \/ Writing(c) \/ \E ch \in Chats : Checkpoint(c, ch)
          \/ Fail(c) \/ Crash(c)
    BY <1>2 DEF Next
  <2>2. CASE ReadIndex(c)
    BY <2>2, ReadIndexOwes
  <2>3. CASE ReadLogs(c)
    BY <2>3, ReadLogsOwes
  <2>4. CASE Editing(c)
    BY <2>4, EditingOwes
  <2>5. CASE Begin(c)
    BY <2>5, BeginOwes
  <2>6. CASE \E ch \in Chats : Checkpoint(c, ch)
    BY <2>6, CheckpointOwes
  <2>7. CASE Fail(c)
    BY <2>7, FailOwes
  <2>8. CASE Crash(c)
    BY <2>8, CrashOwes
  <2>9. CASE Writing(c)
    <3>1. CASE OwnNext(c)
      BY <3>1, OwnNextOwes
    <3>2. CASE StoreOwn(c)
      BY <3>2, StoreOwnOwes
    <3>3. CASE TakeState(c)
      BY <3>3, TakeStateOwes
    <3>4. CASE StoreFile(c)
      BY <3>4, StoreFileOwes
    <3>5. CASE StoreIndex(c)
      BY <3>5, StoreIndexOwes
    <3>6. CASE Purge(c)
      BY <3>6, PurgeOwes
    <3>7. CASE Finish(c)
      BY <3>7, FinishOwes
    <3>8. CASE Later(c)
      BY <3>8, LaterOwes
    <3>9. CASE End(c)
      BY <3>9, EndOwes
    <3> QED
      BY <2>9, <3>1, <3>2, <3>3, <3>4, <3>5, <3>6, <3>7, <3>8, <3>9 DEF Writing
  <2> QED
    BY <2>1, <2>2, <2>3, <2>4, <2>5, <2>6, <2>7, <2>8, <2>9
<1> QED
  BY <1>1, <1>2

\* A transcript no chat is listed for is one that a live copy still knows of,
\* and its writes list or remove, unless the process that knew of it died or
\* failed to store it (writeState: index and transcripts are separate files):
\* no order of edits, writes and deletions by other copies leaves one behind.
THEOREM OrphansAreOwed == Spec => []OrphanIsOwed
<1>1. OwedInv => OrphanIsOwed
  BY DEF OwedInv
<1>2. TypeOK /\ StoreInv /\ OwedInv /\ (TypeOK /\ StoreInv)' /\ [Next]_vars => OwedInv'
  BY StaysOwed
<1> QED
  BY <1>1, <1>2, StartsOwed, StoreInvariant, PTL DEF Spec

-----------------------------------------------------------------------------
(* What was stored of a chat.                                                *)

\* The rows and messages of a chat, as items.
RowIn(ch, row, items) ==
  /\ row.title # 0 => Item(ch, "title", row.title) \in items
  /\ \A n \in row.queue : Item(ch, "queued", n) \in items
SaidIn(ch, msgs, items) == \A n \in Messages(msgs) : Item(ch, "message", n) \in items
HeldIn(ch, held, items) ==
  RowIn(ch, held, items) /\ (held.msgs # None => SaidIn(ch, held.msgs, items))

\* A chat a reader found once.
Had(ch) == Item(ch, "chat", 0) \in stored

\* What a reader finds now is stored; and only what has a file was ever found.
DiskStored ==
  \A ch \in Chats :
    /\ Is(ch, index) => /\ Had(ch) /\ RowIn(ch, index[ch], stored)
                        /\ SaidIn(ch, log[ch].msgs, stored)
    /\ Had(ch) => gens[ch] # 0

Holds(c, ch) == Is(ch, copy[c]) \/ Is(ch, write[c].taken)

\* Until it is found, a chat is one copy's.
OneMaker ==
  \A ch \in Chats : ~Had(ch) =>
    \A c, d \in Copies : c # d => ~(Holds(c, ch) /\ Holds(d, ch))

\* What a copy or a write has of a chat, before and after it was listed.
Listing(c, ch) ==
  /\ Is(ch, base[c]) => Had(ch)
  /\ At(c, "opening") /\ Is(ch, write[c].next)
       => Had(ch) /\ RowIn(ch, write[c].next[ch], stored)
  /\ At(c, "files") /\ Is(ch, write[c].next) /\ ~Is(ch, index)
       => Is(ch, write[c].taken) /\ ~Is(ch, base[c])
  /\ At(c, "files") /\ Is(ch, write[c].taken) /\ ~Is(ch, base[c])
       => ~Had(ch) /\ Is(ch, write[c].next)
  /\ At(c, "purge") /\ Is(ch, write[c].taken) => Had(ch)
  /\ Is(ch, copy[c]) /\ ~Is(ch, base[c]) /\ Had(ch)
       => At(c, "purge") /\ Is(ch, write[c].taken)
  /\ ~Had(ch) /\ Is(ch, write[c].taken) => Is(ch, copy[c]) \/ ch \in deleted

\* Its row is there already, or will be when the index is stored.
RowNext(ch, row, next, items) ==
  /\ row.title # 0 => Item(ch, "title", row.title) \in items \/ row.title = next.title
  /\ \A n \in row.queue : Item(ch, "queued", n) \in items \/ n \in next.queue

\* A write stores its own transcripts: each that it will list is still to be
\* looked at, or was, or is being stored.
OwnStored(c, ch, w) ==
  (w.pc = "own" \/ (w.pc = "store" /\ w.back = "own"))
    /\ Known(c, ch) /\ Loaded(c, ch) /\ Is(ch, index)
    => ch \in w.todo \cup w.own \/ (w.pc = "store" /\ w.chat = ch)

\* What a base remembers, and what a write will make it remember.
Remembers(c, ch) ==
  LET w == write[c]
  IN  /\ Is(ch, base[c]) /\ Is(ch, index) => HeldIn(ch, base[c][ch], stored)
      /\ OwnStored(c, ch, w)
      /\ At(c, "files") /\ Is(ch, w.taken) /\ Is(ch, w.next) =>
           /\ RowNext(ch, w.taken[ch], w.next[ch], stored)
           /\ Is(ch, base[c]) /\ w.taken[ch].msgs # None
                => SaidIn(ch, w.taken[ch].msgs, stored)
           /\ ~Is(ch, base[c]) /\ ch \notin w.files
                => Is(ch, log) /\ Messages(w.taken[ch].msgs) \subseteq Messages(log[ch].msgs)
      /\ At(c, "purge") /\ Is(ch, w.taken) /\ Is(ch, index)
           => HeldIn(ch, w.taken[ch], stored)

\* What was added to a copy up to then is stored when the write is nearly over,
\* but for the messages it has left for later, or is storing.
Upto(s, n) == {m \in s : m <= n}
AllStored(c, ch, w) ==
  (w.pc = "later" \/ (w.pc = "store" /\ w.back = "later"))
    /\ Loaded(c, ch) /\ Is(ch, index)
    => LET row == copy[c][ch]
           said == Upto(Messages(row.msgs), w.upTo)
       IN  /\ row.title # 0 /\ row.title <= w.upTo
                => Item(ch, "title", row.title) \in stored
           /\ \A n \in Upto(row.queue, w.upTo) : Item(ch, "queued", n) \in stored
           /\ \/ ch \in w.later
              \/ \A n \in said : Item(ch, "message", n) \in stored
              \/ w.pc = "store" /\ w.chat = ch /\ said \subseteq Messages(w.now)

\* What a write took is what its copy had then, but for the transcripts left
\* for later.
Kept(c, ch) ==
  LET w == write[c]
      row == copy[c][ch]
  IN  /\ w.upTo <= edits
      /\ w.pc \in {"files", "purge"} /\ Is(ch, copy[c]) =>
           /\ ~Is(ch, w.taken) => ~Had(ch)
           /\ Is(ch, w.taken) =>
                /\ row.title # 0 /\ row.title <= w.upTo => row.title = w.taken[ch].title
                /\ Upto(row.queue, w.upTo) \subseteq w.taken[ch].queue
                /\ Loaded(c, ch) /\ ch \notin w.later
                     => Upto(Messages(row.msgs), w.upTo) \subseteq Messages(w.taken[ch].msgs)
      /\ AllStored(c, ch, w)

RecordInv ==
  /\ DiskStored /\ OneMaker
  /\ \A c \in Copies, ch \in Chats : Listing(c, ch) /\ Remembers(c, ch) /\ Kept(c, ch)

-----------------------------------------------------------------------------
(* What a reader finds.                                                      *)

LEMMA ItemIs ==
  \A a, k, n, b, l, m : Item(a, k, n) = Item(b, l, m) <=> a = b /\ k = l /\ n = m
BY DEF Item

\* What is listed is on disk, with its row and its messages, and nothing else
\* is; for any index and logs.
LEMMA OnDiskIs ==
  ASSUME NEW rows, NEW logs \in [Chats -> {None} \cup Logs(1..MaxEdits)],
         \A x \in Chats : rows[x] # None => logs[x] # None,
         NEW found,
         found = UNION {ItemsOf(x, rows[x], IF logs[x] = None THEN <<>> ELSE logs[x].msgs) :
                          x \in {y \in Chats : rows[y] # None}},
         NEW ch \in Chats
  PROVE  /\ Item(ch, "chat", 0) \in found <=> rows[ch] # None
         /\ rows[ch] # None => RowIn(ch, rows[ch], found)
                               /\ SaidIn(ch, logs[ch].msgs, found)
<1> DEFINE said(x) == IF logs[x] = None THEN <<>> ELSE logs[x].msgs
           items(x) == ItemsOf(x, rows[x], said(x))
<1>1. found = UNION {items(x) : x \in {y \in Chats : rows[y] # None}}
  OBVIOUS
<1> HIDE DEF items
<1>2. ASSUME Item(ch, "chat", 0) \in found PROVE rows[ch] # None
  <2>1. PICK x \in Chats : rows[x] # None /\ Item(ch, "chat", 0) \in items(x)
    BY <1>1, <1>2
  <2>2. x = ch
    <3> HIDE DEF said
    <3>1. CASE Item(ch, "chat", 0) = Item(x, "chat", 0)
      BY <3>1, ItemIs
    <3>2. CASE \E n \in {rows[x].title} \ {0} : Item(ch, "chat", 0) = Item(x, "title", n)
      BY <3>2, ItemIs
    <3>3. CASE \E n \in rows[x].queue : Item(ch, "chat", 0) = Item(x, "queued", n)
      BY <3>3, ItemIs
    <3>4. CASE \E i \in DOMAIN said(x) :
                 Item(ch, "chat", 0) = Item(x, "message", said(x)[i])
      BY <3>4, ItemIs
    <3> QED
      BY <2>1, <3>1, <3>2, <3>3, <3>4 DEF items, ItemsOf
  <2> QED
    BY <2>1, <2>2
<1>3. ASSUME rows[ch] # None
      PROVE  /\ Item(ch, "chat", 0) \in found
             /\ RowIn(ch, rows[ch], found) /\ SaidIn(ch, logs[ch].msgs, found)
  <2>1. items(ch) \subseteq found
    BY <1>1, <1>3
  <2>2. logs[ch] \in Logs(1..MaxEdits) /\ logs[ch] # None
    BY <1>3
  <2>3. DOMAIN logs[ch].msgs = 1..Len(logs[ch].msgs)
    BY <2>2 DEF Logs
  <2>4. items(ch) = ItemsOf(ch, rows[ch], logs[ch].msgs)
    BY <2>2 DEF items
  <2>5. Item(ch, "chat", 0) \in items(ch)
    BY <2>4 DEF ItemsOf
  <2>6. RowIn(ch, rows[ch], items(ch))
    BY <2>4 DEF ItemsOf, RowIn
  <2>7. SaidIn(ch, logs[ch].msgs, items(ch))
    BY <2>3, <2>4 DEF ItemsOf, SaidIn, Messages
  <2> HIDE DEF said
  <2> QED
    BY <2>1, <2>5, <2>6, <2>7 DEF RowIn, SaidIn
<1> QED
  BY <1>2, <1>3

\* More that is stored covers what was covered.
LEMMA StoredGrows ==
  ASSUME NEW S, NEW T, S \subseteq T, NEW ch
  PROVE  /\ \A row : RowIn(ch, row, S) => RowIn(ch, row, T)
         /\ \A msgs : SaidIn(ch, msgs, S) => SaidIn(ch, msgs, T)
         /\ \A held : HeldIn(ch, held, S) => HeldIn(ch, held, T)
         /\ \A row, next : RowNext(ch, row, next, S) => RowNext(ch, row, next, T)
BY DEF RowIn, SaidIn, HeldIn, RowNext

\* A step that changes the disk records what a reader finds then.
LEMMA RecordedIs ==
  ASSUME TypeOK', StoreInv', RecordInv, Recorded,
         \A ch \in Chats : gens[ch] # 0 => gens'[ch] # 0
  PROVE  /\ stored \subseteq stored' /\ DiskStored'
         /\ \A ch \in Chats : Had(ch)' => Had(ch) \/ Is(ch, index)'
<1>1. stored \subseteq stored' /\ OnDisk' \subseteq stored'
  BY DEF Recorded
<1>2. ASSUME NEW ch \in Chats
      PROVE  /\ Item(ch, "chat", 0) \in OnDisk' <=> Is(ch, index)'
             /\ Is(ch, index)' => RowIn(ch, index'[ch], OnDisk')
                                  /\ SaidIn(ch, log'[ch].msgs, OnDisk')
  <2>1. \A x \in Chats : index'[x] # None => log'[x] # None
    BY DEF StoreInv, FilesFirst, ListedIsReadable
  <2>2. log' \in [Chats -> {None} \cup Logs(1..MaxEdits)]
    BY DEF TypeOK
  <2> QED
    BY <2>1, <2>2, OnDiskIs DEF OnDisk
<1>3. ASSUME NEW ch \in Chats PROVE Had(ch)' => Had(ch) \/ Is(ch, index)'
  BY <1>2 DEF Had, Recorded
<1>4. ASSUME NEW ch \in Chats, Is(ch, index)'
      PROVE  Had(ch)' /\ RowIn(ch, index'[ch], stored') /\ SaidIn(ch, log'[ch].msgs, stored')
  <2>1. Item(ch, "chat", 0) \in OnDisk'
    BY <1>2, <1>4
  <2> QED
    BY <1>1, <1>2, <1>4, <2>1 DEF Had, RowIn, SaidIn
<1>5. ASSUME NEW ch \in Chats, Had(ch)' PROVE gens'[ch] # 0
  <2>1. CASE Had(ch)
    BY <2>1 DEF RecordInv, DiskStored
  <2>2. CASE Is(ch, index)'
    BY <2>2 DEF StoreInv, FilesFirst, ListedIsReadable, Unstored
  <2> QED
    BY <1>3, <1>5, <2>1, <2>2
<1> QED
  BY <1>1, <1>3, <1>4, <1>5 DEF DiskStored

-----------------------------------------------------------------------------
(* The start, and the copies a step leaves alone.                            *)

LEMMA StartsRecorded == Init => RecordInv
<1> SUFFICES ASSUME Init PROVE RecordInv
  OBVIOUS
<1>1. TypeOK /\ StoreInv
  BY StartsWell
<1>2. /\ \A x \in Chats : index[x] # None => log[x] # None
      /\ log \in [Chats -> {None} \cup Logs(1..MaxEdits)]
  BY <1>1 DEF TypeOK, StoreInv, FilesFirst, ListedIsReadable
<1>3. ASSUME NEW ch \in Chats
      PROVE  /\ Item(ch, "chat", 0) \in OnDisk <=> Is(ch, index)
             /\ Is(ch, index) => RowIn(ch, index[ch], OnDisk)
                                  /\ SaidIn(ch, log[ch].msgs, OnDisk)
  BY <1>2, OnDiskIs DEF OnDisk
<1>4. stored = OnDisk
  BY DEF Init
<1>5. DiskStored
  <2>1. ASSUME NEW ch \in Chats, Had(ch) PROVE gens[ch] # 0
    BY <1>1, <1>2, <1>3, <1>4, <2>1 DEF Had, StoreInv, Unstored
  <2> QED
    BY <1>3, <1>4, <2>1 DEF DiskStored, Had
<1>6. ASSUME NEW c \in Copies, NEW ch \in Chats
      PROVE  /\ ~Is(ch, copy[c]) /\ ~Is(ch, base[c]) /\ ~Is(ch, write[c].taken)
             /\ write[c].pc = "closed" /\ write[c].upTo = 0 /\ edits = 0
  BY DEF Init, NoChats, Closed, NoWrite
<1>7. OneMaker
  BY <1>6 DEF OneMaker, Holds
<1>8. ASSUME NEW c \in Copies, NEW ch \in Chats
      PROVE  Listing(c, ch) /\ Remembers(c, ch) /\ Kept(c, ch)
  <2>1. Listing(c, ch)
    BY <1>6 DEF Listing, At
  <2>2. Remembers(c, ch)
    BY <1>6 DEF Remembers, OwnStored, At
  <2>3. Kept(c, ch)
    BY <1>6 DEF Kept, AllStored
  <2> QED
    BY <2>1, <2>2, <2>3
<1> QED
  BY <1>5, <1>7, <1>8 DEF RecordInv

Inv == TypeOK /\ StoreInv /\ OwedInv /\ RecordInv

\* What is known of a chat in a copy nothing happened to stays, while the
\* index lists what it did and the log it may be about to list stays.
LEMMA SameKeeps ==
  ASSUME Inv, NEW c \in Copies, NEW ch \in Chats,
         copy'[c][ch] = copy[c][ch], base'[c][ch] = base[c][ch], write'[c] = write[c],
         index'[ch] = index[ch], stored \subseteq stored', Had(ch)' => Had(ch),
         deleted \subseteq deleted', edits <= edits', edits' \in Nat,
         At(c, "files") /\ Is(ch, write[c].taken) /\ ~Is(ch, base[c]) /\ Is(ch, log)
           => Is(ch, log)' /\ log'[ch].msgs = log[ch].msgs
  PROVE  Listing(c, ch)' /\ Remembers(c, ch)' /\ Kept(c, ch)'
<1>0. Listing(c, ch) /\ Remembers(c, ch) /\ Kept(c, ch) /\ (Had(ch) <=> Had(ch)')
  BY DEF Inv, RecordInv, Had
<1>g. /\ \A row : RowIn(ch, row, stored) => RowIn(ch, row, stored')
      /\ \A msgs : SaidIn(ch, msgs, stored) => SaidIn(ch, msgs, stored')
      /\ \A held : HeldIn(ch, held, stored) => HeldIn(ch, held, stored')
      /\ \A row, next : RowNext(ch, row, next, stored) => RowNext(ch, row, next, stored')
  BY StoredGrows
<1>1. Listing(c, ch)'
  BY <1>0, <1>g DEF Listing, At
<1>2. OwnStored(c, ch, write[c])'
  BY <1>0 DEF Remembers, OwnStored, Known, Loaded
<1>3. Remembers(c, ch)'
  BY <1>0, <1>g, <1>2 DEF Remembers, At
<1>4. AllStored(c, ch, write[c])'
  BY <1>0 DEF Kept, AllStored, Loaded
<1>5. (write[c].upTo <= edits)'
  BY <1>0 DEF Kept, Inv, TypeOK, Writes
<1>6. Kept(c, ch)'
  BY <1>0, <1>4, <1>5 DEF Kept, Loaded
<1> QED
  BY <1>1, <1>3, <1>6

\* So it is enough to look at the copy that made the step, as long as the index
\* stays.
LEMMA OneRecords ==
  ASSUME Inv, NEW c \in Copies, index' = index, stored \subseteq stored', DiskStored',
         \A ch \in Chats : Had(ch)' => Had(ch),
         deleted \subseteq deleted', edits <= edits', edits' \in Nat,
         \A d \in Copies \ {c} :
           copy'[d] = copy[d] /\ base'[d] = base[d] /\ write'[d] = write[d],
         \A d \in Copies \ {c}, ch \in Chats :
           At(d, "files") /\ Is(ch, write[d].taken) /\ ~Is(ch, base[d]) /\ Is(ch, log)
             => Is(ch, log)' /\ log'[ch].msgs = log[ch].msgs,
         \A ch \in Chats : ~Had(ch) /\ Holds(c, ch)' =>
           Holds(c, ch) \/ \A d \in Copies \ {c} : ~Holds(d, ch),
         \A ch \in Chats : Listing(c, ch)' /\ Remembers(c, ch)' /\ Kept(c, ch)'
  PROVE  RecordInv'
<1>1. ASSUME NEW d \in Copies, NEW ch \in Chats
      PROVE  Listing(d, ch)' /\ Remembers(d, ch)' /\ Kept(d, ch)'
  <2>1. CASE d = c
    BY <2>1
  <2>2. CASE d # c
    BY <2>2, SameKeeps
  <2> QED
    BY <2>1, <2>2
<1>2. OneMaker'
  <2> SUFFICES ASSUME NEW ch \in Chats, ~Had(ch)', NEW d \in Copies, NEW e \in Copies,
                      d # e, Holds(d, ch)', Holds(e, ch)'
               PROVE  FALSE
    BY DEF OneMaker
  <2>1. ~Had(ch) /\ OneMaker
    BY DEF Had, Inv, RecordInv
  <2>2. \A x \in Copies \ {c} : Holds(x, ch)' <=> Holds(x, ch)
    BY DEF Holds
  <2>3. CASE d = c
    BY <2>1, <2>2, <2>3 DEF OneMaker
  <2>4. CASE e = c
    BY <2>1, <2>2, <2>4 DEF OneMaker
  <2>5. CASE d # c /\ e # c
    BY <2>1, <2>2, <2>5 DEF OneMaker
  <2> QED
    BY <2>3, <2>4, <2>5
<1> QED
  BY <1>1, <1>2 DEF RecordInv

\* Nothing on disk changes: what was stored is.
LEMMA DiskStays ==
  ASSUME Inv, index' = index, stored' = stored,
         \A ch \in Chats : Is(ch, index) => log'[ch].msgs = log[ch].msgs,
         \A ch \in Chats : gens[ch] # 0 => gens'[ch] # 0
  PROVE  /\ stored \subseteq stored' /\ DiskStored'
         /\ \A ch \in Chats : Had(ch)' => Had(ch)
BY DEF Inv, RecordInv, DiskStored, Had

\* A step that only moves a write on, and not into where the index is stored,
\* keeps what is known if it gives up nothing that is owed.
LEMMA GotoRecords ==
  ASSUME Inv, NEW c \in Copies, NEW w \in Writes, Goto(c, w),
         UNCHANGED <<disk, copy, base, edits, stored, deleted>>,
         write[c].pc # "purge", w.pc \notin {"files", "purge"},
         \A ch \in Chats : ~Is(ch, w.taken), w.upTo <= edits,
         w.pc = "opening" => w.next = index,
         \A ch \in Chats : OwnStored(c, ch, w) /\ AllStored(c, ch, w)
  PROVE  RecordInv'
<1> USE DEF disk
<1>0. /\ write'[c] = w /\ \A d \in Copies \ {c} : write'[d] = write[d]
  BY DEF Goto, Inv, TypeOK
<1>1. /\ stored \subseteq stored' /\ DiskStored'
      /\ \A ch \in Chats : Had(ch)' => Had(ch)
  BY DiskStays
<1>2. ASSUME NEW ch \in Chats
      PROVE  Listing(c, ch)' /\ Remembers(c, ch)' /\ Kept(c, ch)'
  <2>0. /\ Listing(c, ch) /\ Remembers(c, ch) /\ DiskStored /\ ~Is(ch, w.taken)
        /\ Had(ch) <=> Had(ch)'
    BY DEF Inv, RecordInv, Had
  <2>1. Listing(c, ch)'
    BY <1>0, <2>0 DEF Listing, At, DiskStored
  <2>2. OwnStored(c, ch, write[c])'
    BY <1>0 DEF OwnStored, Known, Loaded
  <2>3. Remembers(c, ch)'
    BY <1>0, <2>0, <2>2 DEF Remembers, At
  <2>4. AllStored(c, ch, write[c])'
    BY <1>0 DEF AllStored, Loaded
  <2>5. Kept(c, ch)'
    BY <1>0, <2>4 DEF Kept
  <2> QED
    BY <2>1, <2>3, <2>5
<1>3. ASSUME NEW ch \in Chats, Holds(c, ch)' PROVE Holds(c, ch)
  BY <1>0, <1>3 DEF Holds
<1>4. edits \in Nat
  BY DEF Inv, TypeOK
<1> QED
  BY <1>0, <1>1, <1>2, <1>3, <1>4, OneRecords

-----------------------------------------------------------------------------
(* Steps up to where the index is stored, and after.                         *)

LEMMA ReadIndexRecords ==
  ASSUME Inv, NEW c \in Copies, ReadIndex(c)
  PROVE  RecordInv'
<1> DEFINE w == [NoWrite EXCEPT !.pc = "opening", !.next = index]
<1>1. /\ w \in Writes /\ w.pc = "opening" /\ w.taken = NoChats /\ w.upTo = 0
      /\ w.next = index
  <2>1. NoWrite.taken = NoChats /\ NoWrite.upTo = 0
    BY DEF NoWrite
  <2> QED
    BY <2>1, NoWriteIs DEF Inv, TypeOK, Writes
<1>2. /\ Goto(c, w) /\ write[c].pc = "closed"
      /\ UNCHANGED <<disk, copy, base, edits, stored, deleted>>
  BY DEF ReadIndex, At, history
<1>3. \A ch \in Chats : ~Is(ch, NoChats)
  BY DEF NoChats
<1>4. 0 <= edits
  BY DEF Inv, TypeOK
<1> HIDE DEF w
<1>5. ASSUME NEW ch \in Chats PROVE OwnStored(c, ch, w) /\ AllStored(c, ch, w)
  BY <1>1 DEF OwnStored, AllStored
<1> QED
  BY <1>1, <1>2, <1>3, <1>4, <1>5, GotoRecords

\* Taking a chat's lock, what is to be stored is what the copy has.
LEMMA TakeChatRecords ==
  ASSUME Inv, NEW c \in Copies, NEW ch \in Chats, NEW w \in Writes,
         NEW back \in {"idle", "own", "later"}, Changed(c, ch), TakeChat(c, ch, w, back),
         w.taken = write[c].taken, w.upTo = write[c].upTo, w.own = write[c].own,
         write[c].pc = back, w.todo = write[c].todo \/ w.todo = write[c].todo \ {ch},
         w.later = write[c].later \/ w.later = write[c].later \ {ch}
  PROVE  RecordInv'
<1> DEFINE v == [w EXCEPT !.pc = "store", !.chat = ch, !.now = copy[c][ch].msgs,
                          !.back = back]
<1>0. StoreInv /\ copy[c][ch].msgs \in Histories
  BY ChangedHasBoth DEF Inv
<1>1. /\ v \in Writes /\ v.pc = "store" /\ v.chat = ch /\ v.now = copy[c][ch].msgs
      /\ v.back = back /\ v.taken = write[c].taken /\ v.upTo = write[c].upTo
      /\ v.todo = w.todo /\ v.own = write[c].own /\ v.later = w.later
  BY <1>0 DEF Writes
<1>2. Goto(c, v) /\ UNCHANGED <<disk, copy, base, edits, stored, deleted>>
  BY DEF TakeChat, history
<1> HIDE DEF v
<1>3. \A x \in Chats : ~Is(x, v.taken)
  BY <1>1 DEF Inv, OwedInv, LetGoOf
<1>4. ASSUME NEW x \in Chats
      PROVE  OwnStored(c, x, v) /\ AllStored(c, x, v) /\ v.upTo <= edits
  <2>1. Remembers(c, x) /\ Kept(c, x)
    BY DEF Inv, RecordInv
  <2>2. OwnStored(c, x, v)
    BY <1>1, <2>1 DEF Remembers, OwnStored
  <2>3. AllStored(c, x, v)
    <3>1. AllStored(c, x, write[c])
      BY <2>1 DEF Kept
    <3>2. CASE back # "later"
      BY <1>1, <3>2 DEF AllStored
    <3>3. CASE back = "later" /\ x = ch
      BY <1>1, <3>1, <3>3 DEF AllStored, Upto
    <3>4. CASE back = "later" /\ x # ch
      <4>1. x \in write[c].later => x \in v.later
        BY <1>1, <3>4
      <4> QED
        BY <1>1, <3>1, <3>4, <4>1 DEF AllStored
    <3> QED
      BY <3>2, <3>3, <3>4
  <2> QED
    BY <1>1, <2>1, <2>2, <2>3 DEF Kept
<1> QED
  BY <1>1, <1>2, <1>3, <1>4, GotoRecords

LEMMA CheckpointRecords ==
  ASSUME Inv, NEW c \in Copies, NEW ch \in Chats, Checkpoint(c, ch)
  PROVE  RecordInv'
<1>1. /\ write[c] \in Writes /\ write[c].pc = "idle" /\ Changed(c, ch)
      /\ TakeChat(c, ch, write[c], "idle")
  BY DEF Inv, TypeOK, Checkpoint, At
<1> QED
  BY <1>1, TakeChatRecords

\* A write begins with all of its transcripts to be looked at.
LEMMA BeginRecords ==
  ASSUME Inv, NEW c \in Copies, Begin(c)
  PROVE  RecordInv'
<1> DEFINE w == [NoWrite EXCEPT !.pc = "own",
                   !.todo = {ch \in Chats : Known(c, ch) /\ Loaded(c, ch)}]
<1>1. /\ w \in Writes /\ w.pc = "own" /\ w.taken = NoChats /\ w.upTo = 0
      /\ w.todo = {ch \in Chats : Known(c, ch) /\ Loaded(c, ch)}
  <2>1. NoWrite.taken = NoChats /\ NoWrite.upTo = 0
    BY DEF NoWrite
  <2> QED
    BY <2>1, NoWriteIs DEF Writes
<1>2. /\ Goto(c, w) /\ write[c].pc = "idle"
      /\ UNCHANGED <<disk, copy, base, edits, stored, deleted>>
  BY DEF Begin, At, history
<1>3. \A ch \in Chats : ~Is(ch, NoChats)
  BY DEF NoChats
<1>4. 0 <= edits
  BY DEF Inv, TypeOK
<1> HIDE DEF w
<1>5. ASSUME NEW ch \in Chats PROVE OwnStored(c, ch, w) /\ AllStored(c, ch, w)
  BY <1>1 DEF OwnStored, AllStored
<1> QED
  BY <1>1, <1>2, <1>3, <1>4, <1>5, GotoRecords

\* Each is stored, or is its base's already, or is not listed.
LEMMA OwnNextRecords ==
  ASSUME Inv, NEW c \in Copies, OwnNext(c)
  PROVE  RecordInv'
<1>1. PICK ch \in write[c].todo :
        LET w == [write[c] EXCEPT !.todo = @ \ {ch}]
        IN  IF Changed(c, ch) /\ Is(ch, index)
            THEN TakeChat(c, ch, w, "own")
            ELSE /\ Goto(c, IF Known(c, ch) /\ ~Changed(c, ch)
                              THEN [w EXCEPT !.own = @ \cup {ch}] ELSE w)
                 /\ UNCHANGED <<disk, locks, copy, base, edits, bounds, history>>
  BY DEF OwnNext
<1> DEFINE w == [write[c] EXCEPT !.todo = @ \ {ch}]
           v == IF Known(c, ch) /\ ~Changed(c, ch)
                  THEN [w EXCEPT !.own = @ \cup {ch}] ELSE w
<1>2. write[c] \in Writes /\ write[c].pc = "own"
  BY DEF Inv, TypeOK, OwnNext, At
<1>3. ch \in Chats
  BY <1>2 DEF Writes
<1>4. /\ w \in Writes /\ w.pc = "own" /\ w.taken = write[c].taken /\ w.upTo = write[c].upTo
      /\ w.own = write[c].own /\ w.todo = write[c].todo \ {ch} /\ w.later = write[c].later
  BY <1>2 DEF Writes
<1>5. /\ v \in Writes /\ v.pc = "own" /\ v.taken = write[c].taken /\ v.upTo = write[c].upTo
      /\ v.own = IF Known(c, ch) /\ ~Changed(c, ch) THEN write[c].own \cup {ch}
                                                    ELSE write[c].own
      /\ v.todo = write[c].todo \ {ch}
  <2> HIDE DEF w
  <2> QED
    BY <1>3, <1>4 DEF Writes
<1>6. CASE Changed(c, ch) /\ Is(ch, index)
  <2>1. TakeChat(c, ch, w, "own")
    BY <1>1, <1>6
  <2> HIDE DEF w
  <2> QED
    BY <1>2, <1>3, <1>4, <1>6, <2>1, TakeChatRecords
<1>7. CASE ~(Changed(c, ch) /\ Is(ch, index))
  <2>1. Goto(c, v) /\ UNCHANGED <<disk, copy, base, edits, stored, deleted>>
    BY <1>1, <1>7 DEF history
  <2> HIDE DEF v, w
  <2>2. \A x \in Chats : ~Is(x, v.taken)
    BY <1>2, <1>5 DEF Inv, OwedInv, LetGoOf
  <2>3. ASSUME NEW x \in Chats
        PROVE  OwnStored(c, x, v) /\ AllStored(c, x, v) /\ v.upTo <= edits
    <3>1. Remembers(c, x) /\ Kept(c, x)
      BY DEF Inv, RecordInv
    <3> QED
      BY <1>2, <1>5, <1>7, <3>1 DEF Remembers, Kept, OwnStored, AllStored
  <2> QED
    BY <1>2, <1>3, <1>5, <2>1, <2>2, <2>3, GotoRecords
<1> QED
  BY <1>6, <1>7

\* A write that ends, or fails, owes nothing any more.
LEMMA NoWriteRecords ==
  ASSUME Inv, NEW c \in Copies, Goto(c, NoWrite), write[c].pc # "purge",
         UNCHANGED <<disk, copy, base, edits, stored, deleted>>
  PROVE  RecordInv'
<1>1. NoWrite.pc = "idle" /\ NoWrite.taken = NoChats /\ NoWrite.upTo = 0
  BY DEF NoWrite
<1>2. \A ch \in Chats : ~Is(ch, NoChats)
  BY DEF NoChats
<1>3. 0 <= edits
  BY DEF Inv, TypeOK
<1>4. ASSUME NEW ch \in Chats PROVE OwnStored(c, ch, NoWrite) /\ AllStored(c, ch, NoWrite)
  BY <1>1 DEF OwnStored, AllStored
<1> QED
  BY <1>1, <1>2, <1>3, <1>4, NoWriteIs, GotoRecords

LEMMA EndRecords ==
  ASSUME Inv, NEW c \in Copies, End(c)
  PROVE  RecordInv'
BY NoWriteRecords DEF End, At, history

LEMMA FailRecords ==
  ASSUME Inv, NEW c \in Copies, Fail(c)
  PROVE  RecordInv'
BY NoWriteRecords DEF Fail

-----------------------------------------------------------------------------
(* Edits, reading, a crash.                                                  *)

\* An edit puts nothing in a copy that a write would have to have taken: what
\* it adds has a new number.
LEMMA EditRecords ==
  ASSUME Inv, NEW c \in Copies, NEW ch \in Chats, NEW row \in {None} \cup Held,
         EditedTo(c, ch, row)
  PROVE  RecordInv'
<1> USE DEF disk
<1>0. /\ copy'[c][ch] = row
      /\ \A d \in Copies, x \in Chats : d # c \/ x # ch => copy'[d][x] = copy[d][x]
      /\ \A d \in Copies : d # c => copy'[d] = copy[d]
      /\ UNCHANGED <<index, log, gens, base, write, stored>>
      /\ deleted \subseteq deleted' /\ edits <= edits' /\ edits' \in Nat /\ edits \in Nat
  BY DEF EditedTo, Edit, Inv, TypeOK
<1>1. /\ stored \subseteq stored' /\ DiskStored'
      /\ \A x \in Chats : Had(x)' => Had(x)
  BY <1>0, DiskStays
<1>2. \A x \in Chats : Had(x)' <=> Had(x)
  BY <1>0 DEF Had
<1>3. \A x \in Chats \ {ch} : Listing(c, x)' /\ Remembers(c, x)' /\ Kept(c, x)'
  BY <1>0, <1>1, SameKeeps
<1>4. Listing(c, ch) /\ Remembers(c, ch) /\ Kept(c, ch)
  BY DEF Inv, RecordInv
<1>5. ASSUME ~Is(ch, copy[c]), row # None
      PROVE  /\ ~Had(ch) /\ ~Is(ch, index) /\ ~Is(ch, base[c])
             /\ \A d \in Copies : ~Holds(d, ch)
  <2>1. gens[ch] = 0 /\ ch \notin deleted /\ \A d \in Copies : ~Is(ch, copy[d])
    BY <1>5 DEF EditedTo
  <2>2. ~Had(ch) /\ ~Is(ch, index) /\ ~Is(ch, base[c])
    BY <1>4, <2>1 DEF Inv, RecordInv, DiskStored, Listing
  <2>3. \A d \in Copies : Listing(d, ch)
    BY DEF Inv, RecordInv
  <2> QED
    BY <2>1, <2>2, <2>3 DEF Listing, Holds
<1>6. Is(ch, copy[c]) /\ row # None => OnlyNew(c, ch, row)
  BY DEF EditedTo
<1>7. Listing(c, ch)'
  <2>1. row = None => ch \in deleted'
    BY DEF EditedTo
  <2> QED
    BY <1>0, <1>2, <1>4, <1>5, <2>1 DEF Listing, At
<1>8. Remembers(c, ch)'
  <2>1. OwnStored(c, ch, write[c])'
    BY <1>0, <1>4, <1>5, <1>6 DEF Remembers, OwnStored, Known, Loaded, OnlyNew
  <2> QED
    BY <1>0, <1>4, <2>1 DEF Remembers, At
<1>9. write[c].upTo \in Nat /\ write[c].upTo <= edits
  BY <1>4 DEF Kept, Inv, TypeOK, Writes
<1>10. ASSUME Is(ch, copy[c]), row # None
       PROVE  LET old == copy[c][ch]  up == write[c].upTo
              IN  /\ row.title # 0 /\ row.title <= up => row.title = old.title
                  /\ Upto(row.queue, up) \subseteq Upto(old.queue, up)
                  /\ row.msgs # None => /\ Loaded(c, ch)
                                        /\ Upto(Messages(row.msgs), up)
                                             \subseteq Upto(Messages(old.msgs), up)
  <2>1. row \in Held /\ OnlyNew(c, ch, row)
    BY <1>6, <1>10
  <2>2. row.title \in Nat /\ \A n \in row.queue : n \in Nat
    BY <2>1 DEF Held
  <2>3. row.msgs # None => \A n \in Messages(row.msgs) : n \in Nat
    <3>1. row.msgs # None => row.msgs \in Seq(1..MaxEdits)
      BY <2>1 DEF Held, Histories
    <3>2. ASSUME NEW s \in Seq(1..MaxEdits), NEW n \in Messages(s) PROVE n \in Nat
      <4>1. PICK i \in 1..Len(s) : n = s[i]
        BY <3>2 DEF Messages
      <4>2. s[i] \in 1..MaxEdits /\ MaxEdits \in Nat
        BY StateStoreAssumption
      <4> QED
        BY <4>1, <4>2
    <3> QED
      BY <3>1, <3>2
  <2>4. \A n \in Nat : edits < n => ~(n <= write[c].upTo)
    BY <1>0, <1>9
  <2> QED
    BY <2>1, <2>2, <2>3, <2>4 DEF OnlyNew, Upto
<1>11. Kept(c, ch)'
  <2>1. AllStored(c, ch, write[c])'
    <3> SUFFICES ASSUME Loaded(c, ch)', Is(ch, index)',
                        write[c].pc = "later" \/ (write[c].pc = "store" /\ write[c].back = "later")
                 PROVE  AllStored(c, ch, write[c])'
      BY <1>0 DEF AllStored
    <3>1. row # None /\ row.msgs # None /\ Is(ch, copy[c])
      BY <1>0, <1>5 DEF Loaded
    <3>2. Loaded(c, ch) /\ AllStored(c, ch, write[c])
      BY <1>4, <1>10, <3>1 DEF Kept
    <3> QED
      BY <1>0, <1>10, <3>1, <3>2 DEF AllStored, Loaded
  <2>2. (write[c].upTo <= edits)'
    BY <1>0, <1>9
  <2>3. CASE row = None
    BY <1>0, <2>1, <2>2, <2>3 DEF Kept
  <2>4. CASE row # None /\ ~Is(ch, copy[c])
    <3>1. ~Had(ch)' /\ ~Is(ch, write[c].taken)
      BY <1>2, <1>5, <2>4 DEF Holds
    <3> QED
      BY <1>0, <2>1, <2>2, <3>1 DEF Kept
  <2>5. CASE row # None /\ Is(ch, copy[c])
    BY <1>0, <1>2, <1>4, <1>10, <2>1, <2>2, <2>5 DEF Kept, Loaded
  <2> QED
    BY <2>3, <2>4, <2>5
<1>12. ASSUME NEW x \in Chats, ~Had(x), Holds(c, x)'
       PROVE  Holds(c, x) \/ \A d \in Copies \ {c} : ~Holds(d, x)
  <2>1. CASE x = ch /\ ~Is(ch, copy[c]) /\ row # None
    BY <1>5, <2>1
  <2>2. CASE ~(x = ch /\ ~Is(ch, copy[c]) /\ row # None)
    BY <1>0, <1>12, <2>2 DEF Holds
  <2> QED
    BY <2>1, <2>2
<1> QED
  BY <1>0, <1>1, <1>3, <1>7, <1>8, <1>11, <1>12, OneRecords

LEMMA EditingRecords ==
  ASSUME Inv, NEW c \in Copies, Editing(c)
  PROVE  RecordInv'
<1>1. PICK ch \in Chats, row \in {None} \cup Held : EditedTo(c, ch, row)
  BY EditingIs DEF Inv
<1> QED
  BY <1>1, EditRecords

\* What a copy reads was stored, and is its base.
LEMMA ReadLogsRecords ==
  ASSUME Inv, TypeOK', NEW c \in Copies, ReadLogs(c)
  PROVE  RecordInv'
<1> USE DEF disk
<1>0. /\ write[c].pc = "opening" /\ write'[c] = NoWrite
      /\ \A d \in Copies \ {c} :
           copy'[d] = copy[d] /\ base'[d] = base[d] /\ write'[d] = write[d]
      /\ UNCHANGED <<index, log, gens, stored, edits, deleted>>
      /\ edits \in Nat
  BY DEF ReadLogs, At, Goto, Inv, TypeOK, history
<1>1. /\ stored \subseteq stored' /\ DiskStored'
      /\ \A ch \in Chats : Had(ch)' => Had(ch)
  BY <1>0, DiskStays
<1>2. NoWrite.pc = "idle" /\ NoWrite.taken = NoChats /\ NoWrite.upTo = 0
  BY DEF NoWrite
<1>3. ASSUME NEW ch \in Chats
      PROVE  /\ Listing(c, ch)' /\ Remembers(c, ch)' /\ Kept(c, ch)'
             /\ Holds(c, ch)' => Had(ch)
  <2> DEFINE next == write[c].next[ch]
  <2>1. /\ base'[c][ch] = IF next # None THEN AsRead(next, log[ch]) ELSE None
        /\ Is(ch, copy'[c]) <=> Is(ch, base'[c])
        /\ Is(ch, copy'[c]) => copy'[c][ch].msgs = base'[c][ch].msgs
    <3>1. /\ base'[c][ch] = IF next # None THEN AsRead(next, log[ch]) ELSE None
          /\ copy'[c][ch] = IF Is(ch, base'[c]) THEN [base'[c][ch] EXCEPT !.at = Nowhere]
                                                ELSE None
      BY DEF ReadLogs, Inv, TypeOK
    <3>2. base'[c][ch] \in {None} \cup Held /\ copy'[c][ch] \in {None} \cup Held
      BY DEF TypeOK
    <3>3. Is(ch, base'[c]) => [base'[c][ch] EXCEPT !.at = Nowhere] # None
      <4>1. Nowhere \in Spots
        BY DEF Nowhere, Spots
      <4>2. \A held \in Held : [held EXCEPT !.at = Nowhere] \in Held
        BY <4>1 DEF Held
      <4> QED
        BY <3>2, <4>2, StateStoreAssumption
    <3>4. Is(ch, base'[c]) => [base'[c][ch] EXCEPT !.at = Nowhere].msgs = base'[c][ch].msgs
      BY <3>2 DEF Held
    <3> QED
      BY <3>1, <3>3, <3>4
  <2>2. next # None => Had(ch) /\ RowIn(ch, next, stored)
    BY <1>0 DEF Inv, RecordInv, Listing, At
  <2>3. Is(ch, base'[c]) => Had(ch)
    BY <2>1, <2>2
  <2>4. ~Is(ch, write'[c].taken) /\ write'[c].pc = "idle" /\ write'[c].upTo = 0
    BY <1>0, <1>2 DEF NoChats
  <2>5. Had(ch)' <=> Had(ch)
    BY <1>0 DEF Had
  <2>6. Listing(c, ch)'
    BY <2>1, <2>3, <2>4, <2>5 DEF Listing, At
  <2>7. Is(ch, base'[c]) /\ Is(ch, index)' => HeldIn(ch, base'[c][ch], stored')
    <3> SUFFICES ASSUME Is(ch, base'[c]), Is(ch, index)
                 PROVE  HeldIn(ch, base'[c][ch], stored)
      BY <1>0
    <3>1. base'[c][ch] = AsRead(next, log[ch]) /\ RowIn(ch, next, stored)
      BY <2>1, <2>2
    <3>2. log[ch] # None /\ SaidIn(ch, log[ch].msgs, stored)
      BY DEF Inv, StoreInv, FilesFirst, ListedIsReadable, RecordInv, DiskStored
    <3> QED
      BY <3>1, <3>2 DEF AsRead, HeldIn, RowIn
  <2>8. Remembers(c, ch)'
    BY <2>4, <2>7 DEF Remembers, OwnStored, At
  <2>9. Kept(c, ch)'
    BY <1>0, <2>4 DEF Kept, AllStored
  <2> QED
    BY <2>1, <2>3, <2>4, <2>6, <2>8, <2>9 DEF Holds
<1>4. edits <= edits' /\ edits' \in Nat /\ deleted \subseteq deleted'
  BY <1>0
<1> QED
  BY <1>0, <1>1, <1>3, <1>4, OneRecords

\* A process dies: only a record that is not read is left of what it did.
LEMMA CrashRecords ==
  ASSUME Inv, NEW c \in Copies, Crash(c)
  PROVE  RecordInv'
<1> USE DEF disk
<1>0. /\ write'[c] = Closed /\ copy'[c] = NoChats /\ base'[c] = NoChats
      /\ \A d \in Copies \ {c} :
           copy'[d] = copy[d] /\ base'[d] = base[d] /\ write'[d] = write[d]
      /\ UNCHANGED <<index, gens, stored, edits, deleted>>
      /\ edits \in Nat /\ edits <= edits' /\ edits' \in Nat /\ deleted \subseteq deleted'
  BY DEF Crash, At, Goto, Inv, TypeOK
<1>1. \A ch \in Chats : Is(ch, log) => Is(ch, log)' /\ log'[ch].msgs = log[ch].msgs
  BY TornIs DEF Inv
<1>2. /\ stored \subseteq stored' /\ DiskStored'
      /\ \A ch \in Chats : Had(ch)' => Had(ch)
  <2>1. \A ch \in Chats : Is(ch, index) => Is(ch, log)
    BY DEF Inv, StoreInv, FilesFirst, ListedIsReadable
  <2> QED
    BY <1>0, <1>1, <2>1, DiskStays
<1>3. Closed.pc = "closed" /\ Closed.taken = NoChats /\ Closed.upTo = 0
  BY DEF Closed, NoWrite
<1>4. ASSUME NEW ch \in Chats
      PROVE  /\ Listing(c, ch)' /\ Remembers(c, ch)' /\ Kept(c, ch)'
             /\ ~Holds(c, ch)'
  <2>1. /\ ~Is(ch, copy'[c]) /\ ~Is(ch, base'[c]) /\ ~Is(ch, write'[c].taken)
        /\ write'[c].pc = "closed" /\ write'[c].upTo = 0
    BY <1>0, <1>3 DEF NoChats
  <2>2. Listing(c, ch)'
    BY <2>1 DEF Listing, At
  <2>3. Remembers(c, ch)'
    BY <2>1 DEF Remembers, OwnStored, At
  <2>4. Kept(c, ch)'
    BY <1>0, <2>1 DEF Kept, AllStored
  <2> QED
    BY <2>1, <2>2, <2>3, <2>4 DEF Holds
<1> QED
  BY <1>0, <1>1, <1>2, <1>4, OneRecords

-----------------------------------------------------------------------------
(* Storing transcripts.                                                      *)

\* What is stored of a copy is in the log then, or was in the history it
\* started from; and all of it is in the log, if that is what it started from,
\* or there was none.
LEMMA PutHolds ==
  ASSUME TypeOK, NEW ch \in Chats, NEW b, b.msgs \in Histories, b.at \in Spots,
         NEW next \in Histories, Put(ch, Out(ch, b, next))
  PROVE  /\ Messages(next) \subseteq Messages(b.msgs) \cup Messages(log'[ch].msgs)
         /\ ~Is(ch, log) \/ (log[ch].msgs = b.msgs /\ b.at = Nowhere)
              => Messages(next) \subseteq Messages(log'[ch].msgs)
<1>1. log'[ch] = Out(ch, b, next).log
  BY DEF Put, TypeOK
<1>2. CASE Is(ch, log)
  <2>1. NextGen(ch) \in Nat \ {0}
    BY DEF TypeOK, NextGen
  <2>2. log[ch] \in Logs(1..MaxEdits)
    BY <1>2 DEF TypeOK
  <2>3. log'[ch] = StoreTranscript(log[ch], b, next, NextGen(ch)).log
    BY <1>1, <1>2 DEF Out
  <2> QED
    BY <1>2, <2>1, <2>2, <2>3, StoreHoldsNext DEF Histories
<1>3. CASE ~Is(ch, log)
  <2>1. log'[ch].msgs = next
    BY <1>1, <1>3 DEF Out, FirstStored, Rewritten
  <2> QED
    BY <2>1
<1> QED
  BY <1>2, <1>3

\* What the base moves to was stored with it, or before.
LEMMA StoredRecords ==
  ASSUME Inv, TypeOK', StoreInv', NEW c \in Copies, NEW ch \in Chats,
         NEW msgs \in Histories, NEW w \in Writes,
         Is(ch, base[c]), base[c][ch].msgs \in Histories,
         Put(ch, Out(ch, base[c][ch], msgs)),
         Moved(c, ch, msgs, Out(ch, base[c][ch], msgs).at),
         Goto(c, w), UNCHANGED <<index, copy, edits, deleted>>, Recorded,
         w.taken = write[c].taken, w.upTo = write[c].upTo, w.todo = write[c].todo,
         \/ /\ write[c].pc = "store" /\ ch = write[c].chat /\ msgs = write[c].now
            /\ w.pc = write[c].back /\ w.later = write[c].later
            /\ w.own = IF write[c].back = "own" THEN write[c].own \cup {ch}
                                                ELSE write[c].own
         \/ /\ write[c].pc = "later" /\ w.pc = "later" /\ ~Is(ch, index)
            /\ w.later = write[c].later \ {ch}
  PROVE  RecordInv'
<1>0. /\ write'[c] = w /\ w.pc \in {"idle", "own", "later"}
      /\ \A d \in Copies \ {c} : write'[d] = write[d]
      /\ edits \in Nat /\ edits <= edits' /\ edits' \in Nat
      /\ deleted \subseteq deleted'
  BY DEF Goto, Inv, TypeOK, Writes
<1>1. base[c][ch] \in Held /\ base[c][ch].at \in Spots
  BY DEF Inv, TypeOK, Held
<1>2. /\ Out(ch, base[c][ch], msgs).log \in Logs(1..MaxEdits)
      /\ Out(ch, base[c][ch], msgs).at \in Spots
  BY <1>1, OutIsLog DEF Inv
<1>3. /\ base'[c][ch].title = base[c][ch].title
      /\ base'[c][ch].queue = base[c][ch].queue /\ base'[c][ch].msgs = msgs
      /\ \A d \in Copies, x \in Chats : d # c \/ x # ch => base'[d][x] = base[d][x]
      /\ base'[c][ch] \in Held
  BY <1>2, MovedIs DEF Inv, TypeOK
<1>4. \A d \in Copies \ {c} : base'[d] = base[d]
  BY DEF Moved, Inv, TypeOK
<1>5. \A x \in Chats : Is(x, base'[c]) <=> Is(x, base[c])
  BY <1>3, StateStoreAssumption
<1>6. /\ \A x \in Chats : gens'[x] = 0 => gens[x] = 0
      /\ \A x \in Chats : x # ch => log'[x] = log[x]
  BY <1>2, PutKeeps DEF Inv, Put
<1>7. /\ stored \subseteq stored' /\ DiskStored'
      /\ \A x \in Chats : Had(x)' => Had(x) \/ Is(x, index)'
  BY <1>6, RecordedIs DEF Inv
<1>8. \A x \in Chats : Had(x)' <=> Had(x)
  BY <1>7 DEF Inv, RecordInv, DiskStored, Had
<1>9. Had(ch)
  BY DEF Inv, RecordInv, Listing
<1>10. ASSUME NEW d \in Copies \ {c}, NEW x \in Chats,
              At(d, "files"), Is(x, write[d].taken), ~Is(x, base[d])
       PROVE  log'[x] = log[x]
  <2>1. x # ch
    BY <1>9, <1>10 DEF Inv, RecordInv, Listing
  <2> QED
    BY <1>6, <2>1
<1>11. /\ \A row : \A x : RowIn(x, row, stored) => RowIn(x, row, stored')
       /\ \A row : \A x : HeldIn(x, row, stored) => HeldIn(x, row, stored')
       /\ \A n : \A x : Item(x, "message", n) \in stored => Item(x, "message", n) \in stored'
  BY <1>7, StoredGrows
\* What was stored now, if the chat is listed, a reader finds.
<1>12. Is(ch, index) => SaidIn(ch, msgs, stored')
  <2> SUFFICES ASSUME Is(ch, index) PROVE SaidIn(ch, msgs, stored')
    OBVIOUS
  <2>1. Messages(msgs) \subseteq Messages(base[c][ch].msgs) \cup Messages(log'[ch].msgs)
    BY <1>1, PutHolds DEF Inv
  <2>2. SaidIn(ch, log'[ch].msgs, stored')
    BY <1>7 DEF DiskStored
  <2>3. SaidIn(ch, base[c][ch].msgs, stored)
    <3>1. base[c][ch].msgs # None
      BY StateStoreAssumption
    <3> QED
      BY <3>1 DEF Inv, RecordInv, Remembers, HeldIn
  <2> QED
    BY <1>7, <2>1, <2>2, <2>3 DEF SaidIn
<1>13. ASSUME NEW x \in Chats
       PROVE  Listing(c, x)' /\ Remembers(c, x)' /\ Kept(c, x)'
  <2>0. /\ Listing(c, x) /\ Remembers(c, x) /\ Kept(c, x)
        /\ ~Is(x, write[c].taken) /\ ~Is(x, w.taken)
    BY <1>0 DEF Inv, RecordInv, OwedInv, LetGoOf
  <2>1. Listing(c, x)'
    BY <1>0, <1>5, <1>8, <2>0 DEF Listing, At
  <2>2. Is(x, base'[c]) /\ Is(x, index)' => HeldIn(x, base'[c][x], stored')
    <3>1. CASE x = ch
      BY <1>3, <1>7, <1>12, <2>0, <3>1 DEF Remembers, HeldIn, RowIn
    <3>2. CASE x # ch
      BY <1>3, <1>11, <2>0, <3>2 DEF Remembers
    <3> QED
      BY <3>1, <3>2
  <2>3. OwnStored(c, x, write[c])'
    BY <1>0, <1>5, <2>0 DEF Remembers, OwnStored, Known, Loaded
  <2>4. Remembers(c, x)'
    BY <1>0, <2>0, <2>2, <2>3 DEF Remembers, At
  <2>5. AllStored(c, x, write[c])'
    <3> SUFFICES ASSUME w.pc = "later", Loaded(c, x), Is(x, index)
                 PROVE  AllStored(c, x, write[c])'
      BY <1>0 DEF AllStored, Loaded
    <3> DEFINE row == copy[c][x]
               said == Upto(Messages(row.msgs), w.upTo)
    <3>1. /\ row.title # 0 /\ row.title <= w.upTo => Item(x, "title", row.title) \in stored
          /\ \A n \in Upto(row.queue, w.upTo) : Item(x, "queued", n) \in stored
          /\ \/ x \in write[c].later
             \/ \A n \in said : Item(x, "message", n) \in stored
             \/ write[c].pc = "store" /\ x = ch /\ said \subseteq Messages(msgs)
      BY <2>0 DEF Kept, AllStored
    <3>2. x \in w.later \/ \A n \in said : Item(x, "message", n) \in stored'
      <4>1. CASE x \in write[c].later
        BY <4>1
      <4>2. CASE \A n \in said : Item(x, "message", n) \in stored
        BY <1>7, <4>2
      <4>3. CASE x = ch /\ said \subseteq Messages(msgs)
        BY <1>12, <4>3 DEF SaidIn
      <4> QED
        BY <3>1, <4>1, <4>2, <4>3
    <3> QED
      BY <1>0, <1>7, <3>1, <3>2 DEF AllStored
  <2>6. Kept(c, x)'
    BY <1>0, <2>0, <2>5 DEF Kept
  <2> QED
    BY <2>1, <2>4, <2>6
<1>14. \A x \in Chats : Holds(c, x)' => Holds(c, x)
  BY <1>0 DEF Holds
<1> QED
  BY <1>0, <1>4, <1>7, <1>8, <1>10, <1>13, <1>14, OneRecords

LEMMA StoreOwnRecords ==
  ASSUME Inv, TypeOK', StoreInv', NEW c \in Copies, StoreOwn(c)
  PROVE  RecordInv'
<1> DEFINE w == write[c]
           ch == w.chat
           v == [w EXCEPT !.pc = w.back, !.chat = None, !.now = <<>>, !.back = "idle",
                          !.own = IF w.back = "own" THEN @ \cup {w.chat} ELSE @]
           out == Out(ch, base[c][ch], w.now)
<1>1. /\ w.pc = "store" /\ w \in Writes /\ ch \in Chats /\ Is(ch, base[c])
      /\ base[c][ch].msgs \in Histories /\ w.now \in Histories
  BY DEF StoreOwn, At, Inv, TypeOK, StoreInv, StoresHistories, Writes
<1>2. /\ v \in Writes /\ v.pc = w.back /\ v.taken = w.taken /\ v.upTo = w.upTo
      /\ v.todo = w.todo /\ v.later = w.later
      /\ v.own = IF w.back = "own" THEN w.own \cup {ch} ELSE w.own
  <2>1. w.own \cup {ch} \in SUBSET Chats /\ <<>> \in Histories
    BY <1>1 DEF Writes, Histories
  <2> HIDE DEF w
  <2>2. ch = w.chat
    OBVIOUS
  <2> HIDE DEF ch
  <2> QED
    BY <1>1, <2>1, <2>2 DEF Writes
<1>3. /\ Put(ch, out) /\ Moved(c, ch, w.now, out.at)
      /\ Goto(c, v) /\ UNCHANGED <<index, copy, edits, deleted>> /\ Recorded
  BY DEF StoreOwn
<1> HIDE DEF ch, v
<1> QED
  BY <1>1, <1>2, <1>3, StoredRecords DEF ch

\* A transcript left for later is stored, unless its copy has what its base
\* has, which was stored, or a copy has nothing to store of it.
LEMMA LaterRecords ==
  ASSUME Inv, TypeOK', StoreInv', NEW c \in Copies, Later(c)
  PROVE  RecordInv'
<1>1. PICK ch \in write[c].later :
        LET w == [write[c] EXCEPT !.later = @ \ {ch}]
            out == Out(ch, base[c][ch], copy[c][ch].msgs)
        IN  \/ /\ ~Changed(c, ch)
               /\ Goto(c, w)
               /\ UNCHANGED <<disk, locks, copy, base, edits, bounds, history>>
            \/ /\ Changed(c, ch) /\ Is(ch, index)
               /\ TakeChat(c, ch, w, "later")
            \/ /\ Changed(c, ch) /\ ~Is(ch, index)
               /\ stateLock = None /\ chatLock[ch] = None
               /\ Put(ch, out) /\ Moved(c, ch, copy[c][ch].msgs, out.at)
               /\ Goto(c, w)
               /\ UNCHANGED <<index, locks, copy, edits, bounds, made, dropped,
                              deleted, littered>>
               /\ Recorded
  BY DEF Later
<1> DEFINE w == [write[c] EXCEPT !.later = @ \ {ch}]
           out == Out(ch, base[c][ch], copy[c][ch].msgs)
<1>2. write[c] \in Writes /\ write[c].pc = "later"
  BY DEF Inv, TypeOK, Later, At
<1>3. /\ ch \in Chats /\ w \in Writes /\ w.pc = "later" /\ w.taken = write[c].taken
      /\ w.upTo = write[c].upTo /\ w.todo = write[c].todo /\ w.own = write[c].own
      /\ w.later = write[c].later \ {ch}
  BY <1>2 DEF Writes
<1>4. CASE ~Changed(c, ch) /\ Goto(c, w)
           /\ UNCHANGED <<disk, copy, base, edits, stored, deleted>>
  <2> HIDE DEF w
  <2>1. \A x \in Chats : ~Is(x, w.taken)
    BY <1>2, <1>3 DEF Inv, OwedInv, LetGoOf
  <2>2. ASSUME NEW x \in Chats
        PROVE  OwnStored(c, x, w) /\ AllStored(c, x, w) /\ w.upTo <= edits
    <3>1. Listing(c, x) /\ Remembers(c, x) /\ Kept(c, x) /\ DiskStored
      BY DEF Inv, RecordInv
    <3>2. OwnStored(c, x, w)
      BY <1>3 DEF OwnStored
    <3>3. CASE x # ch
      BY <1>2, <1>3, <3>1, <3>2, <3>3 DEF Kept, AllStored
    <3>4. CASE x = ch
      <4>1. ASSUME Loaded(c, x), Is(x, index)
            PROVE  SaidIn(x, copy[c][x].msgs, stored)
        <5>1. Is(x, base[c])
          BY <1>2, <3>1, <4>1 DEF Listing, DiskStored, Loaded, At
        <5>2. copy[c][x].msgs = base[c][x].msgs
          BY <1>4, <3>4, <4>1, <5>1 DEF Changed, Known, Loaded
        <5> QED
          BY <3>1, <4>1, <5>1, <5>2 DEF Remembers, HeldIn, Loaded
      <4> QED
        BY <1>2, <1>3, <3>1, <3>2, <4>1 DEF Kept, AllStored, SaidIn, Upto
    <3> QED
      BY <3>3, <3>4
  <2> QED
    BY <1>2, <1>3, <1>4, <2>1, <2>2, GotoRecords
<1>5. CASE Changed(c, ch) /\ TakeChat(c, ch, w, "later")
  <2> HIDE DEF w
  <2> QED
    BY <1>2, <1>3, <1>5, TakeChatRecords
<1>6. CASE /\ Changed(c, ch) /\ ~Is(ch, index)
           /\ Put(ch, out) /\ Moved(c, ch, copy[c][ch].msgs, out.at)
           /\ Goto(c, w) /\ UNCHANGED <<index, copy, edits, deleted>> /\ Recorded
  <2>1. Is(ch, base[c]) /\ base[c][ch].msgs \in Histories /\ copy[c][ch].msgs \in Histories
    BY <1>3, <1>6, ChangedHasBoth DEF Inv
  <2> HIDE DEF w
  <2> QED
    BY <1>2, <1>3, <1>6, <2>1, StoredRecords
<1> QED
  BY <1>1, <1>4, <1>5, <1>6 DEF history

\* A transcript stored before its chat is listed is all in its log.
LEMMA StoreFileRecords ==
  ASSUME Inv, TypeOK', StoreInv', NEW c \in Copies, StoreFile(c)
  PROVE  RecordInv'
<1>1. PICK ch \in Chats : FileStored(c, ch)
  BY StoreFileIs DEF Inv
<1>2. /\ write[c].pc = "files" /\ write'[c].pc = "files"
      /\ UNCHANGED <<index, copy, base, edits, deleted>>
      /\ write'[c].next = write[c].next /\ write'[c].files = write[c].files \ {ch}
      /\ write'[c].later = write[c].later /\ write'[c].upTo = write[c].upTo
      /\ \A d \in Copies : d # c => write'[d] = write[d]
      /\ \A x \in Chats : x # ch => log'[x] = log[x] /\ gens'[x] = gens[x]
      /\ gens'[ch] # 0 /\ Is(ch, log)'
  BY <1>1 DEF FileStored
<1>3. \A x \in Chats :
        /\ Is(x, write'[c].taken) <=> Is(x, write[c].taken)
        /\ Is(x, write[c].taken) =>
             /\ write'[c].taken[x].title = write[c].taken[x].title
             /\ write'[c].taken[x].queue = write[c].taken[x].queue
             /\ write'[c].taken[x].msgs = write[c].taken[x].msgs
  BY <1>1 DEF FileStored
<1>4. Messages(write[c].taken[ch].msgs) \subseteq Messages(log'[ch].msgs)
  <2>1. LogNow(ch).msgs \in Histories /\ LogNow(ch).at = Nowhere /\ Nowhere \in Spots
    <3>1. Is(ch, log) => log[ch].msgs \in Histories
      BY DEF Inv, TypeOK, Logs, Histories
    <3>2. <<>> \in Histories
      BY DEF Histories
    <3>3. Nowhere \in Spots
      BY DEF Nowhere, Spots
    <3> QED
      BY <3>1, <3>2, <3>3 DEF LogNow
  <2>2. Is(ch, log) => log[ch].msgs = LogNow(ch).msgs
    BY DEF LogNow
  <2>3. /\ write[c].taken[ch].msgs \in Histories
        /\ Put(ch, Out(ch, LogNow(ch), write[c].taken[ch].msgs))
    BY <1>1 DEF FileStored
  <2> QED
    BY <2>1, <2>2, <2>3, PutHolds DEF Inv
<1>5. /\ stored \subseteq stored' /\ DiskStored'
      /\ \A x \in Chats : Had(x)' => Had(x) \/ Is(x, index)'
  <2>1. Recorded
    BY DEF StoreFile
  <2> QED
    BY <1>2, <2>1, RecordedIs DEF Inv
<1>6. \A x \in Chats : Had(x)' <=> Had(x)
  BY <1>2, <1>5 DEF Inv, RecordInv, DiskStored, Had
<1>7. \A d \in Copies \ {c} : write[d].pc # "files"
  BY <1>2, OneStores DEF Inv
<1>8. ASSUME NEW x \in Chats
      PROVE  Listing(c, x)' /\ Remembers(c, x)' /\ Kept(c, x)'
  <2>0. Listing(c, x) /\ Remembers(c, x) /\ Kept(c, x)
    BY DEF Inv, RecordInv
  <2>1. Listing(c, x)'
    BY <1>2, <1>3, <1>6, <2>0 DEF Listing, At
  <2>2. Is(x, base[c]) /\ Is(x, index) => HeldIn(x, base[c][x], stored')
    BY <1>5, <2>0, StoredGrows DEF Remembers
  <2>3. ASSUME Is(x, write[c].taken), Is(x, write[c].next)
        PROVE  /\ RowNext(x, write'[c].taken[x], write[c].next[x], stored')
               /\ Is(x, base[c]) /\ write[c].taken[x].msgs # None
                    => SaidIn(x, write[c].taken[x].msgs, stored')
               /\ ~Is(x, base[c]) /\ x \notin write'[c].files =>
                    /\ Is(x, log)'
                    /\ Messages(write[c].taken[x].msgs) \subseteq Messages(log'[x].msgs)
    <3>1. RowNext(x, write[c].taken[x], write[c].next[x], stored')
          /\ (Is(x, base[c]) /\ write[c].taken[x].msgs # None
                => SaidIn(x, write[c].taken[x].msgs, stored'))
      BY <1>2, <1>5, <2>0, <2>3, StoredGrows DEF Remembers, At
    <3>2. RowNext(x, write'[c].taken[x], write[c].next[x], stored')
      BY <1>3, <2>3, <3>1 DEF RowNext
    <3>3. ASSUME ~Is(x, base[c]), x \notin write'[c].files
          PROVE  /\ Is(x, log)'
                 /\ Messages(write[c].taken[x].msgs) \subseteq Messages(log'[x].msgs)
      BY <1>2, <1>4, <2>0, <2>3, <3>3 DEF Remembers, At
    <3> QED
      BY <3>1, <3>2, <3>3
  <2>4. Remembers(c, x)'
    BY <1>2, <1>3, <2>2, <2>3 DEF Remembers, OwnStored, At
  <2>5. Kept(c, x)'
    BY <1>2, <1>3, <1>6, <2>0 DEF Kept, AllStored, Loaded
  <2> QED
    BY <2>1, <2>4, <2>5
<1>9. \A x \in Chats : Holds(c, x)' => Holds(c, x)
  BY <1>2, <1>3 DEF Holds
<1>10. edits \in Nat /\ edits <= edits' /\ edits' \in Nat /\ deleted \subseteq deleted'
  BY <1>2 DEF Inv, TypeOK
<1> QED
  BY <1>2, <1>5, <1>6, <1>7, <1>8, <1>9, <1>10, OneRecords DEF At

-----------------------------------------------------------------------------
(* Storing the index.                                                        *)

\* What a write takes of a chat is what the copy has, but for messages it will
\* store later or that are the base's.
LEMMA TakenIs ==
  ASSUME TypeOK, NEW c \in Copies, NEW later, NEW ch \in Chats, Is(ch, copy[c])
  PROVE  LET row == Snapshot(c, later)[ch]
         IN  /\ row # None
             /\ row.title = copy[c][ch].title /\ row.queue = copy[c][ch].queue
             /\ row.msgs = IF Is(ch, base[c]) /\ (ch \in later \/ ~Changed(c, ch))
                             THEN base[c][ch].msgs ELSE copy[c][ch].msgs
<1> DEFINE row == [copy[c][ch] EXCEPT !.msgs = base[c][ch].msgs, !.at = base[c][ch].at]
<1>1. base[c][ch] \in {None} \cup Held /\ copy[c][ch] \in Held
  BY DEF TypeOK
<1>2. CASE ~(Is(ch, base[c]) /\ (ch \in later \/ ~Changed(c, ch)))
  BY <1>2 DEF Snapshot
<1>3. CASE Is(ch, base[c]) /\ (ch \in later \/ ~Changed(c, ch))
  <2>1. Snapshot(c, later)[ch] = row
    BY <1>3 DEF Snapshot
  <2>2. /\ row \in Held /\ row.msgs = base[c][ch].msgs
        /\ row.title = copy[c][ch].title /\ row.queue = copy[c][ch].queue
    BY <1>1, <1>3 DEF Held
  <2> HIDE DEF row
  <2> QED
    BY <1>3, <2>1, <2>2, StateStoreAssumption
<1> QED
  BY <1>2, <1>3

\* What a merge lists of a chat (mergeById, mergeFields, mergeQueuedTurns).
LEMMA ListedIs ==
  ASSUME TypeOK, NEW c \in Copies, NEW ch \in Chats,
         NEW next, next = MergedRow(base[c][ch], copy[c][ch], index[ch])
  PROVE  /\ ~Is(ch, base[c]) /\ ~Is(ch, copy[c]) => next = index[ch]
         /\ ~Is(ch, base[c]) /\ Is(ch, copy[c]) =>
              next # None /\ next.title = copy[c][ch].title /\ next.queue = copy[c][ch].queue
         /\ Is(ch, base[c]) /\ next # None =>
              /\ Is(ch, copy[c]) /\ Is(ch, index)
              /\ next.title = copy[c][ch].title \/ copy[c][ch].title = base[c][ch].title
              /\ copy[c][ch].queue \ base[c][ch].queue \subseteq next.queue
<1>1. CASE ~Is(ch, base[c]) /\ ~Is(ch, copy[c])
  BY <1>1 DEF MergedRow
<1>2. CASE ~Is(ch, base[c]) /\ Is(ch, copy[c])
  <2>1. next = [title |-> copy[c][ch].title, queue |-> copy[c][ch].queue]
    BY <1>2 DEF MergedRow
  <2>2. next \in Rows
    BY <1>2, <2>1 DEF TypeOK, Held, Rows
  <2> QED
    BY <1>2, <2>1, <2>2, StateStoreAssumption
<1>3. CASE Is(ch, base[c])
  <2>1. next # None => Is(ch, copy[c]) /\ Is(ch, index)
    BY <1>3 DEF MergedRow
  <2>2. ASSUME next # None
        PROVE  next = [title |-> IF copy[c][ch].title # base[c][ch].title
                                   THEN copy[c][ch].title ELSE index[ch].title,
                       queue |-> (index[ch].queue \ (base[c][ch].queue \ copy[c][ch].queue))
                                   \cup (copy[c][ch].queue \ base[c][ch].queue)]
    BY <1>3, <2>2 DEF MergedRow
  <2> QED
    BY <1>3, <2>1, <2>2
<1> QED
  BY <1>1, <1>2, <1>3

\* Under the state lock: what is taken is what the copy has; what it will be
\* remembered to have stored of a listed chat, it has, or the index will have.
LEMMA TakeStateRecords ==
  ASSUME Inv, NEW c \in Copies, TakeState(c)
  PROVE  RecordInv'
<1> USE DEF disk
<1> DEFINE w == write[c]
           next == [ch \in Chats |-> MergedRow(base[c][ch], copy[c][ch], index[ch])]
           later == {ch \in w.own : Is(ch, index) /\ Changed(c, ch)}
           taken == Snapshot(c, later)
           files == {ch \in Chats : Is(ch, copy[c]) /\ ~Is(ch, base[c])}
           doomed == {ch \in Chats : Is(ch, base[c]) /\ next[ch] = None}
           v == [w EXCEPT !.pc = "files", !.own = {}, !.later = later, !.upTo = edits,
                          !.next = next, !.taken = taken, !.files = files,
                          !.doomed = doomed]
<1>1. /\ w \in Writes /\ w.pc = "own" /\ w.todo = {} /\ Goto(c, v)
      /\ UNCHANGED <<index, log, gens, copy, base, edits, stored, deleted>>
  BY DEF TakeState, Inv, TypeOK, At, history
<1>2. /\ v.pc = "files" /\ v.later = later /\ v.upTo = edits /\ v.next = next
      /\ v.taken = taken /\ v.files = files
  <2> HIDE DEF w, next, later, taken, files, doomed
  <2> QED
    BY <1>1 DEF Writes
<1>3. write'[c] = v /\ \A d \in Copies \ {c} : write'[d] = write[d]
  BY <1>1 DEF Inv, TypeOK, Goto
<1> HIDE DEF v
<1>4. /\ stored \subseteq stored' /\ DiskStored'
      /\ \A x \in Chats : Had(x)' => Had(x)
  BY <1>1, DiskStays
<1>5. \A x \in Chats : Had(x)' <=> Had(x)
  BY <1>1 DEF Had
<1>6. ASSUME NEW x \in Chats
      PROVE  /\ Listing(c, x)' /\ Remembers(c, x)' /\ Kept(c, x)'
             /\ Holds(c, x)' => Holds(c, x)
  <2> DEFINE mine == copy[c][x]
  <2>0. Listing(c, x) /\ Remembers(c, x) /\ Kept(c, x) /\ w.pc = "own" /\ TypeOK
    BY <1>1 DEF Inv, RecordInv
  <2>1. /\ Is(x, taken) <=> Is(x, copy[c])
        /\ Is(x, copy[c]) =>
             /\ taken[x].title = mine.title /\ taken[x].queue = mine.queue
             /\ taken[x].msgs = IF Is(x, base[c]) /\ (x \in later \/ ~Changed(c, x))
                                  THEN base[c][x].msgs ELSE mine.msgs
    <3>1. CASE Is(x, copy[c])
      <4> HIDE DEF later
      <4> QED
        BY <2>0, <3>1, TakenIs
    <3>2. CASE ~Is(x, copy[c])
      <4>1. taken[x] = None
        BY <3>2 DEF Snapshot
      <4> QED
        BY <3>2, <4>1
    <3> QED
      BY <3>1, <3>2
  <2>2. /\ ~Is(x, base[c]) /\ ~Is(x, copy[c]) => next[x] = index[x]
        /\ ~Is(x, base[c]) /\ Is(x, copy[c]) =>
             Is(x, next) /\ next[x].title = mine.title /\ next[x].queue = mine.queue
        /\ Is(x, base[c]) /\ Is(x, next) =>
             /\ Is(x, copy[c]) /\ Is(x, index)
             /\ next[x].title = mine.title \/ mine.title = base[c][x].title
             /\ mine.queue \ base[c][x].queue \subseteq next[x].queue
    BY <2>0, ListedIs
  <2>3. Is(x, copy[c]) /\ ~Is(x, base[c]) => ~Had(x)
    BY <2>0 DEF Listing, At
  <2>4. x \in files <=> Is(x, copy[c]) /\ ~Is(x, base[c])
    OBVIOUS
  \* A transcript it would remember and did not store is left for later.
  <2>5. ASSUME Is(x, base[c]), Is(x, index), Is(x, copy[c]), taken[x].msgs # None
        PROVE  SaidIn(x, taken[x].msgs, stored)
    <3>1. HeldIn(x, base[c][x], stored)
      BY <2>0, <2>5 DEF Remembers
    <3>2. CASE taken[x].msgs = base[c][x].msgs
      BY <2>5, <3>1, <3>2 DEF HeldIn
    <3>3. CASE taken[x].msgs # base[c][x].msgs
      <4>1. taken[x].msgs = mine.msgs /\ x \notin later /\ Changed(c, x)
        BY <2>1, <2>5, <3>3
      <4>2. x \in w.own
        BY <1>1, <2>0, <2>5, <4>1 DEF Remembers, OwnStored, Known, Loaded
      <4> QED
        BY <2>5, <4>1, <4>2
    <3> QED
      BY <3>2, <3>3
  <2>7. ASSUME Loaded(c, x), x \notin later PROVE taken[x].msgs = mine.msgs
    BY <2>1, <2>7 DEF Loaded, Changed, Known
  <2> HIDE DEF w, next, later, taken, files, doomed
  <2>8. Listing(c, x)'
    BY <1>1, <1>2, <1>3, <1>5, <2>0, <2>1, <2>2, <2>3 DEF Listing, At
  <2>9. ASSUME Is(x, taken), Is(x, next) PROVE RowNext(x, taken[x], next[x], stored)
    <3>1. Is(x, copy[c]) /\ taken[x].title = mine.title /\ taken[x].queue = mine.queue
      BY <2>1, <2>9
    <3>2. CASE ~Is(x, base[c])
      BY <2>2, <3>1, <3>2 DEF RowNext
    <3>3. CASE Is(x, base[c])
      <4>1. RowIn(x, base[c][x], stored)
        BY <2>0, <2>2, <2>9, <3>3 DEF Remembers, HeldIn
      <4> QED
        BY <2>2, <2>9, <3>1, <3>3, <4>1 DEF RowNext, RowIn
    <3> QED
      BY <3>2, <3>3
  <2>10. Remembers(c, x)'
    <3>1. Is(x, base'[c]) /\ Is(x, index)' => HeldIn(x, base'[c][x], stored')
      BY <1>1, <2>0 DEF Remembers
    <3>2. OwnStored(c, x, write[c])'
      BY <1>2, <1>3 DEF OwnStored
    <3> QED
      BY <1>1, <1>2, <1>3, <2>1, <2>2, <2>4, <2>5, <2>9, <3>1, <3>2 DEF Remembers, At
  <2>11. Kept(c, x)'
    <3>1. AllStored(c, x, write[c])'
      BY <1>2, <1>3 DEF AllStored
    <3>2. (write[c].upTo <= edits)'
      BY <1>1, <1>2, <1>3 DEF Inv, TypeOK
    <3>3. Loaded(c, x)' <=> Loaded(c, x)
      BY <1>1 DEF Loaded
    <3> QED
      BY <1>1, <1>2, <1>3, <2>1, <2>7, <3>1, <3>2, <3>3 DEF Kept, Upto
  <2>12. Holds(c, x)' => Holds(c, x)
    BY <1>1, <1>2, <1>3, <2>1 DEF Holds
  <2> QED
    BY <2>8, <2>10, <2>11, <2>12
<1>7. edits \in Nat /\ edits <= edits' /\ edits' \in Nat /\ deleted \subseteq deleted'
  BY <1>1 DEF Inv, TypeOK
<1> QED
  BY <1>1, <1>3, <1>4, <1>6, <1>7, OneRecords

\* What is listed now and was not before is the chat of the copy that made it:
\* no other has it; what the write had taken of it is on disk with it.
LEMMA StoreIndexRecords ==
  ASSUME Inv, TypeOK', StoreInv', NEW c \in Copies, StoreIndex(c)
  PROVE  RecordInv'
<1> DEFINE w == write[c]
           v == [w EXCEPT !.pc = "purge", !.next = NoChats]
<1>1. /\ w \in Writes /\ w.pc = "files" /\ w.files = {} /\ index' = w.next /\ Goto(c, v)
      /\ UNCHANGED <<log, gens, copy, base, edits, deleted>> /\ Recorded
  BY DEF StoreIndex, Inv, TypeOK, At
<1>2. /\ v.pc = "purge" /\ v.taken = w.taken /\ v.later = w.later /\ v.upTo = w.upTo
  <2> HIDE DEF w
  <2> QED
    BY <1>1 DEF Writes
<1> HIDE DEF v
<1>3. write'[c] = v /\ \A d \in Copies \ {c} : write'[d] = write[d]
  BY <1>1 DEF Inv, TypeOK, Goto
<1>4. \A d \in Copies \ {c} : write[d].pc \notin {"files", "purge"}
  BY <1>1, OneStores DEF Inv
<1>5. /\ stored \subseteq stored' /\ DiskStored'
      /\ \A x \in Chats : Had(x)' => Had(x) \/ Is(x, index)'
  BY <1>1, RecordedIs DEF Inv
<1>6. ASSUME NEW x \in Chats
      PROVE  Listing(c, x) /\ Remembers(c, x) /\ Kept(c, x) /\ (Had(x) => Had(x)')
    BY <1>5 DEF Inv, RecordInv, Had
<1>7. ASSUME NEW x \in Chats, ~Is(x, index), Is(x, w.next)
      PROVE  /\ Is(x, w.taken) /\ ~Had(x)
             /\ \A d \in Copies : ~Is(x, base[d]) /\ (d # c => ~Holds(d, x))
  <2>1. Is(x, w.taken) /\ ~Had(x)
    BY <1>1, <1>6, <1>7 DEF Listing, At
  <2>2. Holds(c, x)
    BY <2>1 DEF Holds
  <2> QED
    BY <2>1, <2>2 DEF Inv, RecordInv, OneMaker, Listing
<1>8. ASSUME NEW x \in Chats, Had(x)', ~Had(x)
      PROVE  ~Is(x, index) /\ Is(x, w.next)
  BY <1>1, <1>5, <1>8 DEF Inv, RecordInv, DiskStored
<1>g. /\ \A x, row : RowIn(x, row, stored) => RowIn(x, row, stored')
      /\ \A x, msgs : SaidIn(x, msgs, stored) => SaidIn(x, msgs, stored')
      /\ \A x, held : HeldIn(x, held, stored) => HeldIn(x, held, stored')
  BY <1>5, StoredGrows
<1>9. OneMaker'
  <2>1. \A d \in Copies, x \in Chats : Holds(d, x)' <=> Holds(d, x)
    BY <1>1, <1>2, <1>3 DEF Holds
  <2> QED
    BY <1>6, <2>1 DEF OneMaker, Inv, RecordInv
<1>10. ASSUME NEW d \in Copies, NEW x \in Chats, Is(x, base[d])
       PROVE  Is(x, index)' => Is(x, index) /\ HeldIn(x, base[d][x], stored')
  <2>1. Is(x, index)' => Is(x, index)
    BY <1>1, <1>7, <1>10
  <2>2. Remembers(d, x)
    BY DEF Inv, RecordInv
  <2> QED
    BY <1>10, <1>g, <2>1, <2>2 DEF Remembers
<1>11. \A d \in Copies, x \in Chats : (write[d].upTo <= edits)'
  <2>1. \A d \in Copies, x \in Chats : Kept(d, x)
    BY DEF Inv, RecordInv
  <2> QED
    BY <1>1, <1>2, <1>3, <2>1 DEF Kept
<1>12. ASSUME NEW d \in Copies \ {c}, NEW x \in Chats
       PROVE  Listing(d, x)' /\ Remembers(d, x)' /\ Kept(d, x)'
  <2>0. Listing(d, x) /\ Remembers(d, x) /\ Kept(d, x) /\ write'[d] = write[d]
        /\ write[d].pc \notin {"files", "purge"}
    BY <1>3, <1>4 DEF Inv, RecordInv
  <2>1. Listing(d, x)'
    <3>1. Is(x, copy[d]) /\ ~Is(x, base[d]) => ~Had(x)'
      BY <1>7, <1>8, <2>0 DEF Listing, At, Holds
    <3>2. At(d, "opening") /\ Is(x, write[d].next)
            => Had(x)' /\ RowIn(x, write[d].next[x], stored')
      BY <1>6, <1>g, <2>0 DEF Listing
    <3>3. /\ Is(x, base[d]) => Had(x)'
          /\ ~Had(x)' /\ Is(x, write[d].taken) => Is(x, copy[d]) \/ x \in deleted
      BY <1>6, <2>0 DEF Listing
    <3>4. /\ At(d, "opening")' <=> At(d, "opening")
          /\ ~At(d, "files")' /\ ~At(d, "purge")'
      BY <2>0 DEF At
    <3> QED
      BY <1>1, <2>0, <3>1, <3>2, <3>3, <3>4 DEF Listing
  <2>2. OwnStored(d, x, write[d])'
    BY <1>1, <1>10, <2>0 DEF Remembers, OwnStored, Known, Loaded
  <2>3. Remembers(d, x)'
    BY <1>1, <1>10, <2>0, <2>2 DEF Remembers, At
  <2>4. AllStored(d, x, write[d])'
    <3> SUFFICES ASSUME Loaded(d, x), Is(x, index)',
                        write[d].pc = "later" \/ (write[d].pc = "store" /\ write[d].back = "later")
                 PROVE  AllStored(d, x, write[d])'
      BY <1>1, <2>0 DEF AllStored, Loaded
    <3>1. Is(x, index)
      BY <1>1, <1>7 DEF Holds, Loaded
    <3>2. AllStored(d, x, write[d])
      BY <2>0 DEF Kept
    <3> QED
      BY <1>1, <1>5, <2>0, <3>1, <3>2 DEF AllStored, Loaded
  <2>5. Kept(d, x)'
    BY <1>11, <2>0, <2>4 DEF Kept
  <2> QED
    BY <2>1, <2>3, <2>5
<1>13. ASSUME NEW x \in Chats
       PROVE  Listing(c, x)' /\ Remembers(c, x)' /\ Kept(c, x)'
  <2>0. Listing(c, x) /\ Remembers(c, x) /\ Kept(c, x)
    BY <1>6
  <2>1. Is(x, w.taken) => Had(x)'
    <3>1. Is(x, w.taken) => Had(x) \/ Is(x, index)'
      BY <1>1, <2>0 DEF Listing, At
    <3> QED
      BY <1>5, <1>6, <3>1 DEF DiskStored
  <2>2. Had(x)' /\ ~Is(x, base[c]) /\ Is(x, copy[c]) => Is(x, w.taken)
    BY <1>1, <1>7, <1>8, <2>0 DEF Listing, At
  <2>3. Listing(c, x)'
    BY <1>1, <1>2, <1>3, <1>6, <2>0, <2>1, <2>2 DEF Listing, At
  <2>4. ASSUME Is(x, w.taken), Is(x, index)' PROVE HeldIn(x, w.taken[x], stored')
    <3>1. RowNext(x, w.taken[x], w.next[x], stored) /\ RowIn(x, w.next[x], stored')
      BY <1>1, <1>5, <2>0, <2>4 DEF Remembers, At, DiskStored
    <3>2. RowIn(x, w.taken[x], stored')
      BY <1>5, <3>1 DEF RowNext, RowIn
    <3>3. CASE Is(x, base[c])
      BY <1>1, <1>g, <2>0, <2>4, <3>2, <3>3 DEF Remembers, At, HeldIn
    <3>4. CASE ~Is(x, base[c])
      <4>1. Messages(w.taken[x].msgs) \subseteq Messages(log[x].msgs)
        BY <1>1, <2>0, <2>4, <3>4 DEF Remembers, At
      <4>2. SaidIn(x, log[x].msgs, stored')
        BY <1>1, <1>5, <2>4 DEF DiskStored
      <4> QED
        BY <3>2, <4>1, <4>2 DEF HeldIn, SaidIn
    <3> QED
      BY <3>3, <3>4
  <2>5. Remembers(c, x)'
    BY <1>1, <1>2, <1>3, <1>10, <2>4 DEF Remembers, OwnStored, At
  <2>6. Kept(c, x)'
    <3>1. Is(x, copy[c]) /\ ~Is(x, w.taken) => ~Had(x)'
      BY <1>1, <1>7, <1>8, <2>0 DEF Kept
    <3>2. AllStored(c, x, write[c])'
      BY <1>2, <1>3 DEF AllStored
    <3> QED
      BY <1>1, <1>2, <1>3, <1>11, <2>0, <3>1, <3>2 DEF Kept, Loaded
  <2> QED
    BY <2>3, <2>5, <2>6
<1> QED
  BY <1>5, <1>9, <1>12, <1>13 DEF RecordInv

\* What is removed is no longer listed.
LEMMA PurgeRecords ==
  ASSUME Inv, NEW c \in Copies, Purge(c)
  PROVE  RecordInv'
<1>1. PICK ch \in write[c].doomed :
        /\ log' = [log EXCEPT ![ch] = None]
        /\ Goto(c, [write[c] EXCEPT !.doomed = @ \ {ch}])
  BY DEF Purge
<1> DEFINE w == write[c]
           v == [w EXCEPT !.doomed = @ \ {ch}]
<1>2. /\ w \in Writes /\ w.pc = "purge" /\ Goto(c, v)
      /\ UNCHANGED <<index, gens, copy, base, edits, deleted, stored>>
  BY <1>1 DEF Purge, Inv, TypeOK, At, history
<1>3. /\ v.pc = "purge" /\ v.taken = w.taken /\ v.upTo = w.upTo /\ v.later = w.later
      /\ ch \in Chats
  BY <1>2 DEF Writes
<1>4. ~Is(ch, index) /\ \A x \in Chats : x # ch => log'[x] = log[x]
  BY <1>1, <1>2, <1>3 DEF Inv, TypeOK, StoreInv, FilesFirst, At
<1>5. \A d \in Copies \ {c} : write[d].pc # "files"
  BY <1>2, OneStores DEF Inv
<1> HIDE DEF v
<1>6. write'[c] = v /\ \A d \in Copies \ {c} : write'[d] = write[d]
  BY <1>2 DEF Inv, TypeOK, Goto
<1>7. /\ stored \subseteq stored' /\ DiskStored'
      /\ \A x \in Chats : Had(x)' => Had(x)
  BY <1>2, <1>4, DiskStays
<1>8. ASSUME NEW x \in Chats
      PROVE  Listing(c, x)' /\ Remembers(c, x)' /\ Kept(c, x)'
  <2>0. Listing(c, x) /\ Remembers(c, x) /\ Kept(c, x) /\ (Had(x)' <=> Had(x))
    BY <1>2 DEF Inv, RecordInv, Had
  <2>1. Listing(c, x)'
    BY <1>2, <1>3, <1>6, <2>0 DEF Listing, At
  <2>2. Remembers(c, x)'
    BY <1>2, <1>3, <1>6, <2>0 DEF Remembers, OwnStored, At
  <2>3. Kept(c, x)'
    BY <1>2, <1>3, <1>6, <2>0 DEF Kept, AllStored, Loaded
  <2> QED
    BY <2>1, <2>2, <2>3
<1>9. \A x \in Chats : Holds(c, x)' => Holds(c, x)
  BY <1>2, <1>3, <1>6 DEF Holds
<1>10. edits \in Nat /\ edits <= edits' /\ edits' \in Nat /\ deleted \subseteq deleted'
  BY <1>2 DEF Inv, TypeOK
<1> QED
  BY <1>2, <1>5, <1>6, <1>7, <1>8, <1>9, <1>10, OneRecords DEF At

\* What a write took is its base now, and all of it was stored.
LEMMA FinishRecords ==
  ASSUME Inv, NEW c \in Copies, Finish(c)
  PROVE  RecordInv'
<1> USE DEF disk
<1> DEFINE w == write[c]
           v == [NoWrite EXCEPT !.pc = "later", !.later = w.later, !.upTo = w.upTo]
<1>1. /\ w \in Writes /\ w.pc = "purge" /\ Goto(c, v)
      /\ base' = [base EXCEPT ![c] = w.taken]
      /\ UNCHANGED <<index, log, gens, copy, edits, deleted, stored>>
  BY DEF Finish, Inv, TypeOK, At, history
<1>2. v.pc = "later" /\ v.taken = NoChats /\ v.later = w.later /\ v.upTo = w.upTo
  BY DEF NoWrite
<1>3. \A d \in Copies \ {c} : write[d].pc # "files"
  BY <1>1, OneStores DEF Inv
<1> HIDE DEF v
<1>4. write'[c] = v /\ \A d \in Copies \ {c} : write'[d] = write[d]
  BY <1>1 DEF Inv, TypeOK, Goto
<1>5. base'[c] = w.taken /\ \A d \in Copies \ {c} : base'[d] = base[d]
  BY <1>1 DEF Inv, TypeOK
<1>6. \A x \in Chats : ~Is(x, NoChats)
  BY DEF NoChats
<1>7. /\ stored \subseteq stored' /\ DiskStored'
      /\ \A x \in Chats : Had(x)' => Had(x)
  BY <1>1, DiskStays
<1>8. ASSUME NEW x \in Chats
      PROVE  Listing(c, x)' /\ Remembers(c, x)' /\ Kept(c, x)'
  <2>0. Listing(c, x) /\ Remembers(c, x) /\ Kept(c, x) /\ (Had(x)' <=> Had(x))
    BY <1>1 DEF Inv, RecordInv, Had
  <2>1. Is(x, copy[c]) /\ Had(x) => Is(x, w.taken)
    BY <1>1, <2>0 DEF Kept
  <2>2. Listing(c, x)'
    BY <1>1, <1>2, <1>4, <1>5, <1>6, <2>0, <2>1 DEF Listing, At
  <2>3. Is(x, w.taken) /\ Is(x, index) => HeldIn(x, w.taken[x], stored)
    BY <1>1, <2>0 DEF Remembers, At
  <2>4. Remembers(c, x)'
    BY <1>1, <1>2, <1>4, <1>5, <1>6, <2>3 DEF Remembers, OwnStored, At
  <2>5. AllStored(c, x, v)
    <3> SUFFICES ASSUME Loaded(c, x), Is(x, index) PROVE AllStored(c, x, v)
      BY DEF AllStored
    <3>1. Is(x, w.taken) /\ Is(x, copy[c]) /\ copy[c][x].msgs # None
      BY <2>1 DEF Loaded, Inv, RecordInv, DiskStored
    <3>2. HeldIn(x, w.taken[x], stored)
      BY <2>3, <3>1
    <3>3. w.taken[x].msgs # None
      <4>1. HasHistory(c, x, w.taken)
        BY <1>1 DEF Inv, StoreInv, StoresHistories
      <4> QED
        BY <3>1, <4>1, StateStoreAssumption DEF HasHistory
    <3>4. /\ copy[c][x].title # 0 /\ copy[c][x].title <= w.upTo
               => copy[c][x].title = w.taken[x].title
          /\ Upto(copy[c][x].queue, w.upTo) \subseteq w.taken[x].queue
          /\ x \notin w.later
               => Upto(Messages(copy[c][x].msgs), w.upTo) \subseteq Messages(w.taken[x].msgs)
      BY <1>1, <2>0, <3>1 DEF Kept, Loaded
    <3> QED
      BY <1>2, <3>2, <3>3, <3>4 DEF AllStored, HeldIn, RowIn, SaidIn
  <2>6. Kept(c, x)'
    <3>1. AllStored(c, x, write[c])'
      BY <1>1, <1>4, <2>5 DEF AllStored, Loaded
    <3> QED
      BY <1>1, <1>2, <1>4, <2>0, <3>1 DEF Kept
  <2> QED
    BY <2>2, <2>4, <2>6
<1>9. \A x \in Chats : Holds(c, x)' => Holds(c, x)
  BY <1>1, <1>2, <1>4, <1>6 DEF Holds
<1>10. edits \in Nat /\ edits <= edits' /\ edits' \in Nat /\ deleted \subseteq deleted'
  BY <1>1 DEF Inv, TypeOK
<1> QED
  BY <1>1, <1>3, <1>4, <1>5, <1>7, <1>8, <1>9, <1>10, OneRecords DEF At

-----------------------------------------------------------------------------
(* The theorems.                                                             *)

LEMMA StaysRecorded ==
  ASSUME Inv, (TypeOK /\ StoreInv)', [Next]_vars
  PROVE  RecordInv'
<1>1. CASE UNCHANGED vars
  <2>1. UNCHANGED <<index, log, gens, copy, base, write, edits, stored, deleted>>
    BY <1>1 DEF vars, disk, history
  <2>2. DiskStored' /\ OneMaker'
    BY <2>1 DEF Inv, RecordInv, DiskStored, OneMaker, Had, Holds
  <2>3. ASSUME NEW c \in Copies, NEW ch \in Chats
        PROVE  Listing(c, ch)' /\ Remembers(c, ch)' /\ Kept(c, ch)'
    BY <2>1, SameKeeps DEF Had, Inv, TypeOK
  <2> QED
    BY <2>2, <2>3 DEF RecordInv
<1>2. CASE Next
  <2>1. PICK c \in Copies :
          \/ ReadIndex(c) \/ ReadLogs(c) \/ Editing(c)
          \/ Begin(c) \/ Writing(c) \/ \E ch \in Chats : Checkpoint(c, ch)
          \/ Fail(c) \/ Crash(c)
    BY <1>2 DEF Next
  <2>2. CASE ReadIndex(c)
    BY <2>2, ReadIndexRecords
  <2>3. CASE ReadLogs(c)
    BY <2>3, ReadLogsRecords
  <2>4. CASE Editing(c)
    BY <2>4, EditingRecords
  <2>5. CASE Begin(c)
    BY <2>5, BeginRecords
  <2>6. CASE \E ch \in Chats : Checkpoint(c, ch)
    BY <2>6, CheckpointRecords
  <2>7. CASE Fail(c)
    BY <2>7, FailRecords
  <2>8. CASE Crash(c)
    BY <2>8, CrashRecords
  <2>9. CASE Writing(c)
    <3>1. CASE OwnNext(c)
      BY <3>1, OwnNextRecords
    <3>2. CASE StoreOwn(c)
      BY <3>2, StoreOwnRecords
    <3>3. CASE TakeState(c)
      BY <3>3, TakeStateRecords
    <3>4. CASE StoreFile(c)
      BY <3>4, StoreFileRecords
    <3>5. CASE StoreIndex(c)
      BY <3>5, StoreIndexRecords
    <3>6. CASE Purge(c)
      BY <3>6, PurgeRecords
    <3>7. CASE Finish(c)
      BY <3>7, FinishRecords
    <3>8. CASE Later(c)
      BY <3>8, LaterRecords
    <3>9. CASE End(c)
      BY <3>9, EndRecords
    <3> QED
      BY <2>9, <3>1, <3>2, <3>3, <3>4, <3>5, <3>6, <3>7, <3>8, <3>9 DEF Writing
  <2> QED
    BY <2>1, <2>2, <2>3, <2>4, <2>5, <2>6, <2>7, <2>8, <2>9
<1> QED
  BY <1>1, <1>2

LEMMA AllInvariant == Spec => []Inv
<1>1. Init => Inv
  BY StartsWell, StartsOwed, StartsRecorded DEF Inv
<1>2. Inv /\ (TypeOK /\ StoreInv)' /\ [Next]_vars => Inv'
  BY StaysOwed, StaysRecorded DEF Inv
<1>3. TypeOK /\ StoreInv => TypeOK /\ StoreInv
  OBVIOUS
<1> QED
  BY <1>1, <1>2, StoreInvariant, PTL DEF Spec

\* A copy's baseline holds nothing that was never on disk (rememberBaseline,
\* baselineOf): what it remembers as stored it will not store again, however the
\* copy was edited, its transcript deferred or its write thrown out half way.
THEOREM RememberedIsStored == Spec => []RememberedWasStored
<1>1. Inv => RememberedWasStored
  <2> SUFFICES ASSUME Inv, NEW c \in Copies, NEW ch \in Chats,
                      Is(ch, base[c]), Is(ch, index), base[c][ch].msgs # None
               PROVE  ItemsOf(ch, base[c][ch], base[c][ch].msgs) \subseteq stored
    BY DEF RememberedWasStored
  <2> DEFINE b == base[c][ch]
  <2>1. Had(ch) /\ RowIn(ch, b, stored) /\ SaidIn(ch, b.msgs, stored)
    BY DEF Inv, RecordInv, DiskStored, Remembers, HeldIn
  <2>2. \A i \in DOMAIN b.msgs : b.msgs[i] \in Messages(b.msgs)
    <3>1. b \in Held
      BY DEF Inv, TypeOK
    <3>2. b.msgs \in Seq(1..MaxEdits)
      BY <3>1 DEF Held, Histories
    <3> HIDE DEF b
    <3>3. DOMAIN b.msgs = 1..Len(b.msgs)
      BY <3>2
    <3> QED
      BY <3>3 DEF Messages
  <2> HIDE DEF b
  <2>3. ItemsOf(ch, b, b.msgs) \subseteq stored
    BY <2>1, <2>2 DEF ItemsOf, Had, RowIn, SaidIn
  <2> QED
    BY <2>3 DEF b
<1> QED
  BY <1>1, AllInvariant, PTL

\* When a write returns (writeState), every edit that was in its copy as it took
\* what it stores has been on disk, unless its chat was deleted: a transcript
\* whose chat lock had to be waited for, that was left for later, or that is
\* stored with the index, is not forgotten.
THEOREM WritesStore == Spec => WriteStores
<1>1. ASSUME Inv, NEW c \in Copies, NEW ch \in Chats,
             End(c), Loaded(c, ch), Is(ch, index),
             NEW i \in ItemsOf(ch, copy[c][ch], copy[c][ch].msgs), i.n <= write[c].upTo
      PROVE  i \in stored
  <2> DEFINE row == copy[c][ch]
  <2>1. /\ Had(ch)
        /\ row.title # 0 /\ row.title <= write[c].upTo => Item(ch, "title", row.title) \in stored
        /\ \A n \in Upto(row.queue, write[c].upTo) : Item(ch, "queued", n) \in stored
        /\ \A n \in Upto(Messages(row.msgs), write[c].upTo) : Item(ch, "message", n) \in stored
    BY <1>1 DEF End, At, Inv, RecordInv, DiskStored, Kept, AllStored
  <2>2. \A j \in DOMAIN row.msgs : row.msgs[j] \in Messages(row.msgs)
    <3>1. row \in Held /\ row.msgs # None
      BY <1>1 DEF Loaded, Inv, TypeOK
    <3>2. row.msgs \in Seq(1..MaxEdits)
      BY <3>1 DEF Held, Histories
    <3> HIDE DEF row
    <3>3. DOMAIN row.msgs = 1..Len(row.msgs)
      BY <3>2
    <3> QED
      BY <3>3 DEF Messages
  <2> HIDE DEF row
  <2>3. \A k, n : Item(ch, k, n).n = n
    BY DEF Item
  <2>4. i \in ItemsOf(ch, row, row.msgs)
    BY <1>1 DEF row
  <2>5. CASE i = Item(ch, "chat", 0)
    BY <2>1, <2>5 DEF Had
  <2>6. CASE \E n \in {row.title} \ {0} : i = Item(ch, "title", n)
    BY <1>1, <2>1, <2>3, <2>6
  <2>7. CASE \E n \in row.queue : i = Item(ch, "queued", n)
    BY <1>1, <2>1, <2>3, <2>7 DEF Upto
  <2>8. CASE \E j \in DOMAIN row.msgs : i = Item(ch, "message", row.msgs[j])
    BY <1>1, <2>1, <2>2, <2>3, <2>8 DEF Upto
  <2> QED
    BY <2>4, <2>5, <2>6, <2>7, <2>8 DEF ItemsOf
<1>2. Inv /\ [Next]_vars =>
        [\A c \in Copies, ch \in Chats :
           End(c) /\ Loaded(c, ch) /\ Is(ch, index) =>
             \A i \in ItemsOf(ch, copy[c][ch], copy[c][ch].msgs) :
               i.n <= write[c].upTo => i \in stored]_vars
  BY <1>1
<1> QED
  BY <1>2, AllInvariant, PTL DEF Spec, WriteStores
=============================================================================
