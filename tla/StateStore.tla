----------------------------- MODULE StateStore -----------------------------
(***************************************************************************)
(* The state store (session/state/, session/store/): one index of all      *)
(* chats and one log per chat, which every process edits through copies it *)
(* read earlier.  A copy is a HarnessState; its base is what it was last   *)
(* known to agree with on disk; writeState applies the difference to what  *)
(* the disk holds now.  Any edit may come while a write is going on.       *)
(*                                                                         *)
(* An edit is named by its number: a message, a queued turn, a title.      *)
(* 0 is the title a chat had before anyone renamed it.                     *)
(*                                                                         *)
(* A copy is private to its process, so a step that only looks at a copy   *)
(* is taken together with the shared step it precedes: an edit that comes  *)
(* between the two could as well have come after both.  The locks are      *)
(* FileLock's: one holder, and a dead holder's lock is taken from it.      *)
(***************************************************************************)
EXTENDS Transcripts, FiniteSets

CONSTANTS Copies,
          Chats,
          Listed,    \* the chats that are there at the start
          None,      \* no chat, no log, no holder
          StaleUndo, \* whether history may be undone by a copy that has not
                     \* seen all of it, or while it is being written
          MaxEdits, MaxRemovals, MaxFaults, MaxOpens   \* bounds

\* A history, a row of the index, and a chat as a copy holds it.
Histories == Seq(1..MaxEdits)
Rows == [title : 0..MaxEdits, queue : SUBSET (1..MaxEdits)]
Held == [title : 0..MaxEdits, queue : SUBSET (1..MaxEdits),
         msgs : {None} \cup Histories, at : Spots]

ASSUME StateStoreAssumption ==
         /\ Listed \subseteq Chats
         /\ None \notin Copies
         /\ StaleUndo \in BOOLEAN
         /\ {MaxEdits, MaxRemovals, MaxFaults, MaxOpens} \subseteq Nat
         /\ None \notin Logs(1..MaxEdits) \cup Histories \cup Held \cup Rows

VARIABLES
  index,      \* index.json: the [title, queue] of each listed chat, or None
  log,        \* the chat's log, or None
  gens,       \* the generations used for it
  stateLock, chatLock,
  copy,       \* each copy: [title, queue, msgs] of its chats, or None
  base,       \* its baseline, with where the messages stand in the log
  write,      \* where it is in writeState, and what that holds
  edits,      \* edits so far
  removals, faults, opens,
  made, dropped, deleted,   \* history: what was put in a copy, or taken out
  stored,     \* history: what was ever on disk for a reader
  littered    \* history: the chats of a process that died, or failed to store

disk == <<index, log, gens>>
locks == <<stateLock, chatLock>>
bounds == <<removals, faults, opens>>
history == <<made, dropped, deleted, stored, littered>>
vars == <<disk, locks, copy, base, write, edits, bounds, history>>

-----------------------------------------------------------------------------
\* Items, as the abstract store names them.

Item(ch, kind, n) == [chat |-> ch, kind |-> kind, n |-> n]

ItemsOf(ch, row, msgs) ==
  {Item(ch, "chat", 0)}
    \cup {Item(ch, "title", n) : n \in {row.title} \ {0}}
    \cup {Item(ch, "queued", n) : n \in row.queue}
    \cup {Item(ch, "message", msgs[i]) : i \in DOMAIN msgs}

\* What a reader finds: the listed chats, each with its log.
OnDisk ==
  UNION {ItemsOf(ch, index[ch], IF log[ch] = None THEN <<>> ELSE log[ch].msgs) :
           ch \in {x \in Chats : index[x] # None}}

\* Every step that changes the disk adds to what was ever stored.
Recorded == stored' = stored \cup OnDisk'

-----------------------------------------------------------------------------
NoChats == [ch \in Chats |-> None]
NoWrite == [pc |-> "idle", todo |-> {}, own |-> {}, chat |-> None, now |-> <<>>,
            back |-> "idle", taken |-> NoChats, next |-> NoChats,
            files |-> {}, doomed |-> {}, later |-> {}, upTo |-> 0]
Closed == [NoWrite EXCEPT !.pc = "closed"]

Init ==
  /\ index = [ch \in Chats |-> IF ch \in Listed
                                 THEN [title |-> 0, queue |-> {}] ELSE None]
  /\ log = [ch \in Chats |-> IF ch \in Listed
                               THEN Rewritten(1, <<>>) ELSE None]
  /\ gens = [ch \in Chats |-> IF ch \in Listed THEN 1 ELSE 0]
  /\ stateLock = None /\ chatLock = NoChats
  /\ copy = [c \in Copies |-> NoChats] /\ base = copy
  /\ write = [c \in Copies |-> Closed]
  /\ edits = 0 /\ removals = 0 /\ faults = 0 /\ opens = 0
  /\ dropped = {} /\ deleted = {} /\ littered = {}
  /\ stored = OnDisk /\ made = OnDisk

At(c, pc) == write[c].pc = pc
Goto(c, w) == write' = [write EXCEPT ![c] = w]
Is(ch, held) == held[ch] # None
Knows(c, ch) == Is(ch, copy[c]) \/ Is(ch, base[c]) \/ Is(ch, write[c].taken)
Known(c, ch) == Is(ch, copy[c]) /\ Is(ch, base[c])
Changed(c, ch) == Known(c, ch) /\ copy[c][ch].msgs # base[c][ch].msgs

-----------------------------------------------------------------------------
\* Reading (readState): the index first, then the logs it lists.  A log
\* deleted in between reads as no messages at all.

ReadIndex(c) ==
  /\ At(c, "closed") /\ opens < MaxOpens
  /\ opens' = opens + 1
  /\ Goto(c, [NoWrite EXCEPT !.pc = "opening", !.next = index])
  /\ UNCHANGED <<disk, locks, copy, base, edits, removals, faults, history>>

AsRead(row, l) ==
  [title |-> row.title, queue |-> row.queue,
   msgs |-> IF l = None THEN None ELSE l.msgs,
   at |-> IF l = None THEN Nowhere
          ELSE [gen |-> l.gen, end |-> Len(l.msgs)]]

ReadLogs(c) ==
  /\ At(c, "opening")
  /\ base' = [base EXCEPT ![c] = [ch \in Chats |->
                IF Is(ch, write[c].next) THEN AsRead(write[c].next[ch], log[ch])
                                         ELSE None]]
  /\ copy' = [copy EXCEPT ![c] = [ch \in Chats |->
                IF Is(ch, base'[c]) THEN [base'[c][ch] EXCEPT !.at = Nowhere]
                                    ELSE None]]
  /\ Goto(c, NoWrite)
  /\ UNCHANGED <<disk, locks, edits, bounds, history>>

-----------------------------------------------------------------------------
\* Edits of a copy (external: whatever a window or a turn does to its state).

Open(c) == write[c].pc \notin {"closed", "opening"}

Edit(c, ch, row) ==
  /\ copy' = [copy EXCEPT ![c][ch] = row]
  /\ UNCHANGED <<disk, locks, base, write, faults, opens, stored, littered>>

Adds(c, ch, row, kinds) ==
  /\ Open(c) /\ edits < MaxEdits /\ edits' = edits + 1
  /\ made' = made \cup {Item(ch, k, IF k = "chat" THEN 0 ELSE edits') : k \in kinds}
  /\ Edit(c, ch, row) /\ UNCHANGED <<removals, dropped, deleted>>

Removes(c, ch, row) ==
  /\ Open(c) /\ removals < MaxRemovals /\ removals' = removals + 1
  /\ Edit(c, ch, row) /\ UNCHANGED <<edits, made>>

Loaded(c, ch) == Is(ch, copy[c]) /\ copy[c][ch].msgs # None

Say(c, ch) ==
  /\ Loaded(c, ch)
  /\ Adds(c, ch, [copy[c][ch] EXCEPT !.msgs = Append(@, edits + 1)], {"message"})

Rename(c, ch) ==
  /\ Loaded(c, ch)
  /\ Adds(c, ch, [copy[c][ch] EXCEPT !.title = edits + 1], {"title"})

Queue(c, ch) ==
  /\ Loaded(c, ch)
  /\ Adds(c, ch, [copy[c][ch] EXCEPT !.queue = @ \cup {edits + 1}],
          {"queued"})

\* A chat is made by one process, with its first message.
Create(c, ch) ==
  /\ ch \notin Listed /\ gens[ch] = 0
  /\ \A d \in Copies : ~Is(ch, copy[d])
  /\ ch \notin deleted \cup littered
  /\ Adds(c, ch, [title |-> 0, queue |-> {}, msgs |-> <<edits + 1>>, at |-> Nowhere],
          {"chat", "message"})

Unqueue(c, ch) ==
  /\ Is(ch, copy[c])
  /\ \E n \in copy[c][ch].queue :
       /\ Removes(c, ch, [copy[c][ch] EXCEPT !.queue = @ \ {n}])
       /\ dropped' = dropped \cup {Item(ch, "queued", n)}
  /\ UNCHANGED deleted

\* A copy that has seen the whole of the history nobody else is rewriting.
SeesAll(c, ch) ==
  /\ At(c, "idle") /\ Is(ch, base[c]) /\ Is(ch, log)
  /\ Extends(log[ch].msgs, base[c][ch].msgs)
  /\ \A d \in Copies \ {c} :
       /\ Known(d, ch) /\ Loaded(d, ch) => Extends(copy[d][ch].msgs, base[d][ch].msgs)
       /\ At(d, "store") /\ write[d].chat = ch => Extends(write[d].now, base[d][ch].msgs)

Undo(c, ch) ==
  /\ Loaded(c, ch) /\ copy[c][ch].msgs # <<>>
  /\ SeesAll(c, ch) \/ StaleUndo
  /\ LET msgs == copy[c][ch].msgs
     IN  /\ Removes(c, ch, [copy[c][ch] EXCEPT !.msgs = SubSeq(@, 1, Len(@) - 1)])
         /\ dropped' = dropped \cup {Item(ch, "message", msgs[Len(msgs)])}
  /\ UNCHANGED deleted

Delete(c, ch) ==
  /\ Is(ch, copy[c])
  /\ Removes(c, ch, None)
  /\ deleted' = deleted \cup {ch}
  /\ UNCHANGED dropped

-----------------------------------------------------------------------------
\* A transcript on its own chat's lock (writeTranscriptCheckpoint): what the
\* copy holds is taken, the lock is taken, and the index is asked whether the
\* chat is still listed; then it is stored, and the base moves to what was.

TakeChat(c, ch, w, back) ==
  /\ chatLock[ch] = None
  /\ chatLock' = [chatLock EXCEPT ![ch] = c]
  /\ Goto(c, [w EXCEPT !.pc = "store", !.chat = ch, !.now = copy[c][ch].msgs,
                       !.back = back])
  /\ UNCHANGED <<disk, stateLock, copy, base, edits, bounds, history>>

\* A running turn's checkpoint.
Checkpoint(c, ch) ==
  /\ At(c, "idle") /\ Changed(c, ch) /\ Is(ch, index)
  /\ TakeChat(c, ch, write[c], "idle")

NextGen(ch) == gens[ch] + 1

Put(ch, out) ==
  /\ log' = [log EXCEPT ![ch] = out.log]
  /\ gens' = [gens EXCEPT ![ch] = IF @ < out.log.gen THEN out.log.gen ELSE @]

\* storeTranscript.
Out(ch, b, next) ==
  IF Is(ch, log) THEN StoreTranscript(log[ch], b, next, NextGen(ch))
                 ELSE FirstStored(next, NextGen(ch))

Moved(c, ch, msgs, at) ==
  base' = [base EXCEPT ![c][ch].msgs = msgs, ![c][ch].at = at]

\* Faulty variant: the base stays where it was.
StoreOwn_KeepsBase(c) ==
  LET w == write[c]
      out == Out(w.chat, base[c][w.chat], w.now)
  IN  /\ At(c, "store")
      /\ Put(w.chat, out)
      /\ chatLock' = [chatLock EXCEPT ![w.chat] = None]
      /\ Goto(c, [w EXCEPT !.pc = w.back, !.chat = None, !.now = <<>>, !.back = "idle",
                           !.own = IF w.back = "own" THEN @ \cup {w.chat} ELSE @])
      /\ UNCHANGED <<index, stateLock, copy, base, edits, bounds, made, dropped, deleted, littered>>
      /\ Recorded

StoreOwn(c) ==
  LET w == write[c]
      out == Out(w.chat, base[c][w.chat], w.now)
  IN  /\ At(c, "store")
      /\ Put(w.chat, out) /\ Moved(c, w.chat, w.now, out.at)
      /\ chatLock' = [chatLock EXCEPT ![w.chat] = None]
      /\ Goto(c, [w EXCEPT !.pc = w.back, !.chat = None, !.now = <<>>, !.back = "idle",
                           !.own = IF w.back = "own" THEN @ \cup {w.chat} ELSE @])
      /\ UNCHANGED <<index, stateLock, copy, edits, bounds, made, dropped, deleted, littered>>
      /\ Recorded

-----------------------------------------------------------------------------
\* writeState.

Begin(c) ==
  /\ At(c, "idle")
  /\ Goto(c, [NoWrite EXCEPT !.pc = "own",
                !.todo = {ch \in Chats : Known(c, ch) /\ Loaded(c, ch)}])
  /\ UNCHANGED <<disk, locks, copy, base, edits, bounds, history>>

\* Its own transcripts first, each on its chat's lock alone.
OwnNext(c) ==
  /\ At(c, "own")
  /\ \E ch \in write[c].todo :
       LET w == [write[c] EXCEPT !.todo = @ \ {ch}]
       IN  IF Changed(c, ch) /\ Is(ch, index)
           THEN TakeChat(c, ch, w, "own")
           ELSE /\ Goto(c, IF Known(c, ch) /\ ~Changed(c, ch)
                             THEN [w EXCEPT !.own = @ \cup {ch}] ELSE w)
                /\ UNCHANGED <<disk, locks, copy, base, edits, bounds, history>>

\* mergeById, mergeFields and mergeQueuedTurns.
MergedRow(b, mine, d) ==
  IF b = None THEN IF mine = None THEN d
                   ELSE [title |-> mine.title, queue |-> mine.queue]
  ELSE IF mine = None \/ d = None THEN None
  ELSE [title |-> IF mine.title # b.title THEN mine.title ELSE d.title,
        queue |-> (d.queue \ (b.queue \ mine.queue)) \cup (mine.queue \ b.queue)]

\* Faulty variant: a transcript left for later is remembered as stored.
Snapshot_Whole(c, later) ==
  [ch \in Chats |->
     IF ~Is(ch, copy[c]) THEN None
     ELSE IF Is(ch, base[c]) /\ ~Changed(c, ch)
          THEN [copy[c][ch] EXCEPT !.at = base[c][ch].at]
          ELSE copy[c][ch]]

\* baselineOf, under the state lock: what this write stores is exactly what it
\* then remembers, except a transcript its own lock has to store once more.
Snapshot(c, later) ==
  [ch \in Chats |->
     IF ~Is(ch, copy[c]) THEN None
     ELSE IF Is(ch, base[c]) /\ (ch \in later \/ ~Changed(c, ch))
          THEN [copy[c][ch] EXCEPT !.msgs = base[c][ch].msgs, !.at = base[c][ch].at]
          ELSE copy[c][ch]]

TakeState(c) ==
  LET w == write[c]
      next == [ch \in Chats |-> MergedRow(base[c][ch], copy[c][ch], index[ch])]
      later == {ch \in w.own : Is(ch, index) /\ Changed(c, ch)}
  IN  /\ At(c, "own") /\ w.todo = {} /\ stateLock = None
      /\ stateLock' = c
      /\ Goto(c, [w EXCEPT !.pc = "files", !.own = {}, !.later = later, !.upTo = edits,
                    !.next = next, !.taken = Snapshot(c, later),
                    !.files = {ch \in Chats : Is(ch, copy[c]) /\ ~Is(ch, base[c])},
                    !.doomed = {ch \in Chats : Is(ch, base[c]) /\ next[ch] = None}])
      /\ UNCHANGED <<disk, chatLock, copy, base, edits, bounds, history>>

\* 1. The transcripts of chats not listed yet.
StoreFile(c) ==
  /\ At(c, "files")
  /\ \E ch \in write[c].files :
       LET msgs == write[c].taken[ch].msgs
           out == IF ~Is(ch, log) THEN FirstStored(msgs, NextGen(ch))
                  ELSE Out(ch, [msgs |-> log[ch].msgs, at |-> Nowhere], msgs)
       IN  /\ chatLock[ch] = None
           /\ Put(ch, out)
           /\ Goto(c, [write[c] EXCEPT !.files = @ \ {ch}, !.taken[ch].at = out.at])
  /\ UNCHANGED <<index, locks, copy, base, edits, bounds, made, dropped, deleted, littered>>
  /\ Recorded

\* Faulty variant: the index is stored before the transcripts it lists.
StoreIndex_First(c) ==
  /\ At(c, "files")
  /\ index' = write[c].next
  /\ Goto(c, [write[c] EXCEPT !.pc = "purge", !.next = NoChats])
  /\ UNCHANGED <<log, gens, locks, copy, base, edits, bounds, made, dropped, deleted, littered>>
  /\ Recorded

\* Faulty variant: the rows of the index carry the messages too.
StoreIndex_WholeRows(c) ==
  /\ At(c, "files") /\ write[c].files = {}
  /\ index' = write[c].taken
  /\ Goto(c, [write[c] EXCEPT !.pc = "purge", !.next = NoChats])
  /\ UNCHANGED <<log, gens, locks, copy, base, edits, bounds, made, dropped, deleted, littered>>
  /\ Recorded

\* 2. The index.
StoreIndex(c) ==
  /\ At(c, "files") /\ write[c].files = {}
  /\ index' = write[c].next
  /\ Goto(c, [write[c] EXCEPT !.pc = "purge", !.next = NoChats])
  /\ UNCHANGED <<log, gens, locks, copy, base, edits, bounds, made, dropped, deleted, littered>>
  /\ Recorded

\* 3. The transcripts of the chats deleted.
Purge(c) ==
  /\ At(c, "purge")
  /\ \E ch \in write[c].doomed :
       /\ chatLock[ch] = None
       /\ log' = [log EXCEPT ![ch] = None]
       /\ Goto(c, [write[c] EXCEPT !.doomed = @ \ {ch}])
  /\ UNCHANGED <<index, gens, locks, copy, base, edits, bounds, history>>

\* Faulty variant: the base is remembered before the transcripts are removed.
Finish_Early(c) ==
  /\ At(c, "purge")
  /\ stateLock' = None
  /\ base' = [base EXCEPT ![c] = write[c].taken]
  /\ Goto(c, [NoWrite EXCEPT !.pc = "later", !.later = write[c].later,
                            !.upTo = write[c].upTo])
  /\ UNCHANGED <<disk, chatLock, copy, edits, bounds, history>>

\* The lock goes back, and what was stored is the new base (rememberBaseline).
Finish(c) ==
  /\ At(c, "purge") /\ write[c].doomed = {}
  /\ stateLock' = None
  /\ base' = [base EXCEPT ![c] = write[c].taken]
  /\ Goto(c, [NoWrite EXCEPT !.pc = "later", !.later = write[c].later,
                            !.upTo = write[c].upTo])
  /\ UNCHANGED <<disk, chatLock, copy, edits, bounds, history>>

\* writeDeferredTranscript: the chat's lock again; if its chat is not listed
\* any more, under the state lock, whatever the index says.
Later(c) ==
  /\ At(c, "later")
  /\ \E ch \in write[c].later :
       LET w == [write[c] EXCEPT !.later = @ \ {ch}]
           out == Out(ch, base[c][ch], copy[c][ch].msgs)
       IN  \/ /\ ~Changed(c, ch)
              /\ Goto(c, w)
              /\ UNCHANGED <<disk, locks, copy, base, edits, bounds, history>>
           \/ /\ Changed(c, ch) /\ Is(ch, index)
              /\ TakeChat(c, ch, w, "later")
           \/ /\ Changed(c, ch) /\ ~Is(ch, index)
              /\ stateLock = None /\ chatLock[ch] = None
              /\ Put(ch, out) /\ Moved(c, ch, copy[c][ch].msgs, out.at)
              /\ Goto(c, w)
              /\ UNCHANGED <<index, locks, copy, edits, bounds, made, dropped, deleted, littered>>
              /\ Recorded

\* Faulty variant: what was left for later is forgotten.
End_Early(c) ==
  /\ At(c, "later")
  /\ Goto(c, NoWrite)
  /\ UNCHANGED <<disk, locks, copy, base, edits, bounds, history>>

End(c) ==
  /\ At(c, "later") /\ write[c].later = {}
  /\ Goto(c, NoWrite)
  /\ UNCHANGED <<disk, locks, copy, base, edits, bounds, history>>

-----------------------------------------------------------------------------
\* Faults.

LetGo(c) ==
  /\ stateLock' = IF stateLock = c THEN None ELSE stateLock
  /\ chatLock' = [ch \in Chats |-> IF chatLock[ch] = c THEN None ELSE chatLock[ch]]

\* A log or the index cannot be written: the write throws, that file is as it
\* was, and its caller may write again later.
Fail(c) ==
  /\ faults < MaxFaults /\ write[c].pc \in {"store", "files"}
  /\ faults' = faults + 1
  /\ LetGo(c) /\ Goto(c, NoWrite)
  /\ littered' = littered \cup {ch \in Chats : Is(ch, write[c].taken)}
  /\ UNCHANGED <<disk, copy, base, edits, removals, opens, made, dropped, deleted, stored>>

\* The process dies, in the middle of a write or not, and with it the copy.
\* A record being appended may be there but for its newline.
Crash(c) ==
  LET w == write[c]
      out == Out(w.chat, base[c][w.chat], w.now)
  IN  /\ faults < MaxFaults /\ ~At(c, "closed")
      /\ faults' = faults + 1
      /\ LetGo(c) /\ Goto(c, Closed)
      /\ copy' = [copy EXCEPT ![c] = NoChats]
      /\ base' = [base EXCEPT ![c] = NoChats]
      /\ littered' = littered \cup {ch \in Chats : Knows(c, ch)}
      /\ \/ log' = log
         \/ /\ At(c, "store") /\ Is(w.chat, log) /\ log[w.chat].tail = <<>>
            /\ out.log.gen = log[w.chat].gen /\ out.log.msgs # log[w.chat].msgs
            /\ log' = [log EXCEPT ![w.chat].tail = Rest(out.log.msgs, Len(log[w.chat].msgs))]
      /\ UNCHANGED <<index, gens, edits, removals, opens, made, dropped, deleted, stored>>

-----------------------------------------------------------------------------
Editing(c) ==
  \E ch \in Chats :
    Say(c, ch) \/ Rename(c, ch) \/ Queue(c, ch) \/ Create(c, ch)
      \/ Unqueue(c, ch) \/ Undo(c, ch) \/ Delete(c, ch)

Writing(c) ==
  \/ OwnNext(c) \/ StoreOwn(c) \/ TakeState(c) \/ StoreFile(c) \/ StoreIndex(c)
  \/ Purge(c) \/ Finish(c) \/ Later(c) \/ End(c)

Next ==
  \E c \in Copies :
    \/ ReadIndex(c) \/ ReadLogs(c) \/ Editing(c)
    \/ Begin(c) \/ Writing(c) \/ \E ch \in Chats : Checkpoint(c, ch)
    \/ Fail(c) \/ Crash(c)

Spec == Init /\ [][Next]_vars

-----------------------------------------------------------------------------
\* The types of the files, the copies and their writes.
Writes == [pc : {"closed", "opening", "idle", "own", "store", "files", "purge",
                 "later"},
           back : {"idle", "own", "later"},
           todo : SUBSET Chats, own : SUBSET Chats, files : SUBSET Chats,
           doomed : SUBSET Chats, later : SUBSET Chats,
           chat : {None} \cup Chats, now : Histories, upTo : 0..MaxEdits,
           taken : [Chats -> {None} \cup Held],
           next : [Chats -> {None} \cup Rows]]

TypeOK ==
  /\ index \in [Chats -> {None} \cup Rows]
  /\ log \in [Chats -> {None} \cup Logs(1..MaxEdits)]
  /\ gens \in [Chats -> Nat]
  /\ stateLock \in {None} \cup Copies
  /\ chatLock \in [Chats -> {None} \cup Copies]
  /\ copy \in [Copies -> [Chats -> {None} \cup Held]]
  /\ base \in [Copies -> [Chats -> {None} \cup Held]]
  /\ write \in [Copies -> Writes]
  /\ edits \in 0..MaxEdits

\* A chat the index lists has its transcript on disk, whenever a reader or a
\* crash looks: transcripts are stored before the index lists them and removed
\* after it drops them (write.ts: "a session must never be listed before it is
\* readable").
ListedIsReadable == \A ch \in Chats : Is(ch, index) => Is(ch, log)

\* A copy's baseline holds nothing that was never on disk: what it remembers as
\* stored it will not store again, however the copy was edited, its transcript
\* deferred or its write thrown out half way (write.ts: remembering the object
\* as it was at the end lost a message queued while it was being written).
RememberedWasStored ==
  \A c \in Copies, ch \in Chats :
    Is(ch, base[c]) /\ Is(ch, index) /\ base[c][ch].msgs # None
      => ItemsOf(ch, base[c][ch], base[c][ch].msgs) \subseteq stored

\* No message is in a log twice, however two copies' appends, rewrites, failed
\* writes and torn records met there.
NoneTwice ==
  \A ch \in Chats : Is(ch, log) =>
    \A i, j \in DOMAIN log[ch].msgs : log[ch].msgs[i] = log[ch].msgs[j] => i = j

\* A transcript no chat is listed for is one that a live copy still knows of,
\* and its writes list or remove, unless the process that knew of it died or
\* failed to store it.
OrphanIsOwed ==
  \A ch \in Chats : Is(ch, log) /\ ~Is(ch, index) /\ ch \notin littered =>
    \E c \in Copies : Knows(c, ch)

\* The files do what the store promises: an edit is stored once, goes only when
\* it was taken out, and never comes back, whichever stale copy is written
\* next.
Promised == INSTANCE Store WITH here <- OnDisk, gone <- stored \ OnDisk
ImplementsStore == Promised!Spec

\* When a write returns, every edit that was in its copy as it took what it
\* stores has been on disk, unless its chat was deleted: a transcript whose
\* chat lock had to be waited for, that was left for later, or that is stored
\* with the index, is not forgotten.
WriteStores ==
  [][\A c \in Copies, ch \in Chats :
       End(c) /\ Loaded(c, ch) /\ Is(ch, index) =>
         \A i \in ItemsOf(ch, copy[c][ch], copy[c][ch].msgs) :
           i.n <= write[c].upTo => i \in stored]_vars
=============================================================================
