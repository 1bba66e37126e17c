----------------------------- MODULE Transcripts -----------------------------
(***************************************************************************)
(* How a conversation's history is put on disk (session/store/             *)
(* transcripts.ts and chat-log.ts): a log that is appended to, and a       *)
(* three-way merge for everything that is not an append.                   *)
(*                                                                         *)
(* A history is a sequence of messages.  A log is [gen, msgs, tail]: gen   *)
(* is new each time the file is written whole; tail holds the messages of  *)
(* a record whose line is complete but for its newline, cut short by a     *)
(* crash: not read, until the next append starts a fresh line after it.    *)
(* (A record cut shorter than that never parses: as if never written.)     *)
(*                                                                         *)
(* A held history is [msgs, at]: at is where it is known to stand in the   *)
(* log, as [gen, end] (positions), or Nowhere.                             *)
(***************************************************************************)
EXTENDS Naturals, Sequences

Logs(Message) == [gen : Nat \ {0}, msgs : Seq(Message), tail : Seq(Message)]
Spots == [gen : Nat, end : Nat]
Nowhere == [gen |-> 0, end |-> 0]   \* generations start at 1

Rest(s, n) == SubSeq(s, n + 1, Len(s))

\* commonPrefixLength.
CommonPrefix(s, t) ==
  CHOOSE n \in 0..Len(s) :
    /\ n <= Len(t)
    /\ \A i \in 1..n : s[i] = t[i]
    /\ n < Len(s) /\ n < Len(t) => s[n + 1] # t[n + 1]

\* extendsHistory.
Extends(s, prefix) == CommonPrefix(prefix, s) = Len(prefix)

\* mergeTranscripts: `base` the writer last agreed with, `next` its own copy,
\* `disk` what is stored.
TakesNext(base, next, disk) ==
  disk = base \/ (~Extends(next, base) /\ ~Extends(disk, base))

\* Faulty variant: the writer's copy replaces what is stored.
MergeTranscripts_Replaces(base, next, disk) == next

MergeTranscripts(base, next, disk) ==
  LET ours == Rest(next, Len(base))
      theirs == IF Extends(disk, base) THEN Rest(disk, Len(base)) ELSE <<>>
  IN  IF TakesNext(base, next, disk) THEN next
      ELSE IF Extends(next, base)
           THEN disk \o Rest(ours, CommonPrefix(theirs, ours))
           ELSE next \o theirs

\* An append, after whatever line a crash left open (appendChatLog), and the
\* whole file in place of the old one (writeChatLog).
Appended(log, add) ==
  IF add = <<>> THEN log
  ELSE [log EXCEPT !.msgs = log.msgs \o log.tail \o add, !.tail = <<>>]

Rewritten(gen, msgs) == [gen |-> gen, msgs |-> msgs, tail |-> <<>>]

\* What storeTranscript adds to the log by appending alone, when the base is
\* known to stand in it.
OnlyAppended(log, base, next) ==
  /\ base.at # Nowhere /\ base.at.gen = log.gen
  /\ base.at.end <= Len(log.msgs)
  /\ Extends(next, base.msgs)

AppendedSince(log, base, next) ==
  LET ours == Rest(next, Len(base.msgs))
  IN  Rest(ours, CommonPrefix(Rest(log.msgs, base.at.end), ours))

\* storeTranscript for a chat that has a log: the log it leaves, and where
\* `next` then stands in it.  `gen` is the generation of a file written whole.
StoreTranscript(log, base, next, gen) ==
  IF OnlyAppended(log, base, next)
  THEN LET add == AppendedSince(log, base, next)
       IN  [log |-> Appended(log, add),
            at |-> [gen |-> log.gen, end |-> Len(log.msgs) + Len(add)]]
  ELSE LET merged == MergeTranscripts(base.msgs, next, log.msgs)
           grows == Extends(merged, log.msgs)
           now == IF grows THEN Appended(log, Rest(merged, Len(log.msgs)))
                           ELSE Rewritten(gen, merged)
       IN  [log |-> now,
            at |-> IF TakesNext(base.msgs, next, log.msgs)
                     THEN [gen |-> now.gen, end |-> Len(merged)] ELSE Nowhere]

\* A chat that has no log yet.
FirstStored(next, gen) ==
  [log |-> Rewritten(gen, next), at |-> [gen |-> gen, end |-> Len(next)]]
=============================================================================
