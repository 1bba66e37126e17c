-------------------------- MODULE TranscriptProofs --------------------------
(* Proofs about how a history is put on disk: what a merge and a store      *)
(* keep, for histories of any length over any messages.                     *)
EXTENDS Transcripts, SequenceTheorems, WellFoundedInduction, TLAPS

-----------------------------------------------------------------------------
(* The common prefix of two histories.                                      *)

Below == {ss \in Nat \X Nat : ss[1] < ss[2]}

\* Every set of numbers that is not empty has a least one.
LEMMA Least ==
  ASSUME NEW S \in SUBSET Nat, S # {}
  PROVE  \E n \in S : \A m \in S : n <= m
<1>1. OpToRel(<, Nat) = Below
  BY Zenon DEF OpToRel, Below
<1>2. IsWellFoundedOn(Below, Nat)
  BY NatLessThanWellFounded, <1>1, Zenon
<1>3. PICK x \in S : \A y \in S : <<y, x>> \notin Below
  BY <1>2, WFMin
<1>4. ASSUME NEW y \in S PROVE x <= y
  <2>1. ~(y < x)
    BY <1>3 DEF Below
  <2> QED
    BY <2>1
<1> QED
  BY <1>4

\* n is how far s and t agree.
Agree(s, t, n) ==
  /\ n \in 0..Len(s) /\ n <= Len(t)
  /\ \A i \in 1..n : s[i] = t[i]
  /\ n < Len(s) /\ n < Len(t) => s[n + 1] # t[n + 1]

\* commonPrefixLength finds it.
LEMMA CommonPrefixAgrees ==
  ASSUME NEW S, NEW s \in Seq(S), NEW t \in Seq(S)
  PROVE  Agree(s, t, CommonPrefix(s, t))
<1> DEFINE Differ == {i \in 1..Len(s) : i <= Len(t) /\ s[i] # t[i]}
<1>0. Len(s) \in Nat /\ Len(t) \in Nat
  OBVIOUS
<1>1. \E n \in 0..Len(s) : Agree(s, t, n)
  <2>1. CASE Differ = {}
    <3>1. CASE Len(s) <= Len(t)
      BY <1>0, <2>1, <3>1 DEF Agree
    <3>2. CASE ~(Len(s) <= Len(t))
      <4>1. Len(t) \in 0..Len(s)
        BY <1>0, <3>2
      <4>2. Agree(s, t, Len(t))
        BY <1>0, <2>1, <3>2 DEF Agree
      <4> QED
        BY <4>1, <4>2
    <3> QED
      BY <3>1, <3>2
  <2>2. CASE Differ # {}
    <3>0. Differ \in SUBSET Nat
      BY <1>0
    <3>1. PICK d \in Differ : \A e \in Differ : d <= e
      <4> HIDE DEF Differ
      <4> QED
        BY <2>2, <3>0, Least
    <3>2. d - 1 \in 0..Len(s)
      BY <1>0
    <3>3. \A i \in 1..(d - 1) : s[i] = t[i]
      <4> SUFFICES ASSUME NEW i \in 1..(d - 1), s[i] # t[i] PROVE FALSE
        OBVIOUS
      <4>1. i \in Differ
        BY <1>0
      <4> QED
        BY <3>1, <4>1
    <3>4. (d - 1) + 1 = d
      BY <1>0
    <3>5. Agree(s, t, d - 1)
      BY <1>0, <3>2, <3>3, <3>4 DEF Agree
    <3> QED
      BY <3>2, <3>5
  <2> QED
    BY <2>1, <2>2
<1>2. CommonPrefix(s, t) = CHOOSE n \in 0..Len(s) : Agree(s, t, n)
  <2>1. \A n \in 0..Len(s) :
          Agree(s, t, n) <=>
            /\ n <= Len(t)
            /\ \A i \in 1..n : s[i] = t[i]
            /\ n < Len(s) /\ n < Len(t) => s[n + 1] # t[n + 1]
    BY DEF Agree
  <2> QED
    BY <2>1 DEF CommonPrefix
<1> QED
  BY <1>1, <1>2

\* extendsHistory says that one history goes on from the other.
LEMMA ExtendsIs ==
  ASSUME NEW S, NEW s \in Seq(S), NEW p \in Seq(S)
  PROVE  Extends(s, p) <=> /\ Len(p) <= Len(s)
                           /\ \A i \in 1..Len(p) : p[i] = s[i]
<1>1. Agree(p, s, CommonPrefix(p, s))
  BY CommonPrefixAgrees
<1>2. Len(s) \in Nat /\ Len(p) \in Nat
  OBVIOUS
<1> DEFINE n == CommonPrefix(p, s)
<1>3. CASE n = Len(p)
  BY <1>1, <1>3 DEF Extends, Agree
<1>4. CASE n # Len(p)
  <2>1. n < Len(p) /\ n \in Nat
    BY <1>1, <1>2, <1>4 DEF Agree
  <2>2. n < Len(s) => p[n + 1] # s[n + 1] /\ n + 1 \in 1..Len(p)
    BY <1>1, <1>2, <2>1 DEF Agree
  <2> QED
    BY <1>1, <1>2, <1>4, <2>1, <2>2 DEF Extends, Agree
<1> QED
  BY <1>3, <1>4

\* The rest of a history after its first n messages.
LEMMA RestIs ==
  ASSUME NEW S, NEW s \in Seq(S), NEW n \in Nat
  PROVE  /\ Rest(s, n) \in Seq(S)
         /\ Len(Rest(s, n)) = IF n <= Len(s) THEN Len(s) - n ELSE 0
         /\ \A i \in 1..Len(Rest(s, n)) : Rest(s, n)[i] = s[n + i]
<1>1. Len(s) \in Nat /\ n + 1 \in Int /\ Len(s) \in Int
  OBVIOUS
<1>2. \A i \in (n + 1)..Len(s) : s[i] \in S
  BY <1>1
<1>3. /\ Rest(s, n) \in Seq(S)
      /\ Len(Rest(s, n)) = IF n + 1 <= Len(s) THEN Len(s) - (n + 1) + 1 ELSE 0
      /\ \A i \in 1..(Len(s) - (n + 1) + 1) : Rest(s, n)[i] = s[(n + 1) + i - 1]
  BY <1>1, <1>2, SubSeqProperties DEF Rest
<1>4. Len(Rest(s, n)) = IF n <= Len(s) THEN Len(s) - n ELSE 0
  BY <1>1, <1>3
<1>5. ASSUME NEW i \in 1..Len(Rest(s, n)) PROVE Rest(s, n)[i] = s[n + i]
  <2>1. i \in 1..(Len(s) - (n + 1) + 1) /\ (n + 1) + i - 1 = n + i
    BY <1>1, <1>4
  <2> QED
    BY <1>3, <2>1
<1> QED
  BY <1>3, <1>4, <1>5

-----------------------------------------------------------------------------
(* A merge and a store.                                                     *)

Messages(s) == {s[i] : i \in 1..Len(s)}

\* What follows where two histories part is in the one or the other.
LEMMA RestFound ==
  ASSUME NEW S, NEW theirs \in Seq(S), NEW ours \in Seq(S)
  PROVE  Messages(ours)
           \subseteq Messages(theirs)
                       \cup Messages(Rest(ours, CommonPrefix(theirs, ours)))
<1> DEFINE n == CommonPrefix(theirs, ours)
<1>1. Agree(theirs, ours, n)
  BY CommonPrefixAgrees
<1>2. Len(theirs) \in Nat /\ Len(ours) \in Nat
  OBVIOUS
<1>3. n \in Nat /\ n <= Len(theirs) /\ n <= Len(ours)
  BY <1>1, <1>2 DEF Agree
<1>4. /\ Len(Rest(ours, n)) = Len(ours) - n
      /\ \A i \in 1..Len(Rest(ours, n)) : Rest(ours, n)[i] = ours[n + i]
  <2> HIDE DEF n
  <2> QED
    BY <1>2, <1>3, RestIs
<1>5. ASSUME NEW i \in 1..Len(ours)
      PROVE  ours[i] \in Messages(theirs) \cup Messages(Rest(ours, n))
  <2>1. CASE i <= n
    <3>1. i \in 1..n /\ i \in 1..Len(theirs)
      BY <1>2, <1>3, <2>1
    <3>2. theirs[i] = ours[i]
      BY <1>1, <3>1 DEF Agree
    <3> QED
      BY <3>1, <3>2 DEF Messages
  <2>2. CASE ~(i <= n)
    <3>1. i - n \in 1..Len(Rest(ours, n)) /\ n + (i - n) = i
      BY <1>2, <1>3, <1>4, <2>2
    <3>2. Rest(ours, n)[i - n] = ours[i]
      BY <1>4, <3>1
    <3> QED
      BY <3>1, <3>2 DEF Messages
  <2> QED
    BY <2>1, <2>2
<1> QED
  BY <1>5 DEF Messages

\* Two histories one after the other.
LEMMA ConcatMessages ==
  ASSUME NEW S, NEW s \in Seq(S), NEW t \in Seq(S)
  PROVE  s \o t \in Seq(S) /\ Messages(s \o t) = Messages(s) \cup Messages(t)
<1>1. /\ s \o t \in Seq(S) /\ Len(s \o t) = Len(s) + Len(t)
      /\ \A i \in 1..Len(s) + Len(t) :
           (s \o t)[i] = IF i <= Len(s) THEN s[i] ELSE t[i - Len(s)]
  BY ConcatProperties
<1>2. Len(s) \in Nat /\ Len(t) \in Nat
  OBVIOUS
<1>3. ASSUME NEW i \in 1..Len(s) PROVE s[i] \in Messages(s \o t)
  <2>1. i \in 1..Len(s \o t) /\ (s \o t)[i] = s[i]
    BY <1>1, <1>2
  <2> QED
    BY <2>1 DEF Messages
<1>4. ASSUME NEW i \in 1..Len(t) PROVE t[i] \in Messages(s \o t)
  <2>1. Len(s) + i \in 1..Len(s \o t) /\ ~(Len(s) + i <= Len(s))
        /\ (Len(s) + i) - Len(s) = i
    BY <1>1, <1>2
  <2>2. (s \o t)[Len(s) + i] = t[i]
    BY <1>1, <2>1
  <2> QED
    BY <2>1, <2>2 DEF Messages
<1>5. ASSUME NEW i \in 1..Len(s \o t)
      PROVE  (s \o t)[i] \in Messages(s) \cup Messages(t)
  <2>1. CASE i <= Len(s)
    BY <1>1, <1>2, <2>1 DEF Messages
  <2>2. CASE ~(i <= Len(s))
    <3>1. i - Len(s) \in 1..Len(t) /\ (s \o t)[i] = t[i - Len(s)]
      BY <1>1, <1>2, <2>2
    <3> QED
      BY <3>1 DEF Messages
  <2> QED
    BY <2>1, <2>2
<1> QED
  BY <1>1, <1>3, <1>4, <1>5 DEF Messages

\* Nothing is in the rest of a history that is not in the history.
LEMMA RestMessages ==
  ASSUME NEW S, NEW s \in Seq(S), NEW n \in Nat
  PROVE  Messages(Rest(s, n)) \subseteq Messages(s)
<1>1. /\ Len(Rest(s, n)) = IF n <= Len(s) THEN Len(s) - n ELSE 0
      /\ \A i \in 1..Len(Rest(s, n)) : Rest(s, n)[i] = s[n + i]
  BY RestIs
<1>2. Len(s) \in Nat
  OBVIOUS
<1>3. \A i \in 1..Len(Rest(s, n)) : n + i \in 1..Len(s)
  BY <1>1, <1>2
<1> QED
  BY <1>1, <1>3 DEF Messages

\* A merge is a history (mergeTranscripts).
LEMMA MergeIsHistory ==
  ASSUME NEW S, NEW base \in Seq(S), NEW next \in Seq(S), NEW disk \in Seq(S)
  PROVE  MergeTranscripts(base, next, disk) \in Seq(S)
<1> DEFINE ours == Rest(next, Len(base))
           theirs == IF Extends(disk, base) THEN Rest(disk, Len(base)) ELSE <<>>
<1>1. ours \in Seq(S) /\ theirs \in Seq(S)
  BY RestIs
<1> HIDE DEF ours, theirs
<1>2. CommonPrefix(theirs, ours) \in Nat
  BY <1>1, CommonPrefixAgrees DEF Agree
<1>3. Rest(ours, CommonPrefix(theirs, ours)) \in Seq(S)
  BY <1>1, <1>2, RestIs
<1>4. /\ disk \o Rest(ours, CommonPrefix(theirs, ours)) \in Seq(S)
      /\ next \o theirs \in Seq(S)
  BY <1>1, <1>3, ConcatMessages
<1> QED
  BY <1>4 DEF MergeTranscripts, ours, theirs

\* Messages the writer never saw are never silently dropped, and its own are
\* not either (transcripts.ts, mergeTranscripts): what the disk has beyond the
\* history both started from is in the merge, and so is what the writer has.
THEOREM MergeKeepsBoth ==
  ASSUME NEW S, NEW base \in Seq(S), NEW next \in Seq(S), NEW disk \in Seq(S)
  PROVE  LET all == Messages(MergeTranscripts(base, next, disk))
         IN  /\ Extends(disk, base) => Messages(Rest(disk, Len(base))) \subseteq all
             /\ Extends(next, base) => Messages(Rest(next, Len(base))) \subseteq all
<1> DEFINE ours == Rest(next, Len(base))
           theirs == IF Extends(disk, base) THEN Rest(disk, Len(base)) ELSE <<>>
           all == Messages(MergeTranscripts(base, next, disk))
           new == Rest(ours, CommonPrefix(theirs, ours))
<1>1. ours \in Seq(S) /\ theirs \in Seq(S) /\ Rest(disk, Len(base)) \in Seq(S)
  BY RestIs
<1>2. new \in Seq(S)
  <2> HIDE DEF ours, theirs
  <2>1. CommonPrefix(theirs, ours) \in Nat
    BY <1>1, CommonPrefixAgrees DEF Agree
  <2> QED
    BY <1>1, <2>1, RestIs
<1>3. /\ Messages(ours) \subseteq Messages(next)
      /\ Messages(theirs) \subseteq Messages(disk)
  <2>1. Messages(<<>>) = {}
    BY DEF Messages
  <2> QED
    BY <2>1, RestMessages
<1>4. Messages(ours) \subseteq Messages(theirs) \cup Messages(new)
  <2> HIDE DEF ours, theirs
  <2> QED
    BY <1>1, RestFound
<1>5. /\ Messages(disk \o new) = Messages(disk) \cup Messages(new)
      /\ Messages(next \o theirs) = Messages(next) \cup Messages(theirs)
  <2> HIDE DEF new, theirs
  <2> QED
    BY <1>1, <1>2, ConcatMessages
<1>6. CASE TakesNext(base, next, disk)
  <2>1. MergeTranscripts(base, next, disk) = next
    BY <1>6 DEF MergeTranscripts
  <2>2. ASSUME Extends(disk, base) PROVE Messages(Rest(disk, Len(base))) = {}
    <3>1. CASE disk = base
      <4>1. Len(Rest(disk, Len(base))) = 0
        BY <3>1, RestIs
      <4> QED
        BY <4>1 DEF Messages
    <3>2. CASE disk # base
      <4>1. ~Extends(disk, base)
        BY <1>6, <3>2 DEF TakesNext
      <4> QED
        BY <2>2, <4>1
    <3> QED
      BY <3>1, <3>2
  <2> QED
    BY <1>3, <2>1, <2>2
<1>7. CASE ~TakesNext(base, next, disk) /\ Extends(next, base)
  <2>1. MergeTranscripts(base, next, disk) = disk \o new
    BY <1>7 DEF MergeTranscripts
  <2>2. Messages(Rest(disk, Len(base))) \subseteq Messages(disk)
    BY RestMessages
  <2> HIDE DEF new, theirs, ours
  <2>3. Messages(ours) \subseteq all
    BY <1>3, <1>4, <1>5, <2>1
  <2> QED
    BY <1>5, <2>1, <2>2, <2>3 DEF ours
<1>8. CASE ~TakesNext(base, next, disk) /\ ~Extends(next, base)
  <2>1. MergeTranscripts(base, next, disk) = next \o theirs
    BY <1>8 DEF MergeTranscripts
  <2>2. Extends(disk, base) => theirs = Rest(disk, Len(base))
    OBVIOUS
  <2> HIDE DEF theirs
  <2> QED
    BY <1>5, <1>8, <2>1, <2>2
<1> QED
  BY <1>6, <1>7, <1>8

\* An append keeps the log and adds to it, a torn tail or not (appendChatLog).
LEMMA AppendedKeeps ==
  ASSUME NEW S, NEW log \in Logs(S), NEW add \in Seq(S)
  PROVE  /\ Appended(log, add) \in Logs(S)
         /\ Messages(log.msgs) \cup Messages(add)
              \subseteq Messages(Appended(log, add).msgs)
<1>1. CASE add = <<>>
  <2>1. Messages(add) = {}
    BY <1>1 DEF Messages
  <2> QED
    BY <1>1, <2>1 DEF Appended
<1>2. CASE add # <<>>
  <2>1. /\ log.msgs \in Seq(S) /\ log.tail \in Seq(S)
    BY DEF Logs
  <2> DEFINE both == log.msgs \o log.tail
             all == both \o add
  <2>2. /\ both \in Seq(S)
        /\ Messages(both) = Messages(log.msgs) \cup Messages(log.tail)
    BY <2>1, ConcatMessages
  <2>3. /\ all \in Seq(S) /\ Messages(all) = Messages(both) \cup Messages(add)
    <3> HIDE DEF both
    <3> QED
      BY <2>2, ConcatMessages
  <2>4. Appended(log, add) = [log EXCEPT !.msgs = all, !.tail = <<>>]
    BY <1>2 DEF Appended
  <2> HIDE DEF all
  <2>5. Appended(log, add) = [gen |-> log.gen, msgs |-> all, tail |-> <<>>]
    BY <2>4 DEF Logs
  <2>6. Appended(log, add).msgs = all /\ Appended(log, add) \in Logs(S)
    BY <2>3, <2>5 DEF Logs
  <2> QED
    BY <2>2, <2>3, <2>6
<1> QED
  BY <1>1, <1>2

\* A store that does not merely append leaves a log with all that was merged,
\* appended to the old one or in its place.
LEMMA MergedIsStored ==
  ASSUME NEW S, NEW log \in Logs(S), NEW merged \in Seq(S), NEW gen \in Nat \ {0}
  PROVE  LET now == IF Extends(merged, log.msgs)
                    THEN Appended(log, Rest(merged, Len(log.msgs)))
                    ELSE Rewritten(gen, merged)
         IN  now \in Logs(S) /\ Messages(merged) \subseteq Messages(now.msgs)
<1> DEFINE new == Rest(merged, Len(log.msgs))
           now == IF Extends(merged, log.msgs) THEN Appended(log, new)
                                               ELSE Rewritten(gen, merged)
<1>1. log.msgs \in Seq(S) /\ Len(log.msgs) \in Nat
  BY DEF Logs
<1>2. CASE Extends(merged, log.msgs)
  <2>1. new \in Seq(S)
    BY <1>1, RestIs
  <2>2. CommonPrefix(log.msgs, merged) = Len(log.msgs)
    BY <1>2 DEF Extends
  <2>3. Messages(merged) \subseteq Messages(log.msgs) \cup Messages(new)
    BY <1>1, <2>2, RestFound
  <2>4. now = Appended(log, new)
    BY <1>2
  <2> HIDE DEF new, now
  <2>5. now \in Logs(S) /\ Messages(merged) \subseteq Messages(now.msgs)
    BY <2>1, <2>3, <2>4, AppendedKeeps
  <2> QED
    BY <2>5 DEF now, new
<1>3. CASE ~Extends(merged, log.msgs)
  <2>1. now = [gen |-> gen, msgs |-> merged, tail |-> <<>>]
    BY <1>3 DEF Rewritten
  <2> HIDE DEF new, now
  <2>2. now \in Logs(S) /\ Messages(merged) \subseteq Messages(now.msgs)
    BY <2>1 DEF Logs
  <2> QED
    BY <2>2 DEF now, new
<1> QED
  BY <1>2, <1>3

\* What one store keeps (storeTranscript), whether it appends, merges or writes
\* the file anew: what the log has beyond the history the writer started from,
\* if others only added to that, and what the writer added to it.
THEOREM StoreKeepsBoth ==
  ASSUME NEW S, NEW log \in Logs(S), NEW base, NEW next \in Seq(S),
         base.msgs \in Seq(S), base.at \in Spots, NEW gen \in Nat \ {0}
  PROVE  LET out == StoreTranscript(log, base, next, gen)
             all == Messages(out.log.msgs)
         IN  /\ out.log \in Logs(S) /\ out.at \in Spots
             /\ Extends(log.msgs, base.msgs)
                  => Messages(Rest(log.msgs, Len(base.msgs))) \subseteq all
             /\ Extends(next, base.msgs)
                  => Messages(Rest(next, Len(base.msgs))) \subseteq all
<1> DEFINE out == StoreTranscript(log, base, next, gen)
           ours == Rest(next, Len(base.msgs))
           beyond == Rest(log.msgs, Len(base.msgs))
<1>1. /\ log.msgs \in Seq(S) /\ log.gen \in Nat \ {0} /\ base.at.end \in Nat
      /\ Len(log.msgs) \in Nat /\ Len(base.msgs) \in Nat
  BY DEF Logs, Spots
<1>2. ours \in Seq(S) /\ Messages(beyond) \subseteq Messages(log.msgs)
  BY <1>1, RestIs, RestMessages
<1>3. CASE OnlyAppended(log, base, next)
  <2> DEFINE theirs == Rest(log.msgs, base.at.end)
             add == AppendedSince(log, base, next)
  <2>1. theirs \in Seq(S) /\ Messages(theirs) \subseteq Messages(log.msgs)
    BY <1>1, RestIs, RestMessages
  <2>2. add = Rest(ours, CommonPrefix(theirs, ours))
    BY DEF AppendedSince
  <2> HIDE DEF ours, theirs, add
  <2>3. CommonPrefix(theirs, ours) \in Nat
    BY <1>2, <2>1, CommonPrefixAgrees DEF Agree
  <2>4. add \in Seq(S)
    BY <1>2, <2>2, <2>3, RestIs
  <2>5. Messages(ours) \subseteq Messages(log.msgs) \cup Messages(add)
    BY <1>2, <2>1, <2>2, RestFound
  <2>6. /\ out.log = Appended(log, add)
        /\ out.at = [gen |-> log.gen, end |-> Len(log.msgs) + Len(add)]
    BY <1>3 DEF StoreTranscript, add
  <2>7. Len(add) \in Nat
    BY <2>4
  <2>8. out.at \in Spots
    BY <1>1, <2>6, <2>7 DEF Spots
  <2>9. out.log \in Logs(S)
        /\ Messages(log.msgs) \cup Messages(add) \subseteq Messages(out.log.msgs)
    BY <2>4, <2>6, AppendedKeeps
  <2> HIDE DEF out, beyond
  <2> QED
    BY <1>2, <2>5, <2>8, <2>9 DEF out, ours, beyond
<1>4. CASE ~OnlyAppended(log, base, next)
  <2> DEFINE merged == MergeTranscripts(base.msgs, next, log.msgs)
             grows == Extends(merged, log.msgs)
             new == Rest(merged, Len(log.msgs))
             now == IF grows THEN Appended(log, new) ELSE Rewritten(gen, merged)
  <2>1. merged \in Seq(S)
    BY <1>1, MergeIsHistory
  <2>2. /\ Extends(log.msgs, base.msgs) => Messages(beyond) \subseteq Messages(merged)
        /\ Extends(next, base.msgs) => Messages(ours) \subseteq Messages(merged)
    BY <1>1, MergeKeepsBoth
  <2>3. /\ out.log = now
        /\ out.at = IF TakesNext(base.msgs, next, log.msgs)
                      THEN [gen |-> now.gen, end |-> Len(merged)] ELSE Nowhere
    BY <1>4 DEF StoreTranscript
  <2> HIDE DEF merged
  <2>4. now \in Logs(S) /\ Messages(merged) \subseteq Messages(now.msgs)
    BY <2>1, MergedIsStored
  <2> HIDE DEF now
  <2>5. now.gen \in Nat /\ Len(merged) \in Nat
    BY <2>1, <2>4 DEF Logs
  <2>6. out.at \in Spots
    BY <2>3, <2>5 DEF Nowhere, Spots
  <2> HIDE DEF out, ours, beyond
  <2> QED
    BY <2>2, <2>3, <2>4, <2>6 DEF out, ours, beyond
<1> QED
  BY <1>3, <1>4

\* A history goes on from another: it has what that has, and the rest.
LEMMA ExtendsMessages ==
  ASSUME NEW S, NEW s \in Seq(S), NEW p \in Seq(S), Extends(s, p)
  PROVE  Messages(s) \subseteq Messages(p) \cup Messages(Rest(s, Len(p)))
<1>1. CommonPrefix(p, s) = Len(p)
  BY DEF Extends
<1> QED
  BY <1>1, RestFound

\* What is stored of the writer's copy (storeTranscript): all of it is in the
\* log then, but for what the writer started from and others have undone; and
\* all of it, when the writer starts from the log itself.
THEOREM StoreHoldsNext ==
  ASSUME NEW S, NEW log \in Logs(S), NEW base, NEW next \in Seq(S),
         base.msgs \in Seq(S), base.at \in Spots, NEW gen \in Nat \ {0}
  PROVE  LET all == Messages(StoreTranscript(log, base, next, gen).log.msgs)
         IN  /\ Messages(next) \subseteq Messages(base.msgs) \cup all
             /\ log.msgs = base.msgs /\ base.at = Nowhere => Messages(next) \subseteq all
<1> DEFINE out == StoreTranscript(log, base, next, gen)
           all == Messages(out.log.msgs)
           merged == MergeTranscripts(base.msgs, next, log.msgs)
<1>1. log.msgs \in Seq(S)
  BY DEF Logs
<1>2. ~OnlyAppended(log, base, next) => Messages(merged) \subseteq all
  <2> SUFFICES ASSUME ~OnlyAppended(log, base, next)
               PROVE  Messages(merged) \subseteq all
    OBVIOUS
  <2>1. merged \in Seq(S)
    BY <1>1, MergeIsHistory
  <2>2. out.log = IF Extends(merged, log.msgs)
                    THEN Appended(log, Rest(merged, Len(log.msgs)))
                    ELSE Rewritten(gen, merged)
    BY DEF StoreTranscript
  <2> HIDE DEF merged, out
  <2> QED
    BY <2>1, <2>2, MergedIsStored
<1>3. TakesNext(base.msgs, next, log.msgs) => merged = next
  BY DEF MergeTranscripts
<1>4. Messages(next) \subseteq Messages(base.msgs) \cup all
  <2>1. CASE Extends(next, base.msgs)
    <3>1. Messages(Rest(next, Len(base.msgs))) \subseteq all
      BY <2>1, StoreKeepsBoth
    <3>2. Messages(next) \subseteq Messages(base.msgs)
                                \cup Messages(Rest(next, Len(base.msgs)))
      BY <2>1, ExtendsMessages
    <3> HIDE DEF all
    <3> QED
      BY <3>1, <3>2
  <2>2. CASE ~Extends(next, base.msgs)
    <3> DEFINE theirs == IF Extends(log.msgs, base.msgs)
                           THEN Rest(log.msgs, Len(base.msgs)) ELSE <<>>
    <3>1. Messages(next) \subseteq Messages(merged)
      <4>1. CASE TakesNext(base.msgs, next, log.msgs)
        BY <1>3, <4>1
      <4>2. CASE ~TakesNext(base.msgs, next, log.msgs)
        <5>1. merged = next \o theirs
          BY <2>2, <4>2 DEF MergeTranscripts
        <5>2. Rest(log.msgs, Len(base.msgs)) \in Seq(S) /\ <<>> \in Seq(S)
          BY <1>1, RestIs
        <5>3. theirs \in Seq(S)
          BY <5>2
        <5> HIDE DEF theirs, merged
        <5> QED
          BY <5>1, <5>3, ConcatMessages
      <4> QED
        BY <4>1, <4>2
    <3>2. ~OnlyAppended(log, base, next)
      BY <2>2 DEF OnlyAppended
    <3> QED
      BY <1>2, <3>1, <3>2
  <2> QED
    BY <2>1, <2>2
<1>5. log.msgs = base.msgs /\ base.at = Nowhere => Messages(next) \subseteq all
  <2> SUFFICES ASSUME log.msgs = base.msgs, base.at = Nowhere
               PROVE  Messages(next) \subseteq all
    OBVIOUS
  <2>1. ~OnlyAppended(log, base, next) /\ TakesNext(base.msgs, next, log.msgs)
    BY DEF OnlyAppended, TakesNext
  <2> QED
    BY <1>2, <1>3, <2>1
<1> QED
  BY <1>4, <1>5

-----------------------------------------------------------------------------
(* A message is in a log once.                                              *)

\* No message is in a history twice.
Once(s) == \A i, j \in 1..Len(s) : s[i] = s[j] => i = j

\* What a history goes on with is not in what it goes on from.
LEMMA RestOnce ==
  ASSUME NEW S, NEW s \in Seq(S), Once(s)
  PROVE  /\ \A n \in Nat : Once(Rest(s, n))
         /\ \A p \in Seq(S) : Extends(s, p) =>
              Messages(Rest(s, Len(p))) \cap Messages(p) = {}
<1>0. Len(s) \in Nat
  OBVIOUS
<1>1. ASSUME NEW n \in Nat
      PROVE  /\ Once(Rest(s, n))
             /\ \A i \in 1..Len(Rest(s, n)) : n + i \in 1..Len(s) /\ Rest(s, n)[i] = s[n + i]
  <2>1. /\ Len(Rest(s, n)) = IF n <= Len(s) THEN Len(s) - n ELSE 0
        /\ \A i \in 1..Len(Rest(s, n)) : Rest(s, n)[i] = s[n + i]
    BY RestIs
  <2>2. \A i \in 1..Len(Rest(s, n)) : i \in Nat /\ n + i \in 1..Len(s)
    BY <1>0, <2>1
  <2>3. \A i, j \in Nat : n + i = n + j => i = j
    OBVIOUS
  <2> QED
    BY <2>1, <2>2, <2>3 DEF Once
<1>2. ASSUME NEW p \in Seq(S), Extends(s, p), NEW m \in Messages(Rest(s, Len(p))), m \in Messages(p)
      PROVE  FALSE
  <2>0. Len(p) \in Nat
    OBVIOUS
  <2>1. PICK i \in 1..Len(Rest(s, Len(p))) : m = Rest(s, Len(p))[i]
    BY DEF Messages
  <2>2. PICK j \in 1..Len(p) : m = p[j]
    BY <1>2 DEF Messages
  <2>3. Len(p) + i \in 1..Len(s) /\ m = s[Len(p) + i]
    BY <1>1, <2>0, <2>1
  <2>4. j \in 1..Len(s) /\ m = s[j]
    BY <1>0, <1>2, <2>0, <2>2, ExtendsIs
  <2>5. Len(p) + i = j
    BY <2>3, <2>4 DEF Once
  <2> QED
    BY <2>0, <2>1, <2>2, <2>5
<1> QED
  BY <1>1, <1>2

\* Two histories one after the other go on from the first.
LEMMA ConcatExtends ==
  ASSUME NEW S, NEW s \in Seq(S), NEW t \in Seq(S)
  PROVE  /\ Extends(s \o t, s) /\ Len(s \o t) = Len(s) + Len(t)
         /\ \A i \in 1..Len(s \o t) :
              (s \o t)[i] = IF i <= Len(s) THEN s[i] ELSE t[i - Len(s)]
         /\ Rest(s \o t, Len(s)) = t
<1>1. /\ s \o t \in Seq(S) /\ Len(s \o t) = Len(s) + Len(t)
      /\ \A i \in 1..Len(s) + Len(t) :
           (s \o t)[i] = IF i <= Len(s) THEN s[i] ELSE t[i - Len(s)]
  BY ConcatProperties
<1>2. Len(s) \in Nat /\ Len(t) \in Nat
  OBVIOUS
<1>3. \A i \in 1..Len(s) : s[i] = (s \o t)[i]
  BY <1>1, <1>2
<1> DEFINE both == s \o t
           r == Rest(both, Len(s))
<1>4. /\ Extends(both, s) /\ r \in Seq(S)
      /\ Len(r) = IF Len(s) <= Len(both) THEN Len(both) - Len(s) ELSE 0
      /\ \A i \in 1..Len(r) : r[i] = both[Len(s) + i]
  <2>1. /\ both \in Seq(S) /\ Len(s) <= Len(both)
        /\ \A i \in 1..Len(s) : s[i] = both[i]
    BY <1>1, <1>2, <1>3
  <2> HIDE DEF both
  <2> QED
    BY <1>2, <2>1, ExtendsIs, RestIs
<1>5. /\ Extends(s \o t, s) /\ r \in Seq(S)
      /\ Len(r) = IF Len(s) <= Len(s \o t) THEN Len(s \o t) - Len(s) ELSE 0
      /\ \A i \in 1..Len(r) : r[i] = (s \o t)[Len(s) + i]
  BY <1>4
<1> HIDE DEF r
<1>6. Len(r) = Len(t)
  BY <1>1, <1>2, <1>5
<1>7. ASSUME NEW i \in 1..Len(t) PROVE r[i] = t[i]
  <2>1. /\ Len(s) + i \in 1..Len(s) + Len(t) /\ ~(Len(s) + i <= Len(s))
        /\ (Len(s) + i) - Len(s) = i
    BY <1>2
  <2>2. r[i] = (s \o t)[Len(s) + i]
    BY <1>5, <1>6
  <2> QED
    BY <1>1, <2>1, <2>2
<1>8. r = t
  BY <1>5, <1>6, <1>7, SeqEqual
<1> QED
  BY <1>1, <1>5, <1>8 DEF r

LEMMA ConcatOnce ==
  ASSUME NEW S, NEW s \in Seq(S), NEW t \in Seq(S), Once(s), Once(t),
         Messages(s) \cap Messages(t) = {}
  PROVE  Once(s \o t)
<1>0. Len(s) \in Nat /\ Len(t) \in Nat
  OBVIOUS
<1>1. /\ Len(s \o t) = Len(s) + Len(t)
      /\ \A i \in 1..Len(s \o t) :
           (s \o t)[i] = IF i <= Len(s) THEN s[i] ELSE t[i - Len(s)]
  BY ConcatExtends
<1>2. \A i \in 1..Len(s \o t) :
        \/ i \in 1..Len(s) /\ (s \o t)[i] = s[i]
        \/ i - Len(s) \in 1..Len(t) /\ (s \o t)[i] = t[i - Len(s)]
  BY <1>0, <1>1
<1> SUFFICES ASSUME NEW i \in 1..Len(s \o t), NEW j \in 1..Len(s \o t),
                    (s \o t)[i] = (s \o t)[j]
             PROVE  i = j
  BY DEF Once
<1>3. CASE i \in 1..Len(s) /\ (s \o t)[i] = s[i] /\ j \in 1..Len(s) /\ (s \o t)[j] = s[j]
  BY <1>3 DEF Once
<1>4. CASE /\ i - Len(s) \in 1..Len(t) /\ (s \o t)[i] = t[i - Len(s)]
           /\ j - Len(s) \in 1..Len(t) /\ (s \o t)[j] = t[j - Len(s)]
  <2>1. i - Len(s) = j - Len(s)
    BY <1>4 DEF Once
  <2> QED
    BY <1>0, <1>1, <2>1
<1>5. ASSUME NEW k \in 1..Len(s), NEW l \in 1..Len(t) PROVE s[k] # t[l]
  BY DEF Messages
<1> QED
  BY <1>2, <1>3, <1>4, <1>5

LEMMA Associates ==
  ASSUME NEW S, NEW u \in Seq(S), NEW v \in Seq(S), NEW x \in Seq(S)
  PROVE  (u \o v) \o x = u \o (v \o x)
OBVIOUS

\* An append, with the torn tail before it.
LEMMA AppendedIs ==
  ASSUME NEW S, NEW log \in Logs(S), NEW add \in Seq(S)
  PROVE  LET now == Appended(log, add)
         IN  /\ now \in Logs(S) /\ now.gen = log.gen
             /\ Extends(now.msgs, log.msgs)
             /\ add = <<>> => now = log
             /\ add # <<>> =>
                  /\ now.tail = <<>>
                  /\ Messages(now.msgs)
                       = Messages(log.msgs) \cup Messages(log.tail) \cup Messages(add)
             /\ log.tail = <<>> => Rest(now.msgs, Len(log.msgs)) = add
             /\ /\ Once(log.msgs) /\ Once(log.tail) /\ Once(add)
                /\ Messages(log.msgs) \cap Messages(log.tail) = {}
                /\ Messages(log.msgs) \cap Messages(add) = {}
                /\ Messages(log.tail) \cap Messages(add) = {}
                => Once(now.msgs)
<1> DEFINE now == Appended(log, add)
<1>1. log.msgs \in Seq(S) /\ log.tail \in Seq(S) /\ Len(log.msgs) \in Nat
  BY DEF Logs
<1>2. CASE add = <<>>
  <2>1. now = log
    BY <1>2 DEF Appended
  <2>2. Extends(log.msgs, log.msgs)
    BY <1>1, ExtendsIs
  <2>3. Rest(log.msgs, Len(log.msgs)) = <<>>
    BY <1>1, RestIs
  <2> HIDE DEF now
  <2> QED
    BY <1>2, <2>1, <2>2, <2>3 DEF now
<1>3. CASE add # <<>>
  <2> DEFINE both == log.tail \o add
             all == (log.msgs \o log.tail) \o add
  <2>1. /\ both \in Seq(S) /\ Messages(both) = Messages(log.tail) \cup Messages(add)
    BY <1>1, ConcatMessages
  <2>2. all = log.msgs \o both
    <3> DEFINE u == log.msgs
               v == log.tail
    <3>1. u \in Seq(S) /\ v \in Seq(S)
      BY <1>1
    <3> HIDE DEF u, v
    <3>2. (u \o v) \o add = u \o (v \o add)
      BY <3>1, Associates
    <3> QED
      BY <3>2 DEF u, v
  <2>3. now = [log EXCEPT !.msgs = all, !.tail = <<>>]
    BY <1>3 DEF Appended
  <2> HIDE DEF both, all
  <2>4. now = [gen |-> log.gen, msgs |-> all, tail |-> <<>>]
    BY <2>3 DEF Logs
  <2>5. /\ all \in Seq(S) /\ Messages(all) = Messages(log.msgs) \cup Messages(both)
    BY <1>1, <2>1, <2>2, ConcatMessages
  <2>6. Extends(all, log.msgs) /\ Rest(all, Len(log.msgs)) = both
    BY <1>1, <2>1, <2>2, ConcatExtends
  <2>7. log.tail = <<>> => both = add
    BY <1>1, ConcatEmptySeq DEF both
  <2>8. /\ Once(log.msgs) /\ Once(log.tail) /\ Once(add)
        /\ Messages(log.msgs) \cap Messages(log.tail) = {}
        /\ Messages(log.msgs) \cap Messages(add) = {}
        /\ Messages(log.tail) \cap Messages(add) = {}
        => Once(all)
    <3> SUFFICES ASSUME Once(log.msgs), Once(log.tail), Once(add),
                        Messages(log.msgs) \cap Messages(log.tail) = {},
                        Messages(log.msgs) \cap Messages(add) = {},
                        Messages(log.tail) \cap Messages(add) = {}
                 PROVE  Once(all)
      OBVIOUS
    <3>1. Once(both)
      BY <1>1, ConcatOnce DEF both
    <3>2. Messages(log.msgs) \cap Messages(both) = {}
      BY <2>1
    <3> QED
      BY <1>1, <2>1, <2>2, <3>1, <3>2, ConcatOnce
  <2>9. now \in Logs(S)
    BY <2>4, <2>5 DEF Logs
  <2>10. /\ now.gen = log.gen /\ now.msgs = all /\ now.tail = <<>>
    BY <2>4
  <2> HIDE DEF now
  <2> QED
    BY <1>3, <2>1, <2>5, <2>6, <2>7, <2>8, <2>9, <2>10 DEF now
<1> QED
  BY <1>2, <1>3

\* Undone of what both started from, and what the log went on with put after:
\* that does not go on from the log.
LEMMA CutIsRewritten ==
  ASSUME NEW S, NEW base \in Seq(S), NEW next \in Seq(S), NEW disk \in Seq(S),
         Extends(disk, base), Extends(next \o Rest(disk, Len(base)), disk)
  PROVE  Extends(next, base)
<1> DEFINE theirs == Rest(disk, Len(base))
           all == next \o theirs
<1>0. Len(base) \in Nat /\ Len(next) \in Nat /\ Len(disk) \in Nat
  OBVIOUS
<1>1. /\ Len(base) <= Len(disk) /\ \A i \in 1..Len(base) : base[i] = disk[i]
  BY ExtendsIs
<1>2. theirs \in Seq(S) /\ Len(theirs) = Len(disk) - Len(base)
  BY <1>0, <1>1, RestIs
<1> HIDE DEF theirs
<1>3. /\ all \in Seq(S) /\ Len(all) = Len(next) + Len(theirs)
      /\ \A i \in 1..Len(next) : all[i] = next[i]
  <2>1. all \in Seq(S)
    BY <1>2, ConcatMessages
  <2>2. /\ Len(all) = Len(next) + Len(theirs)
        /\ \A i \in 1..Len(all) :
             all[i] = IF i <= Len(next) THEN next[i] ELSE theirs[i - Len(next)]
    BY <1>2, ConcatExtends
  <2>3. Len(theirs) \in Nat
    BY <1>2
  <2>4. \A i \in 1..Len(next) : i \in 1..Len(all) /\ i <= Len(next)
    BY <1>0, <2>2, <2>3
  <2> HIDE DEF all
  <2> QED
    BY <2>1, <2>2, <2>4
<1>4. Len(disk) <= Len(all) /\ \A i \in 1..Len(disk) : disk[i] = all[i]
  <2>1. Extends(all, disk)
    BY DEF theirs
  <2> HIDE DEF all
  <2> QED
    BY <1>3, <2>1, ExtendsIs
<1> HIDE DEF all
<1>5. Len(base) <= Len(next)
  BY <1>0, <1>1, <1>2, <1>3, <1>4
<1>6. ASSUME NEW i \in 1..Len(base) PROVE base[i] = next[i]
  <2>1. i \in 1..Len(disk) /\ i \in 1..Len(next)
    BY <1>0, <1>1, <1>5
  <2> QED
    BY <1>1, <1>3, <1>4, <2>1
<1> QED
  BY <1>5, <1>6, ExtendsIs

\* What a store adds by an append is new to the log, of the writer's copy, and,
\* unless both have undone, not of what it started from; what it writes whole
\* is the log's and the copy's, and the copy has undone (storeTranscript).
StoredAs(S, log, base, next, gen, now) ==
  \/ \E add \in Seq(S) :
       /\ now = Appended(log, add) /\ Once(add)
       /\ Messages(add) \cap Messages(log.msgs) = {}
       /\ Messages(add) \subseteq Messages(next)
       /\ Extends(next, base) \/ Extends(log.msgs, base)
            => Messages(add) \cap Messages(base) = {}
  \/ \E all \in Seq(S) :
       /\ now = Rewritten(gen, all) /\ Once(all)
       /\ Messages(all) \subseteq Messages(log.msgs) \cup Messages(next)
       /\ ~Extends(next, base)

LEMMA StoreIs ==
  ASSUME NEW S, NEW log \in Logs(S), NEW base, NEW next \in Seq(S),
         base.msgs \in Seq(S), base.at \in Spots, NEW gen \in Nat \ {0},
         Once(log.msgs), Once(next),
         Messages(log.msgs) \cap Messages(next) \subseteq Messages(base.msgs)
  PROVE  StoredAs(S, log, base.msgs, next, gen, StoreTranscript(log, base, next, gen).log)
<1> DEFINE now == StoreTranscript(log, base, next, gen).log
           ours == Rest(next, Len(base.msgs))
<1>1. /\ log.msgs \in Seq(S) /\ base.at.end \in Nat
      /\ Len(log.msgs) \in Nat /\ Len(base.msgs) \in Nat
  BY DEF Logs, Spots
<1>2. /\ ours \in Seq(S) /\ Messages(ours) \subseteq Messages(next) /\ Once(ours)
      /\ Extends(next, base.msgs) => Messages(ours) \cap Messages(base.msgs) = {}
  BY <1>1, RestIs, RestMessages, RestOnce
<1> HIDE DEF ours
\* What is left of ours beyond what the log has of it.
<1>3. ASSUME Extends(next, base.msgs), NEW theirs \in Seq(S)
      PROVE  LET add == Rest(ours, CommonPrefix(theirs, ours))
             IN  /\ add \in Seq(S) /\ Once(add)
                 /\ Messages(add) \cap Messages(log.msgs) = {}
                 /\ Messages(add) \subseteq Messages(next)
                 /\ Messages(add) \cap Messages(base.msgs) = {}
  <2> DEFINE add == Rest(ours, CommonPrefix(theirs, ours))
  <2>1. CommonPrefix(theirs, ours) \in Nat
    BY <1>2, CommonPrefixAgrees DEF Agree
  <2>2. add \in Seq(S) /\ Once(add) /\ Messages(add) \subseteq Messages(ours)
    BY <1>2, <2>1, RestIs, RestMessages, RestOnce
  <2> HIDE DEF add
  <2>3. /\ add \in Seq(S) /\ Once(add)
        /\ Messages(add) \cap Messages(log.msgs) = {}
        /\ Messages(add) \subseteq Messages(next)
        /\ Messages(add) \cap Messages(base.msgs) = {}
    BY <1>2, <1>3, <2>2
  <2> QED
    BY <2>3 DEF add
<1>4. CASE OnlyAppended(log, base, next)
  <2> DEFINE theirs == Rest(log.msgs, base.at.end)
             add == Rest(ours, CommonPrefix(theirs, ours))
  <2>1. theirs \in Seq(S) /\ Extends(next, base.msgs)
    BY <1>1, <1>4, RestIs DEF OnlyAppended
  <2>2. now = Appended(log, add)
    BY <1>4 DEF StoreTranscript, AppendedSince, ours
  <2> HIDE DEF theirs
  <2>3. /\ add \in Seq(S) /\ Once(add)
        /\ Messages(add) \cap Messages(log.msgs) = {}
        /\ Messages(add) \subseteq Messages(next)
        /\ Messages(add) \cap Messages(base.msgs) = {}
    BY <1>3, <2>1
  <2> HIDE DEF add, now
  <2> QED
    BY <2>2, <2>3 DEF StoredAs, now
<1>5. CASE ~OnlyAppended(log, base, next)
  <2> DEFINE merged == MergeTranscripts(base.msgs, next, log.msgs)
             new == Rest(merged, Len(log.msgs))
             theirs == IF Extends(log.msgs, base.msgs)
                         THEN Rest(log.msgs, Len(base.msgs)) ELSE <<>>
             add == Rest(ours, CommonPrefix(theirs, ours))
  <2>1. now = IF Extends(merged, log.msgs) THEN Appended(log, new)
                                           ELSE Rewritten(gen, merged)
    BY <1>5 DEF StoreTranscript
  <2>2. merged = IF TakesNext(base.msgs, next, log.msgs) THEN next
                 ELSE IF Extends(next, base.msgs) THEN log.msgs \o add
                 ELSE next \o theirs
    BY DEF MergeTranscripts, ours
  <2>3. /\ theirs \in Seq(S) /\ Once(theirs)
        /\ Messages(theirs) \subseteq Messages(log.msgs)
        /\ Extends(log.msgs, base.msgs) => Messages(theirs) \cap Messages(base.msgs) = {}
    <3>1. CASE Extends(log.msgs, base.msgs)
      <4>1. theirs = Rest(log.msgs, Len(base.msgs))
        BY <3>1
      <4> HIDE DEF theirs
      <4> QED
        BY <1>1, <3>1, <4>1, RestIs, RestMessages, RestOnce
    <3>2. CASE ~Extends(log.msgs, base.msgs)
      <4>1. theirs = <<>> /\ Messages(<<>>) = {} /\ Once(<<>>) /\ <<>> \in Seq(S)
        BY <3>2 DEF Messages, Once
      <4> HIDE DEF theirs
      <4> QED
        BY <3>2, <4>1
    <3> QED
      BY <3>1, <3>2
  <2> HIDE DEF theirs
  <2>4. Extends(next, base.msgs) =>
          /\ add \in Seq(S) /\ Once(add)
          /\ Messages(add) \cap Messages(log.msgs) = {}
          /\ Messages(add) \subseteq Messages(next)
          /\ Messages(add) \cap Messages(base.msgs) = {}
    BY <1>3, <2>3
  <2> HIDE DEF now, add
  <2>5. CASE TakesNext(base.msgs, next, log.msgs)
    <3>1. merged = next
      BY <2>2, <2>5
    <3> HIDE DEF merged
    <3>2. CASE Extends(next, log.msgs)
      <4>1. new = Rest(next, Len(log.msgs)) /\ now = Appended(log, new)
        BY <2>1, <3>1, <3>2
      <4>2. /\ new \in Seq(S) /\ Once(new) /\ Messages(new) \subseteq Messages(next)
            /\ Messages(new) \cap Messages(log.msgs) = {}
        BY <1>1, <3>2, <4>1, RestIs, RestMessages, RestOnce
      <4>3. log.msgs = base.msgs \/ (~Extends(next, base.msgs) /\ ~Extends(log.msgs, base.msgs))
        BY <2>5 DEF TakesNext
      <4> HIDE DEF new
      <4> QED
        BY <4>1, <4>2, <4>3 DEF StoredAs, now
    <3>3. CASE ~Extends(next, log.msgs)
      <4>1. now = Rewritten(gen, next)
        BY <2>1, <3>1, <3>3
      <4>2. ~Extends(next, base.msgs)
        BY <2>5, <3>3 DEF TakesNext
      <4> QED
        BY <4>1, <4>2 DEF StoredAs, now
    <3> QED
      BY <3>2, <3>3
  <2>6. CASE ~TakesNext(base.msgs, next, log.msgs) /\ Extends(next, base.msgs)
    <3>1. merged = log.msgs \o add
      BY <2>2, <2>6
    <3>2. Extends(log.msgs \o add, log.msgs) /\ Rest(log.msgs \o add, Len(log.msgs)) = add
      BY <1>1, <2>4, <2>6, ConcatExtends
    <3>3. now = Appended(log, add)
      BY <2>1, <3>1, <3>2
    <3> QED
      BY <2>4, <2>6, <3>3 DEF StoredAs, now
  <2>7. CASE ~TakesNext(base.msgs, next, log.msgs) /\ ~Extends(next, base.msgs)
    <3>1. merged = next \o theirs
      BY <2>2, <2>7
    <3>2. Extends(log.msgs, base.msgs)
      BY <2>7 DEF TakesNext
    <3>3. ~Extends(next \o theirs, log.msgs)
      BY <1>1, <2>7, <3>2, CutIsRewritten DEF theirs
    <3>4. now = Rewritten(gen, next \o theirs)
      BY <2>1, <3>1, <3>3
    <3>5. Messages(next) \cap Messages(theirs) = {}
      BY <2>3, <3>2
    <3>6. /\ next \o theirs \in Seq(S) /\ Once(next \o theirs)
          /\ Messages(next \o theirs) = Messages(next) \cup Messages(theirs)
      BY <2>3, <3>5, ConcatMessages, ConcatOnce
    <3> DEFINE all == next \o theirs
    <3>7. /\ now = Rewritten(gen, all) /\ all \in Seq(S) /\ Once(all)
          /\ Messages(all) \subseteq Messages(log.msgs) \cup Messages(next)
      BY <2>3, <3>4, <3>6
    <3> HIDE DEF all
    <3> QED
      BY <2>7, <3>7 DEF StoredAs, now
  <2> QED
    BY <2>5, <2>6, <2>7
<1> QED
  BY <1>4, <1>5

\* To go on from a history, and from what that went on from.
LEMMA ExtendsMore ==
  ASSUME NEW S, NEW s \in Seq(S)
  PROVE  /\ Extends(s, s)
         /\ \A t, p \in Seq(S) : Extends(s, p) /\ Extends(t, s) => Extends(t, p)
         /\ \A e \in S : Extends(Append(s, e), s)
         /\ \A p \in Seq(S) : Extends(s, p) => Messages(p) \subseteq Messages(s)
<1>0. Len(s) \in Nat
  OBVIOUS
<1>1. Extends(s, s)
  BY <1>0, ExtendsIs
<1>2. ASSUME NEW t \in Seq(S), NEW p \in Seq(S), Extends(s, p), Extends(t, s)
      PROVE  Extends(t, p)
  <2>1. /\ Len(p) <= Len(s) /\ \A i \in 1..Len(p) : p[i] = s[i]
        /\ Len(s) <= Len(t) /\ \A i \in 1..Len(s) : s[i] = t[i]
    BY <1>2, ExtendsIs
  <2>2. Len(p) \in Nat /\ Len(t) \in Nat
    OBVIOUS
  <2>3. Len(p) <= Len(t) /\ \A i \in 1..Len(p) : p[i] = t[i]
    BY <1>0, <2>1, <2>2
  <2> QED
    BY <2>3, ExtendsIs
<1>3. ASSUME NEW e \in S PROVE Extends(Append(s, e), s)
  <2>1. Append(s, e) \in Seq(S) /\ Len(s) <= Len(Append(s, e))
        /\ \A i \in 1..Len(s) : s[i] = Append(s, e)[i]
    OBVIOUS
  <2> QED
    BY <2>1, ExtendsIs
<1>4. ASSUME NEW p \in Seq(S), Extends(s, p) PROVE Messages(p) \subseteq Messages(s)
  <2>1. Len(p) <= Len(s) /\ \A i \in 1..Len(p) : p[i] = s[i]
    BY <1>4, ExtendsIs
  <2>2. \A i \in 1..Len(p) : i \in 1..Len(s)
    BY <1>0, <2>1
  <2> QED
    BY <2>1, <2>2 DEF Messages
<1> QED
  BY <1>1, <1>2, <1>3, <1>4

\* A message added that was not there, and the last one taken away.
LEMMA OneMoreOnce ==
  ASSUME NEW S, NEW s \in Seq(S), Once(s)
  PROVE  /\ \A e \in S : e \notin Messages(s) => Once(Append(s, e))
         /\ Once(SubSeq(s, 1, Len(s) - 1))
<1>0. Len(s) \in Nat
  OBVIOUS
<1>1. ASSUME NEW e \in S, e \notin Messages(s) PROVE Once(Append(s, e))
  <2>1. /\ Len(Append(s, e)) = Len(s) + 1
        /\ \A i \in 1..Len(s) : Append(s, e)[i] = s[i] /\ s[i] # e
        /\ Append(s, e)[Len(s) + 1] = e
    BY <1>1 DEF Messages
  <2>2. \A i \in 1..Len(s) + 1 : i \in 1..Len(s) \/ i = Len(s) + 1
    BY <1>0
  <2> QED
    BY <2>1, <2>2 DEF Once
<1>2. Once(SubSeq(s, 1, Len(s) - 1))
  <2> DEFINE t == SubSeq(s, 1, Len(s) - 1)
  <2>1. 1 \in Int /\ Len(s) - 1 \in Int /\ \A i \in 1..(Len(s) - 1) : s[i] \in S
    OBVIOUS
  <2>2. /\ Len(t) = IF 1 <= Len(s) - 1 THEN Len(s) - 1 ELSE 0
        /\ \A i \in 1..(Len(s) - 1 - 1 + 1) : t[i] = s[1 + i - 1]
    BY <2>1, SubSeqProperties
  <2> HIDE DEF t
  <2>3. \A i \in 1..Len(t) : i \in 1..(Len(s) - 1 - 1 + 1) /\ i \in 1..Len(s) /\ 1 + i - 1 = i
    BY <1>0, <2>2
  <2>4. \A i \in 1..Len(t) : i \in 1..Len(s) /\ t[i] = s[i]
    BY <2>2, <2>3
  <2>5. Once(t)
    BY <2>4 DEF Once
  <2> QED
    BY <2>5 DEF t
<1> QED
  BY <1>1, <1>2

\* What has undone is stored whole.
LEMMA CutHoldsNext ==
  ASSUME NEW S, NEW log \in Logs(S), NEW base, NEW next \in Seq(S),
         base.msgs \in Seq(S), NEW gen \in Nat \ {0}, ~Extends(next, base.msgs)
  PROVE  Messages(next) \subseteq Messages(StoreTranscript(log, base, next, gen).log.msgs)
<1> DEFINE b == base.msgs
           theirs == IF Extends(log.msgs, b) THEN Rest(log.msgs, Len(b)) ELSE <<>>
           merged == MergeTranscripts(b, next, log.msgs)
<1>1. ~OnlyAppended(log, base, next) /\ log.msgs \in Seq(S) /\ Len(b) \in Nat
  BY DEF OnlyAppended, Logs
<1>2. StoreTranscript(log, base, next, gen).log
        = IF Extends(merged, log.msgs) THEN Appended(log, Rest(merged, Len(log.msgs)))
                                       ELSE Rewritten(gen, merged)
  BY <1>1 DEF StoreTranscript
<1>3. theirs \in Seq(S)
  <2>1. Rest(log.msgs, Len(b)) \in Seq(S) /\ <<>> \in Seq(S)
    BY <1>1, RestIs
  <2> QED
    BY <2>1
<1>4. merged = next \/ merged = next \o theirs
  BY DEF MergeTranscripts
<1> HIDE DEF merged, theirs, b
<1>5. merged \in Seq(S) /\ Messages(next) \subseteq Messages(merged)
  <2>1. next \o theirs \in Seq(S) /\ Messages(next) \subseteq Messages(next \o theirs)
    BY <1>3, ConcatMessages
  <2> QED
    BY <1>4, <2>1
<1>6. Messages(merged) \subseteq Messages(StoreTranscript(log, base, next, gen).log.msgs)
  BY <1>2, <1>5, MergedIsStored
<1> QED
  BY <1>5, <1>6
===============================================================================
