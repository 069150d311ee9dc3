------------------------ MODULE ConfigVersionsProofs ------------------------
(***************************************************************************)
(* Theorems about the versions of a configuration, and about the audit log *)
(* under all that writes to it, for any retention counts and any numbers   *)
(* of versions, edits, events and faults, checked by TLAPS.                *)
(***************************************************************************)
EXTENDS ConfigVersions, SequenceTheorems, FiniteSetTheorems, TLAPS

(***************************************************************************)
(* The inductive invariant.                                                *)
(***************************************************************************)
USE AuditAssumption

\* What a row can name: another row, or none.
Hash == Events \cup {Null}
Log == [file : Seq(Row), partial : BOOLEAN, last : Hash, events : 0..MaxEvents,
        spoiled : SUBSET Events]

\* Each event is in the file, archived, or taken by a failed write.
Whole(file, events, kept) == \A id \in 1..events : id \in Ids(file) \cup kept

\* Rows name their predecessor, or one a failed write took.
Chained(file, taken) ==
  \A i \in 2..Len(file) : file[i].prev \in {file[i - 1].id} \cup taken

\* The store knows the last row of the file, or has written one since that a
\* failed write took: what the next row will name.
Follows(file, last, taken) ==
  file # << >> => last \in {file[Len(file)].id} \cup taken

Sound(l, stored) ==
  /\ l \in Log
  /\ Whole(l.file, l.events, stored \cup l.spoiled)
  /\ Chained(l.file, l.spoiled)
  /\ Follows(l.file, l.last, l.spoiled)

\* Where an event is that is no longer in the file: in the archive, or glued to
\* half a line there.
Archive == [rows : SUBSET Events, half : BOOLEAN, glued : SUBSET Events]
Stored == archive.rows \cup archive.glued

LogInv == Sound(log, Stored) /\ archive \in Archive

(***************************************************************************)
(* Files                                                                   *)
(***************************************************************************)
LEMMA RowFact ==
  ASSUME NEW file \in Seq(Row), NEW i \in 1..Len(file)
  PROVE  file[i] \in Row /\ file[i].id \in Events /\ file[i].prev \in Hash
<1>1. file[i] \in Row
  OBVIOUS
<1> QED BY <1>1 DEF Row, Hash

LEMMA AppendFact ==
  ASSUME NEW file \in Seq(Row), NEW row \in Row
  PROVE  /\ Append(file, row) \in Seq(Row)
         /\ Len(Append(file, row)) = Len(file) + 1
         /\ \A i \in 1..Len(file) : Append(file, row)[i] = file[i]
         /\ Append(file, row)[Len(file) + 1] = row
<1>1. Append(file, row) \in Seq(Row) /\ Len(Append(file, row)) = Len(file) + 1
  BY AppendProperties
<1>2. \A i \in 1..Len(file) : Append(file, row)[i] = file[i]
  BY AppendProperties
<1>3. Append(file, row)[Len(file) + 1] = row
  BY AppendProperties
<1> QED BY <1>1, <1>2, <1>3

LEMMA PartFact ==
  ASSUME NEW file \in Seq(Row), NEW m \in 1..(Len(file) + 1), NEW n \in (m - 1)..Len(file)
  PROVE  /\ SubSeq(file, m, n) \in Seq(Row)
         /\ Len(SubSeq(file, m, n)) = n - m + 1
         /\ \A i \in 1..(n - m + 1) : SubSeq(file, m, n)[i] = file[m + i - 1]
<1>1. m \in Int /\ n \in Int /\ \A i \in m..n : file[i] \in Row
  OBVIOUS
<1>2. SubSeq(file, m, n) \in Seq(Row)
  BY <1>1, SubSeqProperties
<1>3. Len(SubSeq(file, m, n)) = IF m <= n THEN n - m + 1 ELSE 0
  BY <1>1, SubSeqProperties
<1>4. \A i \in 1..(n - m + 1) : SubSeq(file, m, n)[i] = file[m + i - 1]
  BY <1>1, SubSeqProperties
<1>5. Len(SubSeq(file, m, n)) = n - m + 1
  BY <1>1, <1>3
<1> QED BY <1>2, <1>4, <1>5

\* The two parts of a file hold what it holds.
LEMMA PartsHold ==
  ASSUME NEW file \in Seq(Row), NEW n \in 0..Len(file)
  PROVE  Ids(file) = Ids(SubSeq(file, 1, n)) \cup Ids(SubSeq(file, n + 1, Len(file)))
<1> DEFINE front == SubSeq(file, 1, n)
           back == SubSeq(file, n + 1, Len(file))
<1>1. Len(front) = n /\ \A i \in 1..n : front[i] = file[i]
  BY PartFact
<1>2. Len(back) = Len(file) - n /\ \A i \in 1..(Len(file) - n) : back[i] = file[n + i]
  <2>1. n + 1 \in 1..(Len(file) + 1) /\ Len(file) \in n..Len(file)
    OBVIOUS
  <2> QED BY <2>1, PartFact
<1> HIDE DEF front, back
<1>3. ASSUME NEW i \in 1..Len(file) PROVE file[i].id \in Ids(front) \cup Ids(back)
  <2>1. CASE i <= n
    BY <1>1, <2>1 DEF Ids
  <2>2. CASE i > n
    <3>1. i - n \in 1..Len(back) /\ back[i - n] = file[i]
      BY <1>2, <2>2
    <3> QED BY <3>1 DEF Ids
  <2> QED BY <2>1, <2>2
<1>4. ASSUME NEW i \in 1..Len(front) PROVE front[i].id \in Ids(file)
  BY <1>1 DEF Ids
<1>5. ASSUME NEW i \in 1..Len(back) PROVE back[i].id \in Ids(file)
  <2>1. n + i \in 1..Len(file) /\ back[i] = file[n + i]
    BY <1>2
  <2> QED BY <2>1 DEF Ids
<1>6. Ids(file) \subseteq Ids(front) \cup Ids(back)
  BY <1>3 DEF Ids
<1>7. Ids(front) \subseteq Ids(file) /\ Ids(back) \subseteq Ids(file)
  BY <1>4, <1>5 DEF Ids
<1> QED BY <1>6, <1>7 DEF front, back

\* A part of a chained file is chained.
LEMMA PartChained ==
  ASSUME NEW file \in Seq(Row), NEW m \in 1..(Len(file) + 1), NEW n \in (m - 1)..Len(file),
         NEW taken, Chained(file, taken)
  PROVE  Chained(SubSeq(file, m, n), taken)
<1> DEFINE part == SubSeq(file, m, n)
<1>1. Len(part) = n - m + 1 /\ \A i \in 1..(n - m + 1) : part[i] = file[m + i - 1]
  BY PartFact
<1> HIDE DEF part
<1>2. ASSUME NEW i \in 2..Len(part) PROVE part[i].prev \in {part[i - 1].id} \cup taken
  <2>1. i \in 1..(n - m + 1) /\ i - 1 \in 1..(n - m + 1) /\ m + i - 1 \in 2..Len(file)
    BY <1>1
  <2>2. part[i] = file[m + i - 1] /\ part[i - 1] = file[(m + i - 1) - 1]
    BY <1>1, <2>1
  <2> QED BY <2>1, <2>2 DEF Chained
<1> QED BY <1>2 DEF Chained, part

(***************************************************************************)
(* What the operations make of the log.                                    *)
(***************************************************************************)
Updated(new, l, n, file, spoiled) ==
  new = [l EXCEPT !.events = n, !.last = n, !.partial = FALSE, !.file = file,
                  !.spoiled = spoiled]

LEMMA LogUpdate ==
  ASSUME NEW l \in Log, NEW n \in 0..MaxEvents, n \in Hash,
         NEW file \in Seq(Row), NEW spoiled \in SUBSET Events, NEW new,
         Updated(new, l, n, file, spoiled)
  PROVE  /\ new \in Log /\ new.file = file /\ new.last = n
         /\ new.events = n /\ new.spoiled = spoiled
BY DEF Log, Updated

LEMMA AppendedSound ==
  ASSUME NEW l, NEW stored, Sound(l, stored), l.events < MaxEvents
  PROVE  Sound(Appended(l), stored) /\ Appended(l).events = l.events + 1
<1> DEFINE id == l.events + 1
           row == [id |-> id, prev |-> l.last]
           half == l.partial
<1>1. /\ l \in Log /\ l.file \in Seq(Row) /\ l.last \in Hash /\ l.events \in 0..MaxEvents
      /\ l.spoiled \subseteq Events /\ half \in BOOLEAN
  BY DEF Sound, Log
<1>2. id \in Events /\ id \in 0..MaxEvents /\ id \in Hash /\ row \in Row
  <2>1. id \in Events /\ id \in 0..MaxEvents
    BY <1>1 DEF Events
  <2>2. id \in Hash /\ l.last \in Hash
    BY <1>1, <2>1 DEF Hash
  <2> QED BY <2>1, <2>2 DEF Row, Hash
<1>3. CASE half
  <2>1. Appended(l) = [l EXCEPT !.events = id, !.last = id, !.partial = FALSE,
                                !.file = l.file, !.spoiled = l.spoiled \cup {id}]
    BY <1>3 DEF Appended
  <2>2. /\ Appended(l) \in Log /\ Appended(l).file = l.file /\ Appended(l).last = id
        /\ Appended(l).events = id /\ Appended(l).spoiled = l.spoiled \cup {id}
    <3>1. l.spoiled \cup {id} \in SUBSET Events
      BY <1>1, <1>2
    <3>2. Updated(Appended(l), l, id, l.file, l.spoiled \cup {id})
      BY <2>1 DEF Updated
    <3>3. l \in Log /\ id \in 0..MaxEvents /\ id \in Hash /\ l.file \in Seq(Row)
      BY <1>1, <1>2
    <3> HIDE DEF id
    <3> QED BY <3>1, <3>2, <3>3, LogUpdate
  <2>3. Whole(l.file, id, stored \cup (l.spoiled \cup {id}))
    BY <1>1 DEF Sound, Whole
  <2>4. Chained(l.file, l.spoiled \cup {id})
    BY DEF Sound, Chained
  <2>5. Follows(l.file, id, l.spoiled \cup {id})
    BY DEF Follows
  <2> QED BY <2>2, <2>3, <2>4, <2>5 DEF Sound
<1>4. CASE ~half
  <2> DEFINE file == Append(l.file, row)
  <2>1. Appended(l) = [l EXCEPT !.events = id, !.last = id, !.partial = FALSE,
                                !.file = file, !.spoiled = l.spoiled]
    BY <1>4 DEF Appended
  <2>2. /\ file \in Seq(Row) /\ Len(file) = Len(l.file) + 1 /\ Len(l.file) \in Nat
        /\ \A i \in 1..Len(l.file) : file[i] = l.file[i]
        /\ file[Len(l.file) + 1] = row
    <3> HIDE DEF row
    <3>1. /\ file \in Seq(Row) /\ Len(file) = Len(l.file) + 1
          /\ \A i \in 1..Len(l.file) : file[i] = l.file[i]
          /\ file[Len(l.file) + 1] = row
      BY <1>1, <1>2, AppendFact, Zenon
    <3>2. Len(l.file) \in Nat
      BY <1>1
    <3> QED BY <3>1, <3>2, Zenon
  <2> HIDE DEF file
  <2>3. /\ Appended(l) \in Log /\ Appended(l).file = file /\ Appended(l).last = id
        /\ Appended(l).events = id /\ Appended(l).spoiled = l.spoiled
    <3>1. l.spoiled \in SUBSET Events /\ file \in Seq(Row)
      BY <1>1, <2>2
    <3>2. Updated(Appended(l), l, id, file, l.spoiled)
      BY <2>1 DEF Updated
    <3>3. l \in Log /\ id \in 0..MaxEvents /\ id \in Hash /\ l.file \in Seq(Row)
      BY <1>1, <1>2
    <3> HIDE DEF id
    <3> QED BY <3>1, <3>2, <3>3, LogUpdate
  <2>4. Whole(file, id, stored \cup l.spoiled)
    <3>1. \A i \in 1..Len(l.file) : l.file[i].id \in Ids(file)
      BY <2>2 DEF Ids
    <3>2. Ids(l.file) \subseteq Ids(file)
      BY <3>1 DEF Ids
    <3>3. id \in Ids(file)
      BY <2>2 DEF Ids
    <3>4. \A n \in 1..l.events : n \in Ids(l.file) \cup (stored \cup l.spoiled)
      BY DEF Sound, Whole
    <3>5. \A n \in 1..id : n \in 1..l.events \/ n = id
      BY <1>1
    <3> QED BY <3>2, <3>3, <3>4, <3>5 DEF Whole
  <2>5. Chained(file, l.spoiled)
    <3>1. ASSUME NEW i \in 2..Len(file) PROVE file[i].prev \in {file[i - 1].id} \cup l.spoiled
      <4>1. CASE i <= Len(l.file)
        <5>1. i \in 2..Len(l.file) /\ file[i] = l.file[i] /\ file[i - 1] = l.file[i - 1]
          <6>1. i \in 1..Len(l.file) /\ i - 1 \in 1..Len(l.file) /\ i \in 2..Len(l.file)
            BY <2>2, <4>1
          <6> QED BY <2>2, <6>1, Zenon
        <5> QED BY <5>1 DEF Sound, Chained
      <4>2. CASE i = Len(l.file) + 1
        <5>1. file[i].prev = l.last /\ file[i - 1] = l.file[Len(l.file)] /\ Len(l.file) > 0
          BY <2>2, <4>2
        <5>2. l.file # << >>
          BY <5>1
        <5> QED BY <5>1, <5>2 DEF Sound, Follows
      <4> QED BY <2>2, <4>1, <4>2
    <3> QED BY <3>1 DEF Chained
  <2>6. Follows(file, id, l.spoiled)
    BY <2>2 DEF Follows
  <2> QED BY <2>3, <2>4, <2>5, <2>6 DEF Sound
<1> QED BY <1>1, <1>3, <1>4

LEMMA PartialSound ==
  ASSUME NEW l, NEW stored, Sound(l, stored)
  PROVE  Sound([l EXCEPT !.partial = TRUE], stored)
<1> DEFINE m == [l EXCEPT !.partial = TRUE]
<1>1. /\ m \in Log /\ m.file = l.file /\ m.last = l.last /\ m.events = l.events
      /\ m.spoiled = l.spoiled
  BY DEF Sound, Log
<1> QED BY <1>1 DEF Sound

LEMMA LastHashFact ==
  ASSUME NEW file \in Seq(Row), NEW taken
  PROVE  LastHash(file) \in Hash /\ Follows(file, LastHash(file), taken)
<1>1. CASE file = << >>
  BY <1>1 DEF LastHash, Hash, Follows
<1>2. CASE file # << >>
  <2>1. Len(file) \in 1..Len(file)
    BY <1>2
  <2> QED BY <1>2, <2>1, RowFact DEF LastHash, Hash, Follows
<1> QED BY <1>1, <1>2

LEMMA RestartedSound ==
  ASSUME NEW l, NEW stored, Sound(l, stored)
  PROVE  Sound(Restarted(l), stored)
<1> DEFINE last == LastHash(l.file)
           m == [l EXCEPT !.last = last]
<1>1. l \in Log /\ l.file \in Seq(Row)
  BY DEF Sound, Log
<1>2. last \in Hash /\ Follows(l.file, last, l.spoiled)
  BY <1>1, LastHashFact
<1> HIDE DEF last
<1>3. /\ m \in Log /\ m.file = l.file /\ m.last = last /\ m.events = l.events
      /\ m.spoiled = l.spoiled
  BY <1>1, <1>2 DEF Log
<1>4. Sound(m, stored)
  BY <1>2, <1>3 DEF Sound
<1> QED BY <1>4 DEF Restarted, last

\* A rotation keeps the end of the file; what it drops is archived.
LEMMA KeptFact ==
  ASSUME NEW l, NEW stored, Sound(l, stored), NEW keep \in Nat, Len(l.file) > keep
  PROVE  /\ KeptRows(l.file, keep) \in Seq(Row)
         /\ Len(KeptRows(l.file, keep)) = keep
         /\ Chained(KeptRows(l.file, keep), l.spoiled)
         /\ Ids(l.file) = Ids(OldRows(l.file, keep)) \cup Ids(KeptRows(l.file, keep))
         /\ keep > 0 => KeptRows(l.file, keep)[keep] = l.file[Len(l.file)]
<1> DEFINE n == Len(l.file) - keep
<1>1. l.file \in Seq(Row) /\ Chained(l.file, l.spoiled) /\ Len(l.file) \in Nat
  BY DEF Sound, Log
<1>2. /\ n \in 0..Len(l.file) /\ n + 1 \in 1..(Len(l.file) + 1)
      /\ Len(l.file) \in ((n + 1) - 1)..Len(l.file) /\ Len(l.file) - (n + 1) + 1 = keep
  BY <1>1
<1>3. KeptRows(l.file, keep) = SubSeq(l.file, n + 1, Len(l.file))
         /\ OldRows(l.file, keep) = SubSeq(l.file, 1, n)
  BY DEF KeptRows, OldRows
<1>4. /\ SubSeq(l.file, n + 1, Len(l.file)) \in Seq(Row)
      /\ Len(SubSeq(l.file, n + 1, Len(l.file))) = keep
      /\ \A i \in 1..keep : SubSeq(l.file, n + 1, Len(l.file))[i] = l.file[n + 1 + i - 1]
  BY <1>1, <1>2, PartFact
<1>5. Chained(SubSeq(l.file, n + 1, Len(l.file)), l.spoiled)
  BY <1>1, <1>2, PartChained
<1>6. Ids(l.file) = Ids(SubSeq(l.file, 1, n)) \cup Ids(SubSeq(l.file, n + 1, Len(l.file)))
  BY <1>1, <1>2, PartsHold
<1>7. ASSUME keep > 0 PROVE SubSeq(l.file, n + 1, Len(l.file))[keep] = l.file[Len(l.file)]
  <2>1. keep \in 1..keep /\ n + 1 + keep - 1 = Len(l.file)
    BY <1>1, <1>7
  <2> QED BY <1>4, <2>1
<1> HIDE DEF n
<1> QED BY <1>3, <1>4, <1>5, <1>6, <1>7

LEMMA MoreStored ==
  ASSUME NEW l, NEW stored, NEW more, Sound(l, stored)
  PROVE  Sound(l, stored \cup more)
  BY DEF Sound, Whole

LEMMA RotatedSound ==
  ASSUME NEW l, NEW stored, Sound(l, stored), NEW keep \in Nat, Len(l.file) > keep
  PROVE  Sound([l EXCEPT !.file = KeptRows(l.file, keep), !.partial = FALSE,
                         !.last = LastHash(KeptRows(l.file, keep))],
               stored \cup Ids(OldRows(l.file, keep)))
<1> DEFINE file == KeptRows(l.file, keep)
           last == LastHash(file)
           old == Ids(OldRows(l.file, keep))
           m == [l EXCEPT !.file = file, !.partial = FALSE, !.last = last]
<1>1. file \in Seq(Row) /\ Chained(file, l.spoiled) /\ Ids(l.file) = old \cup Ids(file)
  BY KeptFact
<1>2. last \in Hash /\ Follows(file, last, l.spoiled)
  BY <1>1, LastHashFact
<1> HIDE DEF file, last, old
<1>3. /\ m \in Log /\ m.file = file /\ m.last = last /\ m.events = l.events
      /\ m.spoiled = l.spoiled
  BY <1>1, <1>2 DEF Sound, Log
<1>4. Whole(file, l.events, (stored \cup old) \cup l.spoiled)
  BY <1>1 DEF Sound, Whole
<1>5. Sound(m, stored \cup old)
  BY <1>1, <1>2, <1>3, <1>4 DEF Sound
<1> QED BY <1>5 DEF file, last, old

\* The rotation stops while it writes the file: what it had not written yet is
\* what the failed write took.
LEMMA CutSound ==
  ASSUME NEW l, NEW stored, Sound(l, stored), NEW keep \in Nat, Len(l.file) > keep,
         NEW n \in 0..keep, n < keep, NEW half \in BOOLEAN
  PROVE  Sound([l EXCEPT !.file = SubSeq(KeptRows(l.file, keep), 1, n), !.partial = half,
                         !.spoiled = @ \cup Ids(SubSeq(KeptRows(l.file, keep), n + 1, keep))],
               stored \cup Ids(OldRows(l.file, keep)))
<1> DEFINE kept == KeptRows(l.file, keep)
           old == Ids(OldRows(l.file, keep))
           front == SubSeq(kept, 1, n)
           lost == Ids(SubSeq(kept, n + 1, keep))
           m == [l EXCEPT !.file = front, !.partial = half, !.spoiled = l.spoiled \cup lost]
<1>1. /\ kept \in Seq(Row) /\ Len(kept) = keep /\ Chained(kept, l.spoiled)
      /\ Ids(l.file) = old \cup Ids(kept) /\ kept[keep] = l.file[Len(l.file)]
  <2>1. keep > 0
    OBVIOUS
  <2> QED BY <2>1, KeptFact
<1> HIDE DEF kept, old
<1>2. front \in Seq(Row) /\ Chained(front, l.spoiled)
  <2>1. 1 \in 1..(Len(kept) + 1) /\ n \in (1 - 1)..Len(kept)
    BY <1>1
  <2> QED BY <1>1, <2>1, PartFact, PartChained
<1>3. Ids(kept) = Ids(front) \cup lost
  BY <1>1, PartsHold
<1>4. lost \subseteq Events /\ kept[keep].id \in lost
  <2> DEFINE back == SubSeq(kept, n + 1, keep)
  <2>1. n + 1 \in 1..(Len(kept) + 1) /\ keep \in ((n + 1) - 1)..Len(kept)
    BY <1>1
  <2>2. /\ back \in Seq(Row) /\ Len(back) = keep - (n + 1) + 1
        /\ \A i \in 1..(keep - (n + 1) + 1) : back[i] = kept[n + 1 + i - 1]
    BY <1>1, <2>1, PartFact
  <2> HIDE DEF back
  <2>3. Ids(back) \subseteq Events
    BY <2>2, RowFact DEF Ids
  <2>4. keep - n \in 1..Len(back) /\ back[keep - n] = kept[keep]
    BY <2>2
  <2>5. kept[keep].id \in Ids(back)
    BY <2>4 DEF Ids
  <2> QED BY <2>3, <2>5 DEF back
<1> HIDE DEF front, lost
<1>5. /\ l \in Log /\ Whole(l.file, l.events, stored \cup l.spoiled)
      /\ Follows(l.file, l.last, l.spoiled) /\ l.spoiled \subseteq Events
  BY DEF Sound, Log
<1>6. /\ m \in Log /\ m.file = front /\ m.last = l.last /\ m.events = l.events
      /\ m.spoiled = l.spoiled \cup lost
  BY <1>2, <1>4, <1>5 DEF Log
<1>7. Whole(front, l.events, (stored \cup old) \cup (l.spoiled \cup lost))
  BY <1>1, <1>3, <1>5 DEF Whole
<1>8. Chained(front, l.spoiled \cup lost)
  BY <1>2 DEF Chained
<1>9. Follows(front, l.last, l.spoiled \cup lost)
  <2>1. l.file # << >>
    OBVIOUS
  <2>2. l.last \in {kept[keep].id} \cup l.spoiled
    BY <1>1, <1>5, <2>1 DEF Follows
  <2> QED BY <1>4, <2>2 DEF Follows
<1>10. Sound(m, stored \cup old)
  BY <1>6, <1>7, <1>8, <1>9 DEF Sound
<1> QED BY <1>10 DEF kept, old, front, lost

(***************************************************************************)
(* Steps                                                                   *)
(***************************************************************************)
LEMMA InitLog == Init => LogInv
<1> SUFFICES ASSUME Init PROVE LogInv
  OBVIOUS
<1>1. log = [file |-> << >>, partial |-> FALSE, last |-> Null, events |-> 0, spoiled |-> {}]
  BY DEF Init, AuditInit
<1>2. /\ log \in Log /\ log.file = << >> /\ log.events = 0
  BY <1>1 DEF Log, Hash
<1>3. archive \in Archive
  BY DEF Init, AuditInit, Archive
<1> QED BY <1>2, <1>3 DEF LogInv, Sound, Whole, Chained, Follows

\* What any writer but a rotation may make of the log.
Writes ==
  /\ UNCHANGED archive
  /\ \/ log' = log
     \/ log' = [log EXCEPT !.partial = TRUE]
     \/ Rows(1) /\ log' \in {Appended(log), [Appended(log) EXCEPT !.partial = TRUE]}
     \/ Rows(2) /\ log' = Appended(Appended(log))
     \/ log' = Restarted(log)

LEMMA WritesSound == LogInv /\ Writes => LogInv'
<1> SUFFICES ASSUME LogInv, Writes PROVE LogInv'
  OBVIOUS
<1>1. /\ Sound(log, Stored) /\ log.events \in Nat
      /\ archive' \in Archive /\ archive' = archive /\ Stored' = Stored
  BY DEF LogInv, Sound, Log, Writes, Stored
<1>2. /\ Sound([log EXCEPT !.partial = TRUE], Stored)
      /\ Sound(Restarted(log), Stored)
  BY <1>1, PartialSound, RestartedSound
<1>3. ASSUME Rows(1)
      PROVE  /\ Sound(Appended(log), Stored) /\ Appended(log).events = log.events + 1
             /\ Sound([Appended(log) EXCEPT !.partial = TRUE], Stored)
  <2>1. log.events < MaxEvents
    BY <1>1, <1>3 DEF Rows
  <2>2. Sound(Appended(log), Stored) /\ Appended(log).events = log.events + 1
    BY <1>1, <2>1, AppendedSound
  <2> QED BY <2>2, PartialSound
<1>4. ASSUME Rows(2) PROVE Sound(Appended(Appended(log)), Stored)
  <2>1. Rows(1) /\ log.events + 1 < MaxEvents
    BY <1>1, <1>4 DEF Rows
  <2> QED BY <1>3, <2>1, AppendedSound
<1>5. \/ log' = log \/ log' = [log EXCEPT !.partial = TRUE] \/ log' = Restarted(log)
      \/ Rows(1) /\ log' = Appended(log)
      \/ Rows(1) /\ log' = [Appended(log) EXCEPT !.partial = TRUE]
      \/ Rows(2) /\ log' = Appended(Appended(log))
  BY DEF Writes
<1>6. Sound(log', Stored)
  BY <1>1, <1>2, <1>3, <1>4, <1>5, Zenon
<1> QED BY <1>1, <1>6 DEF LogInv

LEMMA IdsFact == ASSUME NEW file \in Seq(Row) PROVE Ids(file) \subseteq Events
  BY RowFact DEF Ids

\* Rows that are archived are there, or the first of them is glued.
LEMMA ArchivedFact ==
  ASSUME archive \in Archive, NEW rows \in Seq(Row), NEW half \in BOOLEAN,
         Archived(rows, half)
  PROVE  archive' \in Archive /\ Stored' = Stored \cup Ids(rows)
<1> DEFINE lost == IF archive.half /\ rows # << >> THEN {rows[1].id} ELSE {}
<1>1. lost \subseteq Ids(rows)
  <2>1. rows # << >> => 1 \in 1..Len(rows)
    OBVIOUS
  <2> QED BY <2>1 DEF Ids
<1>2. Ids(rows) \subseteq Events
  BY IdsFact
<1>3. archive' = [rows |-> archive.rows \cup (Ids(rows) \ lost),
                  half |-> half \/ (archive.half /\ rows = << >>),
                  glued |-> archive.glued \cup lost]
  BY DEF Archived
<1> HIDE DEF lost
<1>4. archive' \in Archive
  BY <1>1, <1>2, <1>3 DEF Archive
<1>5. Stored' = (archive.rows \cup (Ids(rows) \ lost)) \cup (archive.glued \cup lost)
  BY <1>3 DEF Stored
<1> QED BY <1>1, <1>4, <1>5 DEF Stored

\* What a rotation archives are rows of the file.
LEMMA OldFact ==
  ASSUME LogInv, NEW keep \in Nat, Len(log.file) > keep
  PROVE  /\ OldRows(log.file, keep) \in Seq(Row)
         /\ Len(OldRows(log.file, keep)) \in Nat
         /\ \A n \in 0..Len(OldRows(log.file, keep)) :
              SubSeq(OldRows(log.file, keep), 1, n) \in Seq(Row)
<1> DEFINE k == Len(log.file) - keep
<1>1. /\ log.file \in Seq(Row) /\ k \in 1..Len(log.file) /\ k \in (1 - 1)..Len(log.file)
      /\ 1 \in 1..(Len(log.file) + 1)
  BY DEF LogInv, Sound, Log
<1>2. OldRows(log.file, keep) \in Seq(Row)
  BY <1>1, PartFact DEF OldRows
<1>3. ASSUME NEW file \in Seq(Row), NEW n \in 0..Len(file)
      PROVE  SubSeq(file, 1, n) \in Seq(Row)
  <2>1. 1 \in 1..(Len(file) + 1) /\ n \in (1 - 1)..Len(file)
    OBVIOUS
  <2> QED BY <2>1, PartFact
<1> QED BY <1>2, <1>3

\* The log once rotated is sound if what it dropped is stored.
LEMMA RotatedLog ==
  ASSUME LogInv, NEW keep \in Nat, Len(log.file) > keep,
         NEW stored, stored = Stored \cup Ids(OldRows(log.file, keep))
  PROVE  Sound(Rotated(keep), stored) /\ Rotated(keep).events = log.events
<1>1. Sound(log, Stored) /\ log \in Log
  BY DEF LogInv, Sound
<1>2. Sound(Rotated(keep), stored)
  BY <1>1, RotatedSound DEF Rotated
<1>3. Rotated(keep).events = log.events
  BY <1>1 DEF Rotated, Log
<1> QED BY <1>2, <1>3

\* Nothing is old enough, or a rotation takes place.
LEMMA RetainCases ==
  ASSUME LogInv, NEW keep \in Keeps, Retain(keep)
  PROVE  /\ log.events < MaxEvents /\ keep \in Nat
         /\ \/ Writes
            \/ /\ Len(log.file) > keep /\ log' = Appended(Rotated(keep))
               /\ Archived(OldRows(log.file, keep), FALSE)
<1>1. /\ log.events < MaxEvents
      /\ \/ Len(log.file) <= keep /\ log' = Appended(log) /\ UNCHANGED archive
         \/ /\ ~(Len(log.file) <= keep) /\ log' = Appended(Rotated(keep))
            /\ Archived(OldRows(log.file, keep), FALSE)
  BY Zenon DEF Retain
<1>2. log.events \in Nat /\ Len(log.file) \in Nat /\ keep \in Nat
  BY DEF LogInv, Sound, Log
<1>3. Rows(1)
  BY <1>1, <1>2 DEF Rows
<1>4. ~(Len(log.file) <= keep) => Len(log.file) > keep
  BY <1>2
<1>5. Len(log.file) <= keep /\ log' = Appended(log) /\ UNCHANGED archive => Writes
  BY <1>3 DEF Writes
<1> QED BY <1>1, <1>2, <1>4, <1>5, Zenon

LEMMA RetainSound ==
  ASSUME LogInv, NEW keep \in Keeps, Retain(keep)
  PROVE  LogInv'
<1>1. keep \in Nat /\ log.events \in Nat /\ log.events < MaxEvents
  <2>1. log.events \in Nat
    BY DEF LogInv, Sound, Log
  <2> QED BY <2>1, RetainCases, Zenon
<1>2. CASE Writes
  BY <1>2, WritesSound
<1>3. CASE /\ Len(log.file) > keep /\ log' = Appended(Rotated(keep))
           /\ Archived(OldRows(log.file, keep), FALSE)
  <2>2. archive' \in Archive /\ Stored' = Stored \cup Ids(OldRows(log.file, keep))
    BY <1>1, <1>3, OldFact, ArchivedFact DEF LogInv
  <2>3. Sound(Rotated(keep), Stored') /\ Rotated(keep).events = log.events
    BY <1>1, <1>3, <2>2, RotatedLog
  <2>4. Sound(Appended(Rotated(keep)), Stored')
    BY <1>1, <2>3, AppendedSound
  <2> QED BY <1>3, <2>2, <2>4 DEF LogInv
<1> QED BY <1>2, <1>3, RetainCases

LEMMA RetainFailsSound ==
  ASSUME LogInv, NEW keep \in Keeps, RetainFails(keep)
  PROVE  LogInv'
<1> DEFINE old == OldRows(log.file, keep)
           kept == KeptRows(log.file, keep)
<1>1. /\ keep \in Nat /\ Len(log.file) > keep /\ archive \in Archive /\ Sound(log, Stored)
      /\ \/ ArchivedInPart(old) /\ log' = log
         \/ /\ Archived(old, FALSE)
            /\ Cut(kept) \/ log' \in {Rotated(keep), [Rotated(keep) EXCEPT !.partial = TRUE]}
  BY DEF RetainFails, LogInv
<1>2. /\ old \in Seq(Row) /\ Len(old) \in Nat
      /\ \A n \in 0..Len(old) : SubSeq(old, 1, n) \in Seq(Row)
  BY <1>1, OldFact
<1>3. CASE ArchivedInPart(old) /\ log' = log
  <2> HIDE DEF old
  <2>1. PICK n \in 0..Len(old), half \in BOOLEAN : Archived(SubSeq(old, 1, n), half)
    BY <1>3 DEF ArchivedInPart
  <2>2. archive' \in Archive /\ Stored' = Stored \cup Ids(SubSeq(old, 1, n))
    BY <1>1, <1>2, <2>1, ArchivedFact
  <2>3. Sound(log, Stored')
    BY <1>1, <2>2, MoreStored
  <2> QED BY <1>3, <2>2, <2>3 DEF LogInv
<1>4. CASE Archived(old, FALSE) /\ Cut(kept)
  <2>1. archive' \in Archive /\ Stored' = Stored \cup Ids(old)
    BY <1>1, <1>2, <1>4, ArchivedFact
  <2>2. Len(kept) = keep
    BY <1>1, KeptFact
  <2>3. PICK n \in 0..keep, half \in BOOLEAN :
          /\ n < keep
          /\ log' = [log EXCEPT !.file = SubSeq(kept, 1, n), !.partial = half,
                                !.spoiled = @ \cup Ids(SubSeq(kept, n + 1, keep))]
    BY <1>4, <2>2 DEF Cut
  <2>4. Sound(log', Stored')
    BY <1>1, <2>1, <2>3, CutSound
  <2> QED BY <2>1, <2>4 DEF LogInv
<1>5. CASE /\ Archived(old, FALSE)
           /\ log' \in {Rotated(keep), [Rotated(keep) EXCEPT !.partial = TRUE]}
  <2>1. archive' \in Archive /\ Stored' = Stored \cup Ids(old)
    BY <1>1, <1>2, <1>5, ArchivedFact
  <2>2. Sound(Rotated(keep), Stored')
    BY <1>1, <2>1, RotatedLog
  <2>3. Sound([Rotated(keep) EXCEPT !.partial = TRUE], Stored')
    BY <2>2, PartialSound
  <2> QED BY <1>5, <2>1, <2>2, <2>3 DEF LogInv
<1> QED BY <1>1, <1>3, <1>4, <1>5

\* The service's methods write what any writer may.
LEMMA ServiceWrites ==
  ASSUME LogInv
  PROVE  /\ Snapshot => Writes
         /\ Propose => Writes
         /\ \A id \in 1..ids : Apply(id) => Writes
         /\ Rollback => Writes
<1>0. Rows(2) => Rows(1)
  BY DEF LogInv, Sound, Log, Rows
<1>1. Snapshot => Writes
  BY DEF Snapshot, NoRow, Writes
<1>2. Propose => Writes
  BY DEF Propose, NoRow, Writes
<1>3. ASSUME NEW id PROVE ApplyStops(id) => Writes
  BY DEF ApplyStops, ApplyWrites, NoRow, Writes
<1>4. ASSUME NEW id PROVE ApplyRefused(id) => Writes
  BY DEF ApplyRefused, auditVars, Writes
<1>5. ASSUME NEW id PROVE Applied(id) => UNCHANGED archive
  BY DEF Applied, ApplyWrites
<1>6. ASSUME NEW id PROVE Apply(id) => Writes
  BY <1>3, <1>4, <1>5 DEF Apply, Writes
<1>7. ASSUME NEW id, Rows(2) PROVE RollbackTo(id) => Writes
  BY <1>0, <1>3, <1>4, <1>5, <1>7 DEF RollbackTo, RolledBack, ApplyWrites, Writes
<1>8. Rollback => Writes
  BY <1>7 DEF Rollback
<1> QED BY <1>1, <1>2, <1>6, <1>8

LEMMA NextWrites ==
  ASSUME LogInv, [Next]_vars
  PROVE  Writes \/ \E keep \in Keeps : Retain(keep) \/ RetainFails(keep)
<1>1. log.events < MaxEvents => Rows(1)
  BY DEF LogInv, Sound, Log, Rows
<1>2. CASE Record \/ RecordFails \/ Restart
  BY <1>1, <1>2 DEF Record, RecordFails, Restart, Writes
<1>3. CASE Button
  BY <1>3, ServiceWrites DEF Button
<1>4. CASE Load \/ Type \/ Switch \/ HandEdit \/ UNCHANGED vars
  BY <1>4 DEF Load, Type, Switch, HandEdit, vars, auditVars, Writes
<1> QED BY <1>2, <1>3, <1>4 DEF Next, AuditNext

LEMMA LogStep == LogInv /\ [Next]_vars => LogInv'
  BY NextWrites, WritesSound, RetainSound, RetainFailsSound

LEMMA LogInvariant == Spec => []LogInv
  BY InitLog, LogStep, PTL DEF Spec

(***************************************************************************)
(* A log that was never rotated.                                           *)
(***************************************************************************)
\* Until a rotation or a failed write takes one, the first row of the file is
\* the first event, and the next row of an empty file will name no other.
FromStart(file, last) == IF file = << >> THEN last = Null ELSE file[1].prev = Null

Unrotated(l) == l.spoiled = {} => FromStart(l.file, l.last)
UnrotatedOK == Stored = {} => Unrotated(log)

LEMMA AppendedUnrotated ==
  ASSUME NEW l, NEW stored, Sound(l, stored), l.events < MaxEvents, Unrotated(l)
  PROVE  Unrotated(Appended(l))
<1> DEFINE id == l.events + 1
           row == [id |-> id, prev |-> l.last]
<1>1. /\ l \in Log /\ l.file \in Seq(Row) /\ l.last \in Hash /\ l.events \in 0..MaxEvents
      /\ l.partial \in BOOLEAN
  BY DEF Sound, Log
<1>2. CASE l.partial
  <2>1. Appended(l).spoiled = l.spoiled \cup {id}
    BY <1>1, <1>2 DEF Appended, Log
  <2> QED BY <2>1 DEF Unrotated
<1>3. CASE ~l.partial
  <2>1. row \in Row
    <3>1. id \in Events
      BY <1>1 DEF Events
    <3> QED BY <1>1, <3>1 DEF Row, Hash
  <2>2. /\ Appended(l).spoiled = l.spoiled /\ Appended(l).file = Append(l.file, row)
        /\ row.prev = l.last
    BY <1>1, <1>3 DEF Appended, Log
  <2> HIDE DEF row
  <2>3. /\ Len(Append(l.file, row)) = Len(l.file) + 1
        /\ \A i \in 1..Len(l.file) : Append(l.file, row)[i] = l.file[i]
        /\ Append(l.file, row)[Len(l.file) + 1] = row
    BY <1>1, <2>1, AppendFact, Zenon
  <2>4. Append(l.file, row) # << >>
    BY <1>1, <2>3
  <2>5. CASE l.file = << >>
    BY <2>2, <2>3, <2>4, <2>5 DEF Unrotated, FromStart
  <2>6. CASE l.file # << >>
    <3>1. 1 \in 1..Len(l.file)
      BY <1>1, <2>6
    <3> QED BY <2>2, <2>3, <2>4, <2>6, <3>1 DEF Unrotated, FromStart
  <2> QED BY <2>5, <2>6
<1> QED BY <1>1, <1>2, <1>3

LEMMA SameUnrotated ==
  ASSUME NEW l, NEW stored, Sound(l, stored), Unrotated(l)
  PROVE  Unrotated([l EXCEPT !.partial = TRUE]) /\ Unrotated(Restarted(l))
<1> DEFINE m == [l EXCEPT !.partial = TRUE]
           n == Restarted(l)
<1>1. /\ m.file = l.file /\ m.last = l.last /\ m.spoiled = l.spoiled
      /\ n.file = l.file /\ n.last = LastHash(l.file) /\ n.spoiled = l.spoiled
  BY DEF Sound, Log, Restarted
<1>2. FromStart(l.file, l.last) => FromStart(l.file, LastHash(l.file))
  BY DEF FromStart, LastHash
<1> QED BY <1>1, <1>2 DEF Unrotated

LEMMA WritesUnrotated ==
  ASSUME LogInv, UnrotatedOK, Writes
  PROVE  UnrotatedOK'
<1> SUFFICES ASSUME Stored = {} PROVE Unrotated(log')
  BY DEF UnrotatedOK, Writes, Stored
<1>1. Sound(log, Stored) /\ log.events \in Nat /\ Unrotated(log)
  BY DEF LogInv, Sound, Log, UnrotatedOK
<1>2. Unrotated([log EXCEPT !.partial = TRUE]) /\ Unrotated(Restarted(log))
  BY <1>1, SameUnrotated
<1>3. ASSUME Rows(1)
      PROVE  /\ Sound(Appended(log), Stored) /\ Appended(log).events = log.events + 1
             /\ Unrotated(Appended(log))
             /\ Unrotated([Appended(log) EXCEPT !.partial = TRUE])
  <2>1. log.events < MaxEvents
    BY <1>1, <1>3 DEF Rows
  <2>2. /\ Sound(Appended(log), Stored) /\ Appended(log).events = log.events + 1
        /\ Unrotated(Appended(log))
    BY <1>1, <2>1, AppendedSound, AppendedUnrotated
  <2> QED BY <2>2, SameUnrotated
<1>4. ASSUME Rows(2) PROVE Unrotated(Appended(Appended(log)))
  <2>1. Rows(1) /\ log.events + 1 < MaxEvents
    BY <1>1, <1>4 DEF Rows
  <2> QED BY <1>3, <2>1, AppendedUnrotated
<1> QED BY <1>1, <1>2, <1>3, <1>4 DEF Writes

\* A rotation archives a row at least.
LEMMA RotationArchives ==
  ASSUME LogInv, NEW keep \in Nat, Len(log.file) > keep
  PROVE  Ids(OldRows(log.file, keep)) # {}
<1> DEFINE n == Len(log.file) - keep
<1>1. log.file \in Seq(Row) /\ n \in 1..Len(log.file) /\ n \in (1 - 1)..Len(log.file)
      /\ 1 \in 1..(Len(log.file) + 1)
  BY DEF LogInv, Sound, Log
<1>2. Len(OldRows(log.file, keep)) = n - 1 + 1
  BY <1>1, PartFact DEF OldRows
<1>3. 1 \in 1..Len(OldRows(log.file, keep))
  BY <1>1, <1>2
<1> QED BY <1>3 DEF Ids

LEMMA UnrotatedStep == LogInv /\ UnrotatedOK /\ [Next]_vars => UnrotatedOK'
<1> SUFFICES ASSUME LogInv, UnrotatedOK, [Next]_vars PROVE UnrotatedOK'
  OBVIOUS
<1>1. CASE Writes
  BY <1>1, WritesUnrotated
<1>2. ASSUME NEW keep \in Keeps, Retain(keep) \/ RetainFails(keep), ~Writes PROVE UnrotatedOK'
  <2>1. keep \in Nat /\ Len(log.file) \in Nat /\ log.events \in Nat
    BY DEF LogInv, Sound, Log
  <2>2. /\ Len(log.file) > keep
        /\ \/ Archived(OldRows(log.file, keep), FALSE)
           \/ ArchivedInPart(OldRows(log.file, keep)) /\ log' = log
    BY <1>2, RetainCases, Zenon DEF RetainFails
  <2>3. /\ Ids(OldRows(log.file, keep)) # {} /\ archive \in Archive
        /\ OldRows(log.file, keep) \in Seq(Row)
        /\ \A n \in 0..Len(OldRows(log.file, keep)) :
             SubSeq(OldRows(log.file, keep), 1, n) \in Seq(Row)
    BY <2>1, <2>2, RotationArchives, OldFact DEF LogInv
  <2>4. CASE Archived(OldRows(log.file, keep), FALSE)
    <3>1. Stored' = Stored \cup Ids(OldRows(log.file, keep))
      BY <2>3, <2>4, ArchivedFact
    <3> QED BY <2>3, <3>1 DEF UnrotatedOK
  <2>5. CASE ArchivedInPart(OldRows(log.file, keep)) /\ log' = log
    <3> DEFINE old == OldRows(log.file, keep)
    <3> HIDE DEF old
    <3>1. PICK n \in 0..Len(old), half \in BOOLEAN : Archived(SubSeq(old, 1, n), half)
      BY <2>5 DEF ArchivedInPart, old
    <3>2. SubSeq(old, 1, n) \in Seq(Row)
      BY <2>3 DEF old
    <3>3. Stored' = Stored \cup Ids(SubSeq(old, 1, n))
      BY <2>3, <3>1, <3>2, ArchivedFact
    <3>4. Stored' = {} => Unrotated(log)
      BY <3>3 DEF UnrotatedOK
    <3> QED BY <2>5, <3>4 DEF UnrotatedOK
  <2> QED BY <2>2, <2>4, <2>5
<1> QED BY <1>1, <1>2, NextWrites

(***************************************************************************)
(* The index of versions.                                                  *)
(***************************************************************************)
Source == {"snapshot", "proposed", "applied"}

\* Newest first, each version under a number of its own; n were saved so far.
IndexOK(idx, n) ==
  /\ idx \in Seq(Version) /\ Len(idx) <= MaxVersions
  /\ \A i \in 1..Len(idx) : idx[i].id + i <= n + 1
  /\ \A i, j \in 1..Len(idx) : idx[i].id = idx[j].id => i = j

LEMMA VersionFact ==
  ASSUME NEW idx \in Seq(Version), NEW i \in 1..Len(idx)
  PROVE  /\ idx[i] \in Version /\ idx[i].id \in 1..MaxIds /\ idx[i].doc \in Doc
         /\ idx[i].source \in Source
<1>1. idx[i] \in Version
  OBVIOUS
<1> QED BY <1>1 DEF Version, Source

\* The new version is in front, the others are one place further, and what has
\* no place left is gone.
Pushed(new, idx, id, doc, source) ==
  /\ new \in Seq(Version)
  /\ Len(new) = IF Len(idx) + 1 < MaxVersions THEN Len(idx) + 1 ELSE MaxVersions
  /\ new[1] = [id |-> id, doc |-> doc, source |-> source]
  /\ \A i \in 2..Len(new) : new[i] = idx[i - 1]

LEMMA SavedFact ==
  ASSUME NEW idx \in Seq(Version), Len(idx) <= MaxVersions,
         NEW id \in 1..MaxIds, NEW doc \in Doc, NEW source \in Source
  PROVE  Pushed(Saved(idx, id, doc, source), idx, id, doc, source)
<1> USE ConfigAssumption
<1> DEFINE v == [id |-> id, doc |-> doc, source |-> source]
           next == <<v>> \o idx
           n == IF Len(next) < MaxVersions THEN Len(next) ELSE MaxVersions
<1>1. v \in Version
  BY DEF Version, Source
<1> HIDE DEF v
<1>2. /\ next \in Seq(Version) /\ Len(next) = Len(idx) + 1
      /\ next[1] = v /\ \A i \in 2..(Len(idx) + 1) : next[i] = idx[i - 1]
  BY <1>1
<1> HIDE DEF next
<1>3. n \in 1..Len(next) /\ n <= MaxVersions
      /\ n = IF Len(idx) + 1 < MaxVersions THEN Len(idx) + 1 ELSE MaxVersions
  BY <1>2
<1> HIDE DEF n
<1>4. /\ SubSeq(next, 1, n) \in Seq(Version) /\ Len(SubSeq(next, 1, n)) = n
      /\ \A i \in 1..n : SubSeq(next, 1, n)[i] = next[i]
  <2>1. \A i \in 1..n : next[i] \in Version
    BY <1>2, <1>3
  <2> QED BY <1>2, <1>3, <2>1, SubSeqProperties
<1>5. Saved(idx, id, doc, source) = SubSeq(next, 1, n)
  BY DEF Saved, n, next, v
<1>6. 1 \in 1..n /\ \A i \in 2..n : i \in 1..n /\ i \in 2..(Len(idx) + 1)
  BY <1>2, <1>3
<1>7. SubSeq(next, 1, n)[1] = v /\ \A i \in 2..n : SubSeq(next, 1, n)[i] = idx[i - 1]
  BY <1>2, <1>4, <1>6
<1> QED BY <1>3, <1>4, <1>5, <1>7 DEF v, Pushed

LEMMA SavedOK ==
  ASSUME NEW n \in Nat, n < MaxIds, NEW idx, IndexOK(idx, n),
         NEW doc \in Doc, NEW source \in Source
  PROVE  IndexOK(Saved(idx, n + 1, doc, source), n + 1)
<1> USE ConfigAssumption
<1> DEFINE new == Saved(idx, n + 1, doc, source)
<1>1. /\ n + 1 \in 1..MaxIds /\ idx \in Seq(Version) /\ Len(idx) <= MaxVersions /\ Len(idx) \in Nat
      /\ \A i \in 1..Len(idx) : idx[i].id \in 1..MaxIds /\ idx[i].id + i <= n + 1
      /\ \A i, j \in 1..Len(idx) : idx[i].id = idx[j].id => i = j
  BY VersionFact DEF IndexOK
<1>2. /\ new \in Seq(Version)
      /\ Len(new) = IF Len(idx) + 1 < MaxVersions THEN Len(idx) + 1 ELSE MaxVersions
      /\ new[1].id = n + 1
      /\ \A i \in 2..Len(new) : new[i] = idx[i - 1]
  <2>1. Pushed(new, idx, n + 1, doc, source)
    BY <1>1, SavedFact
  <2> HIDE DEF new
  <2> QED BY <2>1 DEF Pushed
<1> HIDE DEF new
<1>3. /\ Len(new) \in Nat /\ Len(new) <= MaxVersions
      /\ \A i \in 2..Len(new) : i - 1 \in 1..Len(idx)
  BY <1>1, <1>2
<1>4. \A i \in 2..Len(new) : new[i].id \in 1..MaxIds /\ new[i].id + (i - 1) <= n + 1
  BY <1>1, <1>2, <1>3
<1>5. \A i \in 1..Len(new) : new[i].id + i <= (n + 1) + 1
  <2>1. ASSUME NEW i \in 1..Len(new) PROVE new[i].id + i <= (n + 1) + 1
    <3>1. CASE i = 1
      BY <1>2, <3>1
    <3>2. CASE i # 1
      <4>1. i \in 2..Len(new)
        BY <3>2
      <4> QED BY <1>4, <4>1
    <3> QED BY <3>1, <3>2
  <2> QED BY <2>1
<1>6. \A i \in 2..Len(new) : new[i].id # n + 1
  <2>1. ASSUME NEW i \in 2..Len(new) PROVE new[i].id # n + 1
    BY <1>4
  <2> QED BY <2>1
<1>7. ASSUME NEW i \in 1..Len(new), NEW j \in 1..Len(new), new[i].id = new[j].id
      PROVE  i = j
  <2>1. CASE i = 1 \/ j = 1
    <3>1. i \in 2..Len(new) \/ i = 1
      OBVIOUS
    <3>2. j \in 2..Len(new) \/ j = 1
      OBVIOUS
    <3> QED BY <1>2, <1>6, <1>7, <2>1, <3>1, <3>2
  <2>2. CASE i # 1 /\ j # 1
    <3>1. i \in 2..Len(new) /\ j \in 2..Len(new)
      BY <2>2
    <3>2. idx[i - 1].id = idx[j - 1].id /\ i - 1 \in 1..Len(idx) /\ j - 1 \in 1..Len(idx)
      BY <1>2, <1>3, <1>7, <3>1
    <3>3. i - 1 = j - 1
      BY <1>1, <3>2
    <3> QED BY <3>3
  <2> QED BY <2>1, <2>2
<1> QED BY <1>2, <1>3, <1>5, <1>7 DEF IndexOK, new

LEMMA OlderOK ==
  ASSUME NEW n \in Nat, NEW m \in Nat, n <= m, NEW idx, IndexOK(idx, n)
  PROVE  IndexOK(idx, m)
<1>1. \A i \in 1..Len(idx) : idx[i].id \in 1..MaxIds /\ idx[i].id + i <= n + 1
  BY VersionFact DEF IndexOK
<1>2. ASSUME NEW i \in 1..Len(idx) PROVE idx[i].id + i <= m + 1
  <2>1. idx[i].id \in Nat /\ idx[i].id + i <= n + 1
    BY <1>1, ConfigAssumption
  <2> QED BY <2>1
<1> QED BY <1>2 DEF IndexOK

LEMMA EmptyOK == ASSUME NEW n PROVE IndexOK(<< >>, n)
  BY ConfigAssumption DEF IndexOK

(***************************************************************************)
(* The files and the page: what a step leaves is well formed.              *)
(***************************************************************************)
DocsOK ==
  /\ host \in Doc /\ backup \in Doc /\ live \in Doc /\ draft \in Doc
  /\ before \in Doc /\ undo \in Doc

ConfigOK ==
  /\ DocsOK
  /\ ids \in 0..MaxIds /\ since \in 0..MaxIds /\ edits \in 0..MaxEdits
  /\ IndexOK(index, ids)

LEMMA DocFact ==
  /\ None \in Doc /\ Torn \in Doc
  /\ \A doc \in Doc : Masked(doc) \in Doc
  /\ \A doc \in Doc, n \in 0..MaxEdits : [doc EXCEPT !.edit = n] \in Doc
  /\ \A n \in 0..MaxEdits, hidden \in BOOLEAN : [edit |-> n, secrets |-> hidden] \in Doc
<1> USE ConfigAssumption DEF Doc
<1>1. None \in Doc /\ Torn \in Doc
  BY DEF None, Torn
<1>2. \A doc \in Doc : Masked(doc) \in Doc
  BY DEF Masked
<1>3. \A doc \in Doc, n \in 0..MaxEdits : [doc EXCEPT !.edit = n] \in Doc
  OBVIOUS
<1>4. \A n \in 0..MaxEdits, hidden \in BOOLEAN : [edit |-> n, secrets |-> hidden] \in Doc
  OBVIOUS
<1> QED BY <1>1, <1>2, <1>3, <1>4

LEMMA InitConfig == Init => ConfigOK
<1> SUFFICES ASSUME Init PROVE ConfigOK
  OBVIOUS
<1>1. host \in Doc
  <2>1. 0 \in 0..MaxEdits /\ TRUE \in BOOLEAN /\ host = [edit |-> 0, secrets |-> TRUE]
    BY ConfigAssumption DEF Init
  <2> QED BY <2>1, DocFact, Zenon
<1> QED BY <1>1, DocFact, EmptyOK, ConfigAssumption DEF Init, ConfigOK, DocsOK

LEMMA SaveOK ==
  ASSUME ConfigOK, NEW doc \in Doc, NEW source \in Source, Save(doc, source)
  PROVE  /\ ids' \in 0..MaxIds /\ IndexOK(index', ids') /\ ids' = ids + 1
         /\ Pushed(index', index, ids + 1, doc, source)
<1>1. ids \in Nat /\ ids < MaxIds /\ ids' = ids + 1 /\ index' = Saved(index, ids + 1, doc, source)
  BY ConfigAssumption DEF ConfigOK, Save
<1>2. IndexOK(index, ids) /\ index \in Seq(Version) /\ Len(index) <= MaxVersions
  BY DEF ConfigOK, IndexOK
<1>3. IndexOK(index', ids + 1)
  BY <1>1, <1>2, SavedOK
<1>4. ids + 1 \in 1..MaxIds
  BY <1>1, ConfigAssumption
<1>5. Pushed(index', index, ids + 1, doc, source)
  BY <1>1, <1>2, <1>4, SavedFact
<1> QED BY <1>1, <1>3, <1>4, <1>5

LEMMA SaveStopsOK ==
  ASSUME ConfigOK, SaveStops
  PROVE  IndexOK(index', ids)
  BY EmptyOK DEF ConfigOK, SaveStops

\* The snapshot that comes before an apply.
LEMMA SnapshottedOK ==
  ASSUME ConfigOK, ids < MaxIds
  PROVE  /\ IndexOK(Snapshotted, ids + 1)
         /\ Pushed(Snapshotted, index, ids + 1, host, "snapshot")
<1>1. /\ ids \in Nat /\ ids + 1 \in 1..MaxIds /\ host \in Doc /\ "snapshot" \in Source
      /\ IndexOK(index, ids) /\ index \in Seq(Version) /\ Len(index) <= MaxVersions
  BY ConfigAssumption DEF ConfigOK, DocsOK, IndexOK, Source
<1>2. IndexOK(Snapshotted, ids + 1)
  BY <1>1, SavedOK DEF Snapshotted
<1>3. Pushed(Snapshotted, index, ids + 1, host, "snapshot")
  BY <1>1, SavedFact DEF Snapshotted
<1> QED BY <1>2, <1>3

\* The version an apply finds.
LEMMA TargetFact ==
  ASSUME ConfigOK, ids < MaxIds, NEW id, Found(id) # {}
  PROVE  /\ Target(id) \in Doc
         /\ \E i \in 1..Len(Snapshotted) :
              Snapshotted[i].id = id /\ Target(id) = Snapshotted[i].doc
<1> DEFINE i == CHOOSE n \in Found(id) : TRUE
<1>1. i \in Found(id)
  OBVIOUS
<1>2. Target(id) = Snapshotted[i].doc
  BY DEF Target
<1> HIDE DEF i
<1>3. i \in 1..Len(Snapshotted) /\ Snapshotted[i].id = id
  BY <1>1 DEF Found
<1>4. Snapshotted \in Seq(Version)
  BY SnapshottedOK DEF IndexOK
<1>5. Target(id) \in Doc
  BY <1>2, <1>3, <1>4, VersionFact
<1> QED BY <1>2, <1>3, <1>5

LEMMA ApplyWritesOK ==
  ASSUME ConfigOK, NEW id, Found(id) # {}, NEW done \in 0..4, NEW torn \in BOOLEAN,
         ApplyWrites(id, done, torn)
  PROVE  /\ host' \in Doc /\ backup' \in Doc /\ before' \in Doc
         /\ ids' = ids + 2 /\ ids' \in 0..MaxIds /\ since' \in 0..MaxIds
         /\ IndexOK(index', ids')
<1>1. ids \in Nat /\ ids + 2 <= MaxIds /\ ids' = ids + 2 /\ ids < MaxIds /\ since \in 0..MaxIds
  BY ConfigAssumption DEF ApplyWrites, ConfigOK
<1>2. host \in Doc /\ backup \in Doc /\ before \in Doc /\ Target(id) \in Doc
  BY <1>1, TargetFact DEF ConfigOK, DocsOK
<1>3. IndexOK(index, ids + 2) /\ IndexOK(<< >>, ids + 2) /\ IndexOK(Snapshotted, ids + 2)
  <2>1. IndexOK(index, ids) /\ IndexOK(Snapshotted, ids + 1)
    BY <1>1, SnapshottedOK DEF ConfigOK
  <2>2. ids + 2 \in Nat /\ ids + 1 \in Nat /\ ids <= ids + 2 /\ ids + 1 <= ids + 2
    BY <1>1
  <2> QED BY <1>1, <2>1, <2>2, OlderOK, EmptyOK
<1>4. IndexOK(Saved(Snapshotted, ids + 2, Target(id), "applied"), ids + 2)
  <2> DEFINE n == ids + 1
  <2>1. n \in Nat /\ n < MaxIds /\ IndexOK(Snapshotted, n) /\ "applied" \in Source /\ n + 1 = ids + 2
    BY <1>1, SnapshottedOK, ConfigAssumption DEF Source
  <2> HIDE DEF n
  <2>2. IndexOK(Saved(Snapshotted, n + 1, Target(id), "applied"), n + 1)
    BY <1>2, <2>1, SavedOK
  <2> QED BY <2>1, <2>2
<1>5. /\ index' \in {index, << >>, Snapshotted, Saved(Snapshotted, ids + 2, Target(id), "applied")}
      /\ backup' \in {host, Torn, backup} /\ host' \in {Target(id), Torn, host}
      /\ before' \in {before, host} /\ since' \in {since, ids}
  BY DEF ApplyWrites, BackupOf
<1>6. IndexOK(index', ids + 2)
  BY <1>3, <1>4, <1>5
<1>7. host' \in Doc /\ backup' \in Doc /\ before' \in Doc
  BY <1>2, <1>5, DocFact
<1>8. since' \in 0..MaxIds /\ ids' \in 0..MaxIds
  BY <1>1, <1>5, ConfigAssumption DEF ConfigOK
<1> QED BY <1>1, <1>6, <1>7, <1>8

\* What a call of the service writes, apart from the log and undo.
LEMMA AppliedOK ==
  ASSUME ConfigOK, NEW id, Found(id) # {}, NEW done \in 0..4, NEW torn \in BOOLEAN,
         ApplyWrites(id, done, torn), undo' \in {None, host}
  PROVE  ConfigOK'
<1>1. /\ host' \in Doc /\ backup' \in Doc /\ before' \in Doc
      /\ ids' \in 0..MaxIds /\ since' \in 0..MaxIds /\ IndexOK(index', ids')
  BY ApplyWritesOK
<1>2. UNCHANGED <<edits, live, draft>>
  BY DEF ApplyWrites
<1>3. undo' \in Doc
  BY DocFact DEF ConfigOK, DocsOK
<1> QED BY <1>1, <1>2, <1>3 DEF ConfigOK, DocsOK

LEMMA ApplyPartsOK ==
  ASSUME ConfigOK, NEW id
  PROVE  /\ Applied(id) => ConfigOK'
         /\ ApplyStops(id) => ConfigOK'
         /\ ApplyRefused(id) => ConfigOK'
<1> 4 \in 0..4 /\ FALSE \in BOOLEAN /\ \A done \in 0..3 : done \in 0..4
  OBVIOUS
<1>1. ASSUME Applied(id) PROVE ConfigOK'
  <2>1. Found(id) # {} /\ ApplyWrites(id, 4, FALSE) /\ undo' \in {None, host}
    BY <1>1 DEF Applied
  <2> QED BY <2>1, AppliedOK, Zenon
<1>2. ASSUME ApplyStops(id) PROVE ConfigOK'
  <2>1. PICK done \in 0..4, torn \in BOOLEAN : ApplyWrites(id, done, torn)
    BY <1>2, Zenon DEF ApplyStops
  <2> QED BY <1>2, <2>1, AppliedOK DEF ApplyStops
<1>3. ASSUME ApplyRefused(id) PROVE ConfigOK'
  <2>1. host \in Doc /\ "snapshot" \in Source /\ Save(host, "snapshot")
    BY <1>3 DEF ApplyRefused, ConfigOK, DocsOK, Source
  <2>2. ids' \in 0..MaxIds /\ IndexOK(index', ids')
    BY <2>1, SaveOK
  <2> QED BY <1>3, <2>2, DocFact DEF ApplyRefused, ConfigOK, DocsOK
<1> QED BY <1>1, <1>2, <1>3

LEMMA RollbackToOK == ASSUME ConfigOK, NEW id, RollbackTo(id) PROVE ConfigOK'
<1>1. CASE Found(id) # {} /\ ApplyWrites(id, 4, FALSE) /\ undo' = None
  <2>1. 4 \in 0..4 /\ FALSE \in BOOLEAN /\ undo' \in {None, host}
    BY <1>1
  <2> QED BY <1>1, <2>1, AppliedOK, Zenon
<1> QED BY <1>1, ApplyPartsOK DEF RollbackTo, RolledBack

LEMMA ButtonOK == ASSUME ConfigOK, Button PROVE ConfigOK'
<1>1. CASE Snapshot
  <2>1. UNCHANGED <<host, backup, edits, live, draft, before, since>> /\ undo' \in Doc
    BY <1>1, DocFact DEF Snapshot
  <2>2. CASE TakeSnapshot
    <3>1. host \in Doc /\ "snapshot" \in Source /\ Save(host, "snapshot")
      BY <2>2 DEF TakeSnapshot, ConfigOK, DocsOK, Source
    <3>2. ids' \in 0..MaxIds /\ IndexOK(index', ids')
      BY <3>1, SaveOK
    <3> QED BY <2>1, <3>2 DEF ConfigOK, DocsOK
  <2>3. CASE SaveStops /\ UNCHANGED ids
    BY <2>1, <2>3, SaveStopsOK DEF ConfigOK, DocsOK
  <2> QED BY <1>1, <2>2, <2>3 DEF Snapshot
<1>2. CASE Propose
  <2>1. UNCHANGED <<host, backup, edits, live, draft, before, since>> /\ undo' \in Doc
    BY <1>2, DocFact DEF Propose, ConfigOK, DocsOK
  <2>2. CASE TakeProposal
    <3>1. draft \in Doc /\ "proposed" \in Source /\ Save(draft, "proposed")
      BY <2>2 DEF TakeProposal, ConfigOK, DocsOK, Source
    <3>2. ids' \in 0..MaxIds /\ IndexOK(index', ids')
      BY <3>1, SaveOK
    <3> QED BY <2>1, <3>2 DEF ConfigOK, DocsOK
  <2>3. CASE SaveStops /\ UNCHANGED ids
    BY <2>1, <2>3, SaveStopsOK DEF ConfigOK, DocsOK
  <2> QED BY <1>2, <2>2, <2>3 DEF Propose
<1>3. CASE Rollback
  BY <1>3, RollbackToOK DEF Rollback
<1>4. ASSUME NEW id \in 1..ids, Apply(id) PROVE ConfigOK'
  BY <1>4, ApplyPartsOK DEF Apply
<1> QED BY <1>1, <1>2, <1>3, <1>4 DEF Button

LEMMA ConfigStep == ConfigOK /\ [Next]_vars => ConfigOK'
<1> SUFFICES ASSUME ConfigOK, [Next]_vars PROVE ConfigOK'
  OBVIOUS
<1>1. CASE AuditNext /\ UNCHANGED configVars
  BY <1>1 DEF configVars, ConfigOK, DocsOK
<1>2. CASE Button
  BY <1>2, ButtonOK
<1>3. CASE Load
  <2>1. draft' \in Doc /\ live' \in Doc
    BY <1>3, DocFact DEF Load, GetLive, ConfigOK, DocsOK
  <2> QED BY <1>3, <2>1 DEF Load, ConfigOK, DocsOK
<1>4. CASE Type
  <2>1. edits + 1 \in 0..MaxEdits
    BY <1>4, ConfigAssumption DEF Type, ConfigOK
  <2>2. draft' \in Doc
    <3> DEFINE n == edits + 1
    <3>1. draft' = [draft EXCEPT !.edit = n]
      BY <1>4 DEF Type
    <3> HIDE DEF n
    <3>2. n \in 0..MaxEdits /\ draft \in Doc
      BY <2>1 DEF n, ConfigOK, DocsOK
    <3> QED BY <3>1, <3>2, DocFact
  <2> QED BY <1>4, <2>1, <2>2 DEF Type, ConfigOK, DocsOK
<1>5. CASE Switch
  BY <1>5, DocFact DEF Switch, ConfigOK, DocsOK
<1>6. CASE HandEdit
  <2>1. edits + 1 \in 0..MaxEdits
    BY <1>6, ConfigAssumption DEF HandEdit, ConfigOK
  <2>2. host' \in Doc
    <3> DEFINE n == edits + 1
    <3>1. host' = [edit |-> n, secrets |-> TRUE] /\ TRUE \in BOOLEAN
      BY <1>6 DEF HandEdit
    <3> HIDE DEF n
    <3>2. n \in 0..MaxEdits
      BY <2>1 DEF n
    <3> QED BY <3>1, <3>2, DocFact, Zenon
  <2> QED BY <1>6, <2>1, <2>2 DEF HandEdit, ConfigOK, DocsOK
<1>7. CASE UNCHANGED vars
  BY <1>7 DEF vars, configVars, ConfigOK, DocsOK
<1> QED BY <1>1, <1>2, <1>3, <1>4, <1>5, <1>6, <1>7 DEF Next

LEMMA ConfigInvariant == Spec => []ConfigOK
  BY InitConfig, ConfigStep, PTL DEF Spec

(***************************************************************************)
(* What a rollback finds.                                                  *)
(***************************************************************************)
\* While nothing but proposals followed an apply, the version after the newest
\* that can be rolled back to is the snapshot that apply began with.
UndoOK ==
  undo # None =>
    \A i \in 1..(Len(index) - 1) :
      Newest(i) => Rollbackable(index[i + 1]) /\ index[i + 1].doc = undo

\* Only an apply that ends makes undo anything, and no step but a proposal
\* changes the index and leaves undo.
LEMMA UndoSteps ==
  ASSUME [Next]_vars
  PROVE  \/ undo' = None
         \/ UNCHANGED <<index, undo>>
         \/ TakeProposal /\ UNCHANGED undo
         \/ \E id : Applied(id)
<1>1. ASSUME NEW id
      PROVE  /\ ApplyStops(id) => undo' = None
             /\ ApplyRefused(id) => undo' = None
  BY DEF ApplyStops, ApplyRefused
<1>2. ASSUME NEW id, Apply(id) PROVE undo' = None \/ Applied(id)
  BY <1>1, <1>2 DEF Apply
<1>3. ASSUME NEW id, RollbackTo(id) PROVE undo' = None \/ Applied(id)
  BY <1>1, <1>3 DEF RollbackTo, RolledBack
<1>4. CASE Button
  BY <1>2, <1>3, <1>4 DEF Button, Snapshot, Propose, Rollback
<1>5. CASE AuditNext /\ UNCHANGED configVars
  BY <1>5 DEF configVars
<1>6. CASE Load \/ Type \/ Switch \/ HandEdit
  BY <1>6 DEF Load, Type, Switch, HandEdit
<1>7. CASE UNCHANGED vars
  BY <1>7 DEF vars, configVars
<1> QED BY <1>4, <1>5, <1>6, <1>7 DEF Next

LEMMA ProposalUndo ==
  ASSUME ConfigOK, UndoOK, TakeProposal, UNCHANGED undo
  PROVE  UndoOK'
<1>1. draft \in Doc /\ "proposed" \in Source /\ Save(draft, "proposed")
  BY DEF TakeProposal, ConfigOK, DocsOK, Source
<1>2. Pushed(index', index, ids + 1, draft, "proposed")
  BY <1>1, SaveOK
<1>3. /\ index \in Seq(Version) /\ index' \in Seq(Version) /\ index'[1].source = "proposed"
      /\ Len(index') <= Len(index) + 1
      /\ \A i \in 2..Len(index') : index'[i] = index[i - 1]
  BY <1>2, ConfigAssumption DEF Pushed, ConfigOK, IndexOK
<1>4. /\ Len(index) \in Nat /\ Len(index') \in Nat
      /\ \A i \in 2..Len(index') : i - 1 \in 1..Len(index)
  BY <1>3
<1>5. ~Rollbackable(index'[1])
  BY <1>3 DEF Rollbackable
<1>6. ASSUME undo # None, NEW i \in 1..(Len(index') - 1), Newest(i)'
      PROVE  Rollbackable(index'[i + 1]) /\ index'[i + 1].doc = undo
  <2>1. Rollbackable(index'[i]) /\ \A k \in 1..(i - 1) : ~Rollbackable(index'[k])
    BY <1>6 DEF Newest, Rollbackable
  <2>2. i \in 2..Len(index') /\ i + 1 \in 2..Len(index') /\ i - 1 \in 1..(Len(index) - 1)
    <3>1. i # 1
      BY <1>5, <2>1
    <3> QED BY <1>3, <1>4, <3>1
  <2>3. index'[i] = index[i - 1] /\ index'[i + 1] = index[(i - 1) + 1]
    <3>1. (i + 1) - 1 = (i - 1) + 1
      BY <1>4
    <3>2. index'[i] = index[i - 1] /\ index'[i + 1] = index[(i + 1) - 1]
      BY <1>3, <2>2, Zenon
    <3> QED BY <3>1, <3>2, Zenon
  <2>4. ASSUME NEW k \in 1..((i - 1) - 1) PROVE ~Rollbackable(index[k])
    <3>1. k + 1 \in 1..(i - 1) /\ k + 1 \in 2..Len(index') /\ (k + 1) - 1 = k
      BY <1>4, <2>2
    <3>2. index'[k + 1] = index[(k + 1) - 1] /\ ~Rollbackable(index'[k + 1])
      BY <1>3, <2>1, <3>1, Zenon
    <3> QED BY <3>1, <3>2, Zenon DEF Rollbackable
  <2>5. Newest(i - 1)
    BY <2>1, <2>3, <2>4 DEF Newest
  <2> QED BY <1>6, <2>2, <2>3, <2>5 DEF UndoOK
<1> QED BY <1>6 DEF UndoOK, Rollbackable

\* The two versions that an apply which ends leaves in front.
LEMMA AppliedFront ==
  ASSUME ConfigOK, NEW id, Found(id) # {}, ApplyWrites(id, 4, FALSE)
  PROVE  /\ index' \in Seq(Version) /\ Len(index') \in 1..MaxVersions
         /\ index'[1].source = "applied"
         /\ Len(index') >= 2 =>
              /\ index'[2] = [id |-> ids + 1, doc |-> host, source |-> "snapshot"]
         /\ MaxVersions >= 2 => Len(index') >= 2
<1>1. ids \in Nat /\ ids + 2 <= MaxIds /\ ids < MaxIds /\ ids + 2 \in 1..MaxIds
  BY ConfigAssumption DEF ApplyWrites, ConfigOK
<1>2. index' = Saved(Snapshotted, ids + 2, Target(id), "applied")
  BY DEF ApplyWrites
<1>3. /\ IndexOK(Snapshotted, ids + 1)
      /\ Pushed(Snapshotted, index, ids + 1, host, "snapshot")
  BY <1>1, SnapshottedOK
<1>4. Target(id) \in Doc /\ "applied" \in Source
  BY <1>1, TargetFact DEF Source
<1>5. Snapshotted \in Seq(Version) /\ Len(Snapshotted) <= MaxVersions
  BY <1>3 DEF IndexOK
<1>6. Pushed(index', Snapshotted, ids + 2, Target(id), "applied")
  BY <1>1, <1>2, <1>4, <1>5, SavedFact
<1>7. Len(index) \in Nat /\ Len(Snapshotted) \in Nat /\ Len(Snapshotted) >= 1
  <2>1. index \in Seq(Version)
    BY DEF ConfigOK, IndexOK
  <2> QED BY <1>3, <2>1, ConfigAssumption DEF Pushed
<1>8. /\ index' \in Seq(Version) /\ index'[1].source = "applied"
      /\ Len(index') = IF Len(Snapshotted) + 1 < MaxVersions THEN Len(Snapshotted) + 1
                                                            ELSE MaxVersions
      /\ \A i \in 2..Len(index') : index'[i] = Snapshotted[i - 1]
  BY <1>6 DEF Pushed
<1>9. Len(index') \in 1..MaxVersions /\ (MaxVersions >= 2 => Len(index') >= 2)
  BY <1>7, <1>8, ConfigAssumption
<1>10. ASSUME Len(index') >= 2
       PROVE  index'[2] = [id |-> ids + 1, doc |-> host, source |-> "snapshot"]
  <2>1. 2 \in 2..Len(index')
    BY <1>9, <1>10
  <2>2. index'[2] = Snapshotted[1]
    BY <1>8, <2>1
  <2> QED BY <1>3, <2>2 DEF Pushed
<1> QED BY <1>8, <1>9, <1>10

LEMMA AppliedUndo == ASSUME ConfigOK, NEW id, Applied(id) PROVE UndoOK'
<1>1. Found(id) # {} /\ ApplyWrites(id, 4, FALSE) /\ undo' = host
  BY DEF Applied
<1>2. /\ Len(index') \in Nat /\ index'[1].source = "applied"
      /\ Len(index') >= 2 =>
           /\ index'[2] = [id |-> ids + 1, doc |-> host, source |-> "snapshot"]
  <2>1. /\ index' \in Seq(Version) /\ Len(index') \in 1..MaxVersions
        /\ index'[1].source = "applied"
        /\ Len(index') >= 2 =>
             /\ index'[2] = [id |-> ids + 1, doc |-> host, source |-> "snapshot"]
    BY <1>1, AppliedFront, Zenon
  <2> QED BY <2>1
<1>3. Rollbackable(index'[1])
  BY <1>2 DEF Rollbackable
<1>4. ASSUME NEW i \in 1..(Len(index') - 1), Newest(i)'
      PROVE  Rollbackable(index'[i + 1]) /\ index'[i + 1].doc = host
  <2>1. \A k \in 1..(i - 1) : ~Rollbackable(index'[k])
    BY <1>4 DEF Newest, Rollbackable
  <2>2. i = 1 /\ Len(index') >= 2
    BY <1>2, <1>3, <2>1
  <2>3. i + 1 = 2 /\ index'[2].source = "snapshot" /\ index'[2].doc = host
    BY <1>2, <2>2
  <2> QED BY <2>3 DEF Rollbackable
<1> QED BY <1>1, <1>4 DEF UndoOK, Rollbackable

LEMMA UndoStep == ConfigOK /\ UndoOK /\ [Next]_vars => UndoOK'
<1> SUFFICES ASSUME ConfigOK, UndoOK, [Next]_vars PROVE UndoOK'
  OBVIOUS
<1>1. CASE undo' = None
  BY <1>1 DEF UndoOK, None
<1>2. CASE UNCHANGED <<index, undo>>
  BY <1>2 DEF UndoOK, Newest, Rollbackable
<1>3. CASE TakeProposal /\ UNCHANGED undo
  BY <1>3, ProposalUndo
<1>4. ASSUME NEW id, Applied(id) PROVE UndoOK'
  BY <1>4, AppliedUndo
<1> QED BY <1>1, <1>2, <1>3, <1>4, UndoSteps

LEMMA UndoInvariant == Spec => []UndoOK
<1>1. Init => UndoOK
  BY DEF Init, UndoOK
<1> QED BY <1>1, UndoStep, ConfigInvariant, PTL DEF Spec

LEMMA EventsFact ==
  ASSUME LogInv
  PROVE  /\ log.events \in Nat
         /\ Appended(log).events = log.events + 1
         /\ Appended(Appended(log)).events = log.events + 2
         /\ [log EXCEPT !.partial = TRUE].events = log.events
         /\ [Appended(log) EXCEPT !.partial = TRUE].events = log.events + 1
<1> DEFINE Fields == {"file", "partial", "last", "events", "spoiled"}
<1>1. DOMAIN log = Fields /\ log.events \in Nat
  BY DEF LogInv, Sound, Log
<1>2. ASSUME NEW l, DOMAIN l = Fields
      PROVE  /\ DOMAIN Appended(l) = Fields
             /\ Appended(l).events = l.events + 1
             /\ [l EXCEPT !.partial = TRUE].events = l.events
  BY <1>2 DEF Appended
<1> HIDE DEF Fields
<1>3. Appended(log).events = log.events + 1 /\ [log EXCEPT !.partial = TRUE].events = log.events
  BY <1>1, <1>2
<1>4. /\ Appended(Appended(log)).events = Appended(log).events + 1
      /\ [Appended(log) EXCEPT !.partial = TRUE].events = Appended(log).events
  BY <1>1, <1>2
<1> QED BY <1>1, <1>3, <1>4

\* Only a rollback saves two versions and has two events recorded.
LEMMA TwoEvents ==
  ASSUME ConfigOK, LogInv, [Next]_vars, ids' = ids + 2, log' = Appended(Appended(log))
  PROVE  \E j \in 1..Len(index) : SecondNewest(j) /\ RolledBack(index[j].id)
<1>1. ids \in Nat
  BY DEF ConfigOK
<1>2. log'.events = log.events + 2
  BY EventsFact
<1>3. /\ log' # log /\ log' # Appended(log) /\ log' # [log EXCEPT !.partial = TRUE]
      /\ log' # [Appended(log) EXCEPT !.partial = TRUE]
  <2> DEFINE half == [log EXCEPT !.partial = TRUE]
             rest == [Appended(log) EXCEPT !.partial = TRUE]
  <2>1. /\ log.events \in Nat /\ Appended(log).events = log.events + 1
        /\ half.events = log.events /\ rest.events = log.events + 1
    BY EventsFact
  <2> HIDE DEF half, rest
  <2>2. log' # log /\ log' # Appended(log) /\ log' # half /\ log' # rest
    BY <1>2, <2>1
  <2> QED BY <2>2 DEF half, rest
<1>4. ASSUME NEW id PROVE ~ApplyStops(id) /\ ~ApplyRefused(id)
  <2>1. ~ApplyStops(id)
    BY <1>3 DEF ApplyStops, NoRow
  <2>2. ~ApplyRefused(id)
    BY <1>1 DEF ApplyRefused, Save
  <2> QED BY <2>1, <2>2
<1>5. ASSUME NEW id PROVE ~Apply(id)
  BY <1>3, <1>4 DEF Apply
<1>6. ~Snapshot /\ ~Propose
  BY <1>1 DEF Snapshot, Propose, TakeSnapshot, TakeProposal, Save
<1>7. ~(Load \/ Type \/ Switch \/ HandEdit \/ UNCHANGED configVars)
  BY <1>1 DEF Load, Type, Switch, HandEdit, configVars
<1>8. Rollback
  BY <1>5, <1>6, <1>7 DEF Next, Button, vars
<1>9. PICK j \in 1..Len(index) : SecondNewest(j) /\ RollbackTo(index[j].id)
  BY <1>8 DEF Rollback
<1>10. RolledBack(index[j].id)
  BY <1>3, <1>4, <1>9 DEF RollbackTo
<1> QED BY <1>9, <1>10

LEMMA RollbackStep ==
  ASSUME ConfigOK, UndoOK, LogInv, [Next]_vars, undo # None, NEW id, RolledBack(id)
  PROVE  host' = undo
<1>1. ids' = ids + 2 /\ log' = Appended(Appended(log))
  BY DEF RolledBack, Applied, ApplyWrites
<1>2. PICK j \in 1..Len(index) : SecondNewest(j) /\ RolledBack(index[j].id)
  BY <1>1, TwoEvents
<1>3. /\ Found(index[j].id) # {} /\ host' = Target(index[j].id)
      /\ ids \in Nat /\ ids < MaxIds
  BY <1>2, ConfigAssumption DEF RolledBack, Applied, ApplyWrites, ConfigOK
<1>4. /\ index \in Seq(Version) /\ Len(index) \in Nat
      /\ index[j].id \in Nat /\ index[j].id + j <= ids + 1
      /\ \A k \in 1..Len(index) : index[k].id = index[j].id => k = j
  <2>1. index \in Seq(Version) /\ Len(index) \in Nat /\ ids \in Nat
    <3>1. index \in Seq(Version) /\ ids \in Nat
      BY DEF ConfigOK, IndexOK
    <3> QED BY <3>1
  <2>2. \A k \in 1..Len(index) : index[k].id \in Nat
    <3>1. ASSUME NEW k \in 1..Len(index) PROVE index[k].id \in 1..MaxIds
      BY <2>1, VersionFact
    <3> QED BY <3>1, ConfigAssumption
  <2>3. IndexOK(index, ids)
    BY DEF ConfigOK
  <2> QED BY <2>1, <2>2, <2>3 DEF IndexOK
<1>5. PICK m \in 1..Len(Snapshotted) :
        Snapshotted[m].id = index[j].id /\ Target(index[j].id) = Snapshotted[m].doc
  BY <1>3, TargetFact
<1>6. /\ Snapshotted[1].id = ids + 1
      /\ Len(Snapshotted) <= Len(index) + 1 /\ Len(Snapshotted) \in Nat
      /\ \A k \in 2..Len(Snapshotted) : Snapshotted[k] = index[k - 1]
  <2>1. Pushed(Snapshotted, index, ids + 1, host, "snapshot")
    BY <1>3, SnapshottedOK
  <2> QED BY <1>4, <2>1, ConfigAssumption DEF Pushed
<1>7. m \in 2..Len(Snapshotted) /\ m - 1 \in 1..Len(index)
  <2>1. m # 1
    BY <1>3, <1>4, <1>5, <1>6
  <2> QED BY <1>4, <1>6, <2>1
<1>8. Snapshotted[m] = index[j]
  BY <1>4, <1>5, <1>6, <1>7
<1>9. index[j].doc = undo
  <2>1. PICK i \in 1..(j - 1) :
          Newest(i) /\ \A k \in (i + 1)..(j - 1) : ~Rollbackable(index[k])
    BY <1>2 DEF SecondNewest
  <2>2. Rollbackable(index[i + 1]) /\ index[i + 1].doc = undo
    <3>1. i \in 1..(Len(index) - 1)
      BY <1>4, <2>1
    <3> QED BY <2>1, <3>1 DEF UndoOK
  <2>3. i + 1 = j
    BY <1>4, <2>1, <2>2
  <2> QED BY <2>2, <2>3
<1> QED BY <1>3, <1>5, <1>8, <1>9

(***************************************************************************)
(* What was overwritten last.                                              *)
(***************************************************************************)
Holds(idx, id, doc) == \E i \in 1..Len(idx) : idx[i].id = id /\ idx[i].doc = doc

\* The snapshot that came before it.
Snapped == Holds(index, since + 1, before)

\* Not enough versions were saved since to push it out.
Recent == ids - since <= MaxVersions

\* An overwrite leaves two copies of what was there, and a fault in it or since
\* takes one of them.
RecoverOK ==
  faults - spent <= 1 /\ before # None =>
    /\ Recent => before = backup \/ Snapped
    /\ faults = spent => before = backup /\ (Recent => Snapped)

\* A version that is not among the last MaxVersions is all that is pushed out.
LEMMA PushKeeps ==
  ASSUME NEW n \in Nat, NEW idx, IndexOK(idx, n), NEW new, NEW doc, NEW source,
         Pushed(new, idx, n + 1, doc, source),
         NEW id \in Nat, NEW kept, Holds(idx, id, kept), n + 1 - id < MaxVersions
  PROVE  Holds(new, id, kept)
<1> USE ConfigAssumption
<1>1. PICK i \in 1..Len(idx) : idx[i].id = id /\ idx[i].doc = kept
  BY DEF Holds
<1>2. idx \in Seq(Version) /\ Len(idx) \in Nat /\ id + i <= n + 1
  BY <1>1 DEF IndexOK
<1>3. /\ Len(new) = IF Len(idx) + 1 < MaxVersions THEN Len(idx) + 1 ELSE MaxVersions
      /\ \A k \in 2..Len(new) : new[k] = idx[k - 1]
  BY DEF Pushed
<1>4. i + 1 \in 2..Len(new) /\ i + 1 \in 1..Len(new) /\ (i + 1) - 1 = i
  BY <1>2, <1>3
<1>5. new[i + 1] = idx[i]
  BY <1>3, <1>4
<1> QED BY <1>1, <1>4, <1>5 DEF Holds

LEMMA SnapKeeps ==
  ASSUME ConfigOK, Snapped, NEW new, NEW doc, NEW source,
         Pushed(new, index, ids + 1, doc, source), ids + 1 - since <= MaxVersions
  PROVE  Holds(new, since + 1, before)
<1>1. /\ ids \in Nat /\ since + 1 \in Nat /\ IndexOK(index, ids)
      /\ ids + 1 - (since + 1) < MaxVersions
  BY ConfigAssumption DEF ConfigOK
<1> QED BY <1>1, PushKeeps DEF Snapped

FaultsOK == faults \in 0..MaxFaults /\ spent \in 0..faults

LEMMA FaultsStep ==
  ASSUME FaultsOK, [Next]_vars
  PROVE  FaultsOK' /\ faults' >= faults /\ spent' \in {spent, faults}
<1>1. ASSUME Fault \/ UNCHANGED faults, spent' \in {spent, faults}
      PROVE  FaultsOK' /\ faults' >= faults
  BY <1>1 DEF FaultsOK, Fault
<1>2. ASSUME NEW id, NEW done, NEW torn, ApplyWrites(id, done, torn)
      PROVE  spent' \in {spent, faults}
  BY <1>2 DEF ApplyWrites
<1>3. ASSUME NEW id, ApplyStops(id) PROVE Fault /\ spent' \in {spent, faults}
  BY <1>2, <1>3, Zenon DEF ApplyStops
<1>4. ASSUME NEW id, Applied(id) \/ ApplyRefused(id)
      PROVE  UNCHANGED faults /\ spent' \in {spent, faults}
  <2>1. CASE Applied(id)
    BY <1>2, <2>1 DEF Applied
  <2>2. CASE ApplyRefused(id)
    BY <2>2 DEF ApplyRefused, auditVars
  <2> QED BY <1>4, <2>1, <2>2
<1>5. ASSUME NEW id, Apply(id) \/ RollbackTo(id)
      PROVE  (Fault \/ UNCHANGED faults) /\ spent' \in {spent, faults}
  BY <1>2, <1>3, <1>4, <1>5 DEF Apply, RollbackTo, RolledBack
<1>6. CASE Button
  BY <1>1, <1>5, <1>6 DEF Button, Snapshot, Propose, SaveStops, Rollback
<1>7. CASE AuditNext /\ UNCHANGED configVars
  BY <1>1, <1>7 DEF AuditNext, Record, RecordFails, Restart, Retain, RetainFails, configVars
<1>8. CASE Load \/ Type \/ Switch \/ HandEdit \/ UNCHANGED vars
  BY <1>1, <1>8 DEF Load, Type, Switch, HandEdit, vars, auditVars, configVars
<1> QED BY <1>6, <1>7, <1>8 DEF Next

\* Each row that was glued to half a line has the failed write that left it,
\* and so has the half line the archive ends in.
GluedOK ==
  /\ IsFiniteSet(archive.glued)
  /\ Cardinality(archive.glued) + (IF archive.half THEN 1 ELSE 0) <= faults

LEMMA ArchivedGlues ==
  ASSUME GluedOK, archive \in Archive, NEW rows, NEW half \in BOOLEAN, Archived(rows, half),
         faults \in Nat, faults' \in Nat, faults' >= faults, half => faults' = faults + 1
  PROVE  GluedOK'
<1>1. /\ IsFiniteSet(archive.glued) /\ Cardinality(archive.glued) \in Nat
      /\ archive.half \in BOOLEAN
  BY FS_CardinalityType DEF GluedOK, Archive
<1>2. CASE archive.half /\ rows # << >>
  <2> DEFINE glued == archive.glued \cup {rows[1].id}
  <2>1. /\ IsFiniteSet(glued) /\ Cardinality(glued) \in Nat
        /\ Cardinality(glued) <= Cardinality(archive.glued) + 1
    <3>1. /\ IsFiniteSet(glued)
          /\ Cardinality(glued) = IF rows[1].id \in archive.glued THEN Cardinality(archive.glued)
                                  ELSE Cardinality(archive.glued) + 1
      BY <1>1, FS_AddElement
    <3> QED BY <1>1, <3>1
  <2>2. archive'.glued = glued /\ (archive'.half <=> half)
    BY <1>2 DEF Archived
  <2> HIDE DEF glued
  <2>3. Cardinality(archive.glued) + 1 <= faults
    BY <1>2 DEF GluedOK
  <2>4. Cardinality(glued) + (IF half THEN 1 ELSE 0) <= faults'
    BY <1>1, <2>1, <2>3
  <2> QED BY <2>1, <2>2, <2>4 DEF GluedOK
<1>3. CASE ~(archive.half /\ rows # << >>)
  <2>1. archive'.glued = archive.glued /\ (archive'.half => half \/ archive.half)
    BY <1>3 DEF Archived
  <2>2. Cardinality(archive.glued) + (IF archive'.half THEN 1 ELSE 0) <= faults'
    BY <1>1, <2>1 DEF GluedOK
  <2> QED BY <1>1, <2>1, <2>2 DEF GluedOK
<1> QED BY <1>2, <1>3

LEMMA GluedStep ==
  ASSUME LogInv, FaultsOK, GluedOK, [Next]_vars
  PROVE  GluedOK'
<1>1. archive \in Archive /\ faults \in Nat /\ faults' \in Nat /\ faults' >= faults
  BY FaultsStep DEF LogInv, FaultsOK
<1>2. CASE UNCHANGED archive
  <2>1. IsFiniteSet(archive.glued) /\ Cardinality(archive.glued) \in Nat
    BY FS_CardinalityType DEF GluedOK
  <2> QED BY <1>1, <1>2, <2>1 DEF GluedOK
<1>3. ASSUME NEW keep \in Keeps, Retain(keep) PROVE GluedOK'
  <2>1. CASE Writes
    BY <1>2, <2>1 DEF Writes
  <2>2. CASE Archived(OldRows(log.file, keep), FALSE)
    BY <1>1, <2>2, ArchivedGlues
  <2> QED BY <1>3, <2>1, <2>2, RetainCases
<1>4. ASSUME NEW keep \in Keeps, RetainFails(keep) PROVE GluedOK'
  <2>1. faults' = faults + 1
    BY <1>4 DEF RetainFails, Fault
  <2>2. CASE Archived(OldRows(log.file, keep), FALSE)
    BY <1>1, <2>2, ArchivedGlues
  <2>3. CASE ArchivedInPart(OldRows(log.file, keep))
    <3>1. PICK n \in 0..Len(OldRows(log.file, keep)), half \in BOOLEAN :
            Archived(SubSeq(OldRows(log.file, keep), 1, n), half)
      BY <2>3 DEF ArchivedInPart
    <3> QED BY <1>1, <2>1, <3>1, ArchivedGlues
  <2> QED BY <1>4, <2>2, <2>3 DEF RetainFails
<1> QED BY <1>2, <1>3, <1>4, NextWrites DEF Writes

\* What a step does to the copies of what was overwritten.
CopiesStep ==
  \/ UNCHANGED <<index, ids, since, spent, before, backup>>
  \/ SaveStops /\ UNCHANGED <<ids, since, spent, before, backup>>
  \/ \E doc \in Doc, source \in Source :
       Save(doc, source) /\ UNCHANGED <<since, spent, before, backup>>
  \/ \E id : Found(id) # {} /\ ApplyWrites(id, 4, FALSE)
  \/ \E id : \E done \in 0..3, torn \in BOOLEAN :
       Found(id) # {} /\ Fault /\ ApplyWrites(id, done, torn)

LEMMA NextCopies == ASSUME ConfigOK, [Next]_vars PROVE CopiesStep
<1>1. host \in Doc /\ draft \in Doc
  BY DEF ConfigOK, DocsOK
<1>2. ASSUME NEW id, ApplyStops(id) PROVE CopiesStep
  <2>1. CASE ApplyWrites(id, 4, FALSE)
    BY <1>2, <2>1 DEF ApplyStops, CopiesStep
  <2>2. CASE \E done \in 0..3, torn \in BOOLEAN : ApplyWrites(id, done, torn)
    <3>1. PICK done \in 0..3, torn \in BOOLEAN : ApplyWrites(id, done, torn)
      BY <2>2, Zenon
    <3>2. Found(id) # {} /\ Fault
      BY <1>2 DEF ApplyStops
    <3> QED BY <3>1, <3>2, Zenon DEF CopiesStep
  <2> QED BY <1>2, <2>1, <2>2, Zenon DEF ApplyStops
<1>3. ASSUME NEW id, ApplyRefused(id) PROVE CopiesStep
  <2>1. "snapshot" \in Source /\ Save(host, "snapshot") /\ UNCHANGED <<since, spent, before, backup>>
    BY <1>3 DEF ApplyRefused, Source
  <2> QED BY <1>1, <2>1 DEF CopiesStep
<1>4. ASSUME NEW id, Found(id) # {}, ApplyWrites(id, 4, FALSE) PROVE CopiesStep
  BY <1>4 DEF CopiesStep
<1>5. ASSUME NEW id, Apply(id) \/ RollbackTo(id) PROVE CopiesStep
  BY <1>2, <1>3, <1>4, <1>5 DEF Apply, RollbackTo, RolledBack, Applied
<1>6. CASE Snapshot
  <2>1. UNCHANGED <<since, spent, before, backup>>
    BY <1>6 DEF Snapshot
  <2>2. CASE Save(host, "snapshot")
    <3>1. "snapshot" \in Source
      BY DEF Source
    <3> QED BY <1>1, <2>1, <2>2, <3>1 DEF CopiesStep
  <2>3. CASE SaveStops /\ UNCHANGED ids
    BY <2>1, <2>3 DEF CopiesStep
  <2> QED BY <1>6, <2>2, <2>3 DEF Snapshot, TakeSnapshot
<1>7. CASE Propose
  <2>1. UNCHANGED <<since, spent, before, backup>>
    BY <1>7 DEF Propose
  <2>2. CASE Save(draft, "proposed")
    <3>1. "proposed" \in Source
      BY DEF Source
    <3> QED BY <1>1, <2>1, <2>2, <3>1 DEF CopiesStep
  <2>3. CASE SaveStops /\ UNCHANGED ids
    BY <2>1, <2>3 DEF CopiesStep
  <2> QED BY <1>7, <2>2, <2>3 DEF Propose, TakeProposal
<1>8. CASE Load \/ Type \/ Switch \/ HandEdit \/ UNCHANGED configVars
  BY <1>8 DEF Load, Type, Switch, HandEdit, configVars, CopiesStep
<1> QED BY <1>5, <1>6, <1>7, <1>8 DEF Next, Button, Rollback, vars

\* An apply that got as far as the host file.
LEMMA OverwriteRecovers ==
  ASSUME before' = backup', faults' # spent' PROVE RecoverOK'
  BY DEF RecoverOK

LEMMA AppliedRecovers ==
  ASSUME ConfigOK, NEW id, Found(id) # {}, ApplyWrites(id, 4, FALSE)
  PROVE  RecoverOK'
<1>1. before' = host /\ backup' = host /\ since' = ids /\ ids' = ids + 2
  BY DEF ApplyWrites, BackupOf
<1>2. /\ index' \in Seq(Version) /\ Len(index') \in 1..MaxVersions
      /\ index'[1].source = "applied"
      /\ Len(index') >= 2 =>
           /\ index'[2] = [id |-> ids + 1, doc |-> host, source |-> "snapshot"]
      /\ MaxVersions >= 2 => Len(index') >= 2
  BY AppliedFront, Zenon
<1>3. ids \in Nat
  BY DEF ConfigOK
<1>4. ASSUME Recent' PROVE Snapped'
  <2>1. MaxVersions >= 2
    BY <1>1, <1>3, <1>4, ConfigAssumption DEF Recent
  <2>2. 2 \in 1..Len(index') /\ index'[2].id = ids + 1 /\ index'[2].doc = host
    BY <1>2, <2>1
  <2> QED BY <1>1, <2>2 DEF Snapped, Holds
<1> QED BY <1>1, <1>4 DEF RecoverOK

LEMMA StoppedRecovers ==
  ASSUME ConfigOK, FaultsOK, RecoverOK, faults' - spent' <= 1,
         NEW id, NEW done \in 0..3, NEW torn \in BOOLEAN,
         Found(id) # {}, Fault, ApplyWrites(id, done, torn)
  PROVE  RecoverOK'
<1>1. faults' = faults + 1 /\ faults \in Nat /\ spent \in 0..faults
  BY DEF FaultsOK, Fault
<1>2. ids' = ids + 2 /\ ids \in Nat /\ since \in Nat /\ ids < MaxIds
  BY ConfigAssumption DEF ApplyWrites, ConfigOK
<1>3. CASE done = 3 \/ (done = 2 /\ torn)
  <2>1. before' = host /\ backup' = host /\ spent' = faults
    BY <1>3 DEF ApplyWrites, BackupOf
  <2> QED BY <1>1, <2>1, OverwriteRecovers
<1>4. CASE ~(done = 3 \/ (done = 2 /\ torn))
  <2>1. UNCHANGED <<before, since, spent>>
    BY <1>4 DEF ApplyWrites
  <2>2. faults = spent /\ faults - spent <= 1 /\ faults' # spent'
    BY <1>1, <2>1
  <2>3. CASE backup' = backup
    BY <2>1, <2>2, <2>3 DEF RecoverOK
  <2>4. CASE backup' # backup
    <3>1. done \in {1, 2} /\ index' = Snapshotted
      BY <1>4, <2>4 DEF ApplyWrites
    <3>2. ASSUME before # None, Recent' PROVE Snapped'
      <4>1. ids + 1 - since <= MaxVersions /\ Recent
        BY <1>2, <2>1, <3>2, ConfigAssumption DEF Recent
      <4>2. Snapped
        BY <1>1, <2>2, <3>2, <4>1 DEF RecoverOK
      <4>3. Pushed(index', index, ids + 1, host, "snapshot")
        BY <1>2, <3>1, SnapshottedOK
      <4>4. Holds(index', since + 1, before)
        BY <4>1, <4>2, <4>3, SnapKeeps
      <4> QED BY <2>1, <4>4 DEF Snapped
    <3> QED BY <2>1, <2>2, <3>2 DEF RecoverOK
  <2> QED BY <2>3, <2>4
<1> QED BY <1>3, <1>4

\* A gap that is at most one after a step that can only widen it was at most one
\* before it.
LEMMA GapBefore ==
  ASSUME NEW f \in Nat, NEW g \in Nat, NEW s \in Nat, g >= f, g - s <= 1
  PROVE  f - s <= 1
OBVIOUS

LEMMA RecoverStep ==
  ASSUME ConfigOK, FaultsOK, RecoverOK, [Next]_vars
  PROVE  RecoverOK'
<1> SUFFICES ASSUME faults' - spent' <= 1 PROVE RecoverOK'
  BY DEF RecoverOK
<1>1. /\ faults' >= faults
      /\ faults \in Nat /\ spent \in 0..faults /\ faults' \in Nat
  BY FaultsStep DEF FaultsOK
<1>2. CASE UNCHANGED <<index, ids, since, spent, before, backup>>
  <2>1. faults - spent <= 1 /\ (faults' = spent' => faults = spent)
    <3>1. spent' = spent /\ spent \in Nat /\ spent' \in Nat
      BY <1>1, <1>2
    <3>2. faults - spent <= 1
      <4>1. faults' - spent <= 1
        BY <3>1, Zenon
      <4> QED BY <1>1, <3>1, <4>1, GapBefore, Zenon
    <3>3. faults' = spent' => faults = spent
      BY <1>1, <3>1
    <3> QED BY <3>2, <3>3
  <2> QED BY <1>2, <2>1 DEF RecoverOK, Recent, Snapped
<1>3. CASE SaveStops /\ UNCHANGED <<ids, since, spent, before, backup>>
  <2>1. faults = spent /\ faults - spent <= 1 /\ faults' # spent'
    BY <1>1, <1>3 DEF SaveStops, Fault
  <2> QED BY <1>3, <2>1 DEF RecoverOK
<1>4. ASSUME NEW doc \in Doc, NEW source \in Source, Save(doc, source),
             UNCHANGED <<since, spent, before, backup>>
      PROVE  RecoverOK'
  <2>1. ids' = ids + 1 /\ Pushed(index', index, ids + 1, doc, source)
    BY <1>4, SaveOK
  <2>2. ids \in Nat /\ since \in Nat
    BY DEF ConfigOK
  <2>3. Recent' => Recent
    BY <1>4, <2>1, <2>2, ConfigAssumption DEF Recent
  <2>4. Recent' /\ Snapped => Snapped'
    BY <1>4, <2>1, <2>2, SnapKeeps DEF Recent, Snapped
  <2>5. faults - spent <= 1 /\ (faults' = spent' => faults = spent)
    <3>1. spent' = spent /\ spent \in Nat /\ spent' \in Nat
      BY <1>1, <1>4
    <3>2. faults - spent <= 1
      <4>1. faults' - spent <= 1
        BY <3>1, Zenon
      <4> QED BY <1>1, <3>1, <4>1, GapBefore, Zenon
    <3>3. faults' = spent' => faults = spent
      BY <1>1, <3>1
    <3> QED BY <3>2, <3>3
  <2> QED BY <1>4, <2>3, <2>4, <2>5 DEF RecoverOK
<1> QED BY <1>2, <1>3, <1>4, NextCopies, AppliedRecovers, StoppedRecovers DEF CopiesStep

(***************************************************************************)
(* Theorems                                                                *)
(***************************************************************************)
\* Rotations, crashes within their two writes, restarts and half-written rows
\* lose no event but those a failed write took and, for each failed write, one
\* that was archived after half a line (NothingErased).
THEOREM EventsAreKept == Spec => []NothingErased
<1>1. Init => FaultsOK /\ GluedOK
  <2>1. IsFiniteSet({}) /\ Cardinality({}) = 0
    BY FS_EmptySet, Zenon
  <2> QED BY <2>1 DEF Init, AuditInit, FaultsOK, GluedOK
<1>2. LogInv /\ FaultsOK /\ GluedOK /\ [Next]_vars => FaultsOK' /\ GluedOK'
  BY FaultsStep, GluedStep
<1>3. LogInv /\ FaultsOK /\ GluedOK => NothingErased
  <2> SUFFICES ASSUME LogInv, FaultsOK, GluedOK PROVE NothingErased
    OBVIOUS
  <2>1. Cardinality(archive.glued) <= faults
    <3>1. Cardinality(archive.glued) \in Nat /\ faults \in Nat
      BY FS_CardinalityType DEF GluedOK, FaultsOK
    <3> QED BY <3>1 DEF GluedOK
  <2> QED BY <2>1 DEF LogInv, Sound, Whole, Stored, NothingErased
<1> QED BY <1>1, <1>2, <1>3, LogInvariant, PTL DEF Spec

\* Rows of the file name their predecessor, through restarts and rotations, or
\* one that a failed write took (Linked).
THEOREM RowsAreLinked == Spec => []Linked
<1>1. LogInv => Linked
  BY DEF LogInv, Sound, Chained, Linked
<1> QED BY <1>1, LogInvariant, PTL

\* The configuration, the pages and the audit log hold what they should
\* (TypeOK): no number runs over its bound, and no version or row is malformed.
THEOREM TypeCorrect == Spec => []TypeOK
<1>1. Init => FaultsOK
  BY DEF Init, AuditInit, FaultsOK
<1>2. FaultsOK /\ [Next]_vars => FaultsOK'
  BY FaultsStep
<1>3. LogInv /\ ConfigOK /\ FaultsOK => TypeOK
  BY DEF LogInv, Sound, Log, Hash, Archive, ConfigOK, DocsOK, IndexOK, FaultsOK, AuditTypeOK,
         TypeOK
<1> QED BY <1>1, <1>2, <1>3, LogInvariant, ConfigInvariant, PTL DEF Spec

\* A log no rotation has touched verifies (IntactVerifies), whatever restarts
\* and failed appends it saw: what IntactVerifies misses is the rotation, after
\* which the file's first row names one that is in the archive.
THEOREM UnrotatedVerifies == Spec => [](archive.rows \cup archive.glued = {} => IntactVerifies)
<1>1. Init => UnrotatedOK
  BY DEF Init, AuditInit, UnrotatedOK, Unrotated, FromStart
<1>2. LogInv /\ UnrotatedOK => (Stored = {} => IntactVerifies)
  <2> SUFFICES ASSUME LogInv, UnrotatedOK, Stored = {}, log.spoiled = {},
                      NEW i \in 1..Len(log.file)
               PROVE  log.file[i].prev = IF i = 1 THEN Null ELSE log.file[i - 1].id
    BY DEF IntactVerifies, ChainOk, VerifyChain
  <2>1. FromStart(log.file, log.last) /\ Chained(log.file, {})
    BY DEF LogInv, Sound, UnrotatedOK, Unrotated
  <2>2. CASE i = 1
    BY <2>1, <2>2 DEF FromStart
  <2>3. CASE i # 1
    <3>1. i \in 2..Len(log.file)
      BY <2>3 DEF LogInv, Sound, Log
    <3> QED BY <2>1, <2>3, <3>1 DEF Chained
  <2> QED BY <2>2, <2>3
<1> QED BY <1>1, <1>2, UnrotatedStep, LogInvariant, PTL DEF Spec, Stored

\* A rollback after an apply that ended restores the file that apply found,
\* through proposals and edits by hand (RollbackUndoes).
THEOREM RollbacksUndo == Spec => RollbackUndoes
<1>1. ConfigOK /\ UndoOK /\ LogInv /\ [Next]_vars
        => [\A id \in 1..ids : RolledBack(id) /\ undo # None => host' = undo]_vars
  BY RollbackStep
<1> QED BY <1>1, ConfigInvariant, UndoInvariant, LogInvariant, PTL DEF Spec, RollbackUndoes

\* What an apply or a rollback overwrote last can be brought back, wherever it
\* or one call since then was cut short (Recoverable): the backup or the
\* snapshot before it is still there.
THEOREM OverwritesRecoverable == Spec => []Recoverable
<1>1. Init => FaultsOK /\ RecoverOK
  BY DEF Init, AuditInit, FaultsOK, RecoverOK
<1>2. ConfigOK /\ FaultsOK /\ RecoverOK /\ [Next]_vars => FaultsOK' /\ RecoverOK'
  BY FaultsStep, RecoverStep
<1>3. RecoverOK => Recoverable
  BY DEF RecoverOK, Recoverable, Recent, Snapped, Holds
<1> QED BY <1>1, <1>2, <1>3, ConfigInvariant, PTL DEF Spec
=============================================================================
