-------------------------- MODULE SessionHubProofs --------------------------
(***************************************************************************)
(* Theorems about SessionHub for any number of entries, tabs, writers,     *)
(* changes and faults, and about Conversation, checked by TLAPS.           *)
(***************************************************************************)
EXTENDS SessionHub, Conversation, FiniteSetTheorems, WellFoundedInduction, TLAPS

(***************************************************************************)
(* The inductive invariant.                                                *)
(***************************************************************************)
\* Nothing is newer than the gateway's transcript.
Bounded ==
  /\ detail <= version
  /\ \A e \in Objects : obj[e].inFlight <= version
  /\ \A c \in Streams : shown[c] <= version /\ queue[c] <= version
  /\ \A w \in Writers : posting[w] <= version

\* What is known goes with its entry.
Unread == cache = None => detail = Nothing

\* A read of the cached entry was asked for after everything that has been
\* shown or is known, and misses nothing but what the flag remembers.
ReadsLater ==
  cache # None /\ obj[cache].inFlight >= 0 =>
    /\ obj[cache].inFlight >= told \/ obj[cache].dirty
    /\ detail <= obj[cache].inFlight
    /\ \A c \in Streams : shown[c] <= obj[cache].inFlight

\* What is not known is being read, or will be.
KnownOrRead ==
  cache # None =>
    detail = Failed \/ detail >= told \/ obj[cache].timer \/ obj[cache].inFlight # Idle

\* A frame that waits is what is known, and nobody has seen more.
Frames ==
  \A c \in Streams :
    /\ sub[c] = None => queue[c] = Nothing
    /\ queue[c] >= 0 => queue[c] = detail
    /\ detail >= 0 => shown[c] <= detail

IInv ==
  TypeOK /\ Bounded /\ Unread /\ ReadsLater /\ KnownOrRead /\ StreamsFollow /\ Frames

USE HubAssumption DEF Idle, Asked, Nothing, Failed

LEMMA InitIInv == Init => IInv
<1> SUFFICES ASSUME Init PROVE IInv
  OBVIOUS
<1>1. NewEntry \in Entry /\ NewEntry.inFlight = Idle /\ ~NewEntry.dirty /\ 0 \in Versions
  BY DEF NewEntry, Entry, Versions
<1>2. TypeOK
  BY <1>1 DEF Init, TypeOK, Versions
<1>3. Bounded
  BY <1>1 DEF Init, Bounded
<1>4. Unread /\ ReadsLater /\ KnownOrRead
  BY DEF Init, Unread, ReadsLater, KnownOrRead
<1>5. StreamsFollow /\ Frames
  BY DEF Init, StreamsFollow, Frames
<1> QED
  BY <1>2, <1>3, <1>4, <1>5 DEF IInv

(***************************************************************************)
(* The methods of an entry.                                                *)
(***************************************************************************)
LEMMA EntryForFact ==
  ASSUME NEW e \in Objects, EntryFor(e)
  PROVE  /\ cache' = e
         /\ cache # None => e = cache
         /\ cache = None => obj[e].inFlight = Idle /\ ~obj[e].timer
  BY DEF EntryFor, Garbage

\* What a call of o's methods may make of it: p.
Served(o, p) ==
  /\ p \in Entry /\ (p.dirty => p.inFlight # Idle)
  /\ p.inFlight \in {o.inFlight, Asked}
  /\ o.inFlight # Idle => p.inFlight = o.inFlight
  /\ o.dirty => p.dirty
  /\ o.timer \/ o.inFlight # Idle => p.timer \/ p.inFlight # Idle

LEMMA FetchedFact ==
  ASSUME NEW o \in Entry, o.dirty => o.inFlight # Idle
  PROVE  Served(o, Fetched(o)) /\ Fetched(o).inFlight # Idle
  BY DEF Served, Fetched, Entry

LEMMA RefreshFact ==
  ASSUME NEW o \in Entry, o.dirty => o.inFlight # Idle
  PROVE  /\ Served(o, ScheduleRefresh(o))
         /\ ScheduleRefresh(o).timer \/ ScheduleRefresh(o).inFlight # Idle
         /\ o.inFlight # Idle => ScheduleRefresh(o).dirty
         /\ Served(o, RefreshNow(o))
         /\ RefreshNow(o).inFlight # Idle
         /\ o.inFlight # Idle => RefreshNow(o).dirty
<1>1. /\ Served(o, ScheduleRefresh(o))
      /\ ScheduleRefresh(o).timer \/ ScheduleRefresh(o).inFlight # Idle
      /\ o.inFlight # Idle => ScheduleRefresh(o).dirty
  <2>1. CASE o.inFlight # Idle
    BY <2>1 DEF Served, ScheduleRefresh, Entry
  <2>2. CASE o.inFlight = Idle
    BY <2>2 DEF Served, ScheduleRefresh, Entry
  <2> QED BY <2>1, <2>2
<1>2. /\ Served(o, RefreshNow(o))
      /\ RefreshNow(o).inFlight # Idle
      /\ o.inFlight # Idle => RefreshNow(o).dirty
  <2> DEFINE late == o.dirty \/ o.inFlight # Idle
             p == [o EXCEPT !.timer = FALSE, !.dirty = late]
  <2>1. late \in BOOLEAN /\ (o.inFlight # Idle => late) /\ (o.dirty => late)
    OBVIOUS
  <2>2. o.inFlight = Idle => ~late
    OBVIOUS
  <2>3. RefreshNow(o) = Fetched(p)
    BY DEF RefreshNow
  <2> HIDE DEF late
  <2>4. p \in Entry /\ p.inFlight = o.inFlight /\ p.dirty = late
    BY <2>1 DEF Entry
  <2> HIDE DEF p
  <2>5. CASE o.inFlight # Idle
    BY <2>1, <2>3, <2>4, <2>5 DEF Fetched, Served
  <2>6. CASE o.inFlight = Idle
    BY <2>1, <2>2, <2>3, <2>4, <2>6 DEF Fetched, Served, Entry
  <2> QED BY <2>5, <2>6
<1> QED BY <1>1, <1>2

\* A step in which methods of e are called and nobody but the hub is told.
LEMMA MethodStep ==
  ASSUME IInv, NEW e \in Objects, NEW o, obj' = [obj EXCEPT ![e] = o], Served(obj[e], o),
         cache' \in {cache, e}, cache # None => cache' = cache,
         cache = None /\ cache' = e => obj[e].inFlight = Idle /\ o.inFlight # Idle,
         told' \in {told} \cup Versions, told' >= told, told' <= version,
         told' # told => /\ cache' = e
                         /\ o.timer \/ o.inFlight # Idle
                         /\ obj[e].inFlight # Idle => o.dirty,
         UNCHANGED <<version, detail, sub, queue, shown>>,
         posting' \in [Writers -> Versions \cup {Nothing}],
         \A w \in Writers : posting'[w] <= version
  PROVE  /\ obj' \in [Objects -> Entry]
         /\ \A x \in Objects : obj'[x].dirty => obj'[x].inFlight # Idle
         /\ Bounded' /\ Unread' /\ ReadsLater' /\ KnownOrRead' /\ StreamsFollow' /\ Frames'
<1> USE DEF IInv
<1>1. /\ obj \in [Objects -> Entry] /\ o \in Entry /\ obj[e] \in Entry
      /\ version \in Versions /\ told \in 0..version /\ Versions \subseteq Int
      /\ detail \in Versions \cup {Nothing, Failed}
      /\ shown \in [Streams -> Versions]
      /\ queue \in [Streams -> Versions \cup {Nothing, Failed}]
  BY DEF TypeOK, Served, Versions
<1>2. obj' \in [Objects -> Entry] /\ obj'[e] = o /\ \A x \in Objects \ {e} : obj'[x] = obj[x]
  BY <1>1
<1>3. \A x \in Objects : obj'[x].dirty => obj'[x].inFlight # Idle
  BY <1>2 DEF TypeOK, Served
<1>4. \A x \in Objects : obj[x].inFlight \in Int
  <2>1. \A x \in Objects : obj[x].inFlight \in Versions \cup {-4, -3, -1}
    BY <1>1 DEF Entry
  <2> QED BY <2>1 DEF Versions
<1>5. Bounded'
  <2>1. o.inFlight <= version
    BY <1>1, <1>4 DEF Served, Bounded
  <2> QED BY <1>2, <2>1 DEF Bounded
<1>6. cache \in Objects \cup {None}
  BY DEF TypeOK
<1>7. Unread'
  BY <1>6 DEF Unread
<1>8. ReadsLater'
  <2>1. CASE cache' # e \/ cache = None
    BY <1>1, <1>2, <1>4, <1>6, <2>1 DEF ReadsLater, Served
  <2>2. CASE cache' = e /\ cache = e
    BY <1>1, <1>2, <1>4, <2>2 DEF ReadsLater, Served
  <2> QED BY <1>6, <2>1, <2>2
<1>9. KnownOrRead'
  BY <1>1, <1>2, <1>6 DEF KnownOrRead, Served
<1>10. StreamsFollow'
  BY <1>6 DEF StreamsFollow
<1>11. Frames'
  BY DEF Frames
<1> QED BY <1>2, <1>3, <1>5, <1>7, <1>8, <1>9, <1>10, <1>11

LEMMA TypeFacts ==
  ASSUME IInv
  PROVE  /\ obj \in [Objects -> Entry]
         /\ \A e \in Objects : obj[e] \in Entry /\ (obj[e].dirty => obj[e].inFlight # Idle)
         /\ \A e \in Objects : obj[e].inFlight \in Int
         /\ version \in Versions /\ told \in 0..version /\ Versions \subseteq Int
         /\ cache \in Objects \cup {None}
         /\ posting \in [Writers -> Versions \cup {Nothing}]
         /\ \A w \in Writers : posting[w] <= version /\ posting[w] \in Int
<1> USE DEF IInv
<1>1. obj \in [Objects -> Entry] /\ \A e \in Objects : obj[e].dirty => obj[e].inFlight # Idle
  BY DEF TypeOK
<1>2. \A e \in Objects : obj[e].inFlight \in Versions \cup {-4, -3, -1}
  BY <1>1 DEF Entry
<1>3. ASSUME NEW e \in Objects PROVE obj[e].inFlight \in Int
  <2> DEFINE i == obj[e].inFlight
  <2>1. i \in Versions \cup {-4, -3, -1}
    BY <1>2
  <2> HIDE DEF i
  <2> QED BY <2>1 DEF i, Versions
<1>4. posting \in [Writers -> Versions \cup {Nothing}]
  BY DEF TypeOK
<1>5. \A w \in Writers : posting[w] <= version /\ posting[w] \in Int
  BY <1>4 DEF Bounded, Versions
<1>6. Versions \subseteq Int
  BY DEF Versions
<1>7. version \in Versions /\ told \in 0..version /\ cache \in Objects \cup {None}
  BY DEF TypeOK
<1> QED BY <1>1, <1>3, <1>4, <1>5, <1>6, <1>7

(***************************************************************************)
(* Routes.                                                                 *)
(***************************************************************************)
LEMMA ReadStep ==
  ASSUME IInv, NEW e \in Objects, EntryFor(e),
         Becomes(e, obj[e]) \/ Becomes(e, Fetched(obj[e])),
         detail = Nothing => Becomes(e, Fetched(obj[e])),
         UNCHANGED <<version, told, detail, sub, queue, shown, posting>>
  PROVE  /\ cache' = e
         /\ obj' \in [Objects -> Entry]
         /\ \A x \in Objects : obj'[x].dirty => obj'[x].inFlight # Idle
         /\ Bounded' /\ Unread' /\ ReadsLater' /\ KnownOrRead' /\ StreamsFollow' /\ Frames'
<1> DEFINE o == obj'[e]
<1>1. obj' = [obj EXCEPT ![e] = o] /\ Served(obj[e], o)
  BY TypeFacts, FetchedFact DEF Becomes, Served
<1>2. cache = None => obj[e].inFlight = Idle /\ o.inFlight # Idle
  BY TypeFacts, FetchedFact, EntryForFact DEF Becomes, IInv, Unread
<1>3. cache' = e /\ (cache # None => cache' = cache)
  BY EntryForFact
<1>4. /\ told' \in {told} /\ told' >= told /\ told' <= version
      /\ posting' \in [Writers -> Versions \cup {Nothing}]
      /\ \A w \in Writers : posting'[w] <= version
  BY TypeFacts
<1> HIDE DEF o
<1> QED BY <1>1, <1>2, <1>3, <1>4, MethodStep

LEMMA RouteReads ==
  ASSUME IInv, NEW e \in Objects,
         ReadCached(e) \/ \E w \in Writers : ReadFresh(w, e)
  PROVE  IInv'
<1>1. /\ EntryFor(e)
      /\ Becomes(e, obj[e]) \/ Becomes(e, Fetched(obj[e]))
      /\ detail = Nothing => Becomes(e, Fetched(obj[e]))
      /\ UNCHANGED <<gatewayVars, told, detail, evicts, streamVars, posting, faults>>
  BY DEF ReadCached, ReadFresh, writerVars
<1>2. waits' \in [Writers -> Objects \cup {None}]
  BY DEF ReadCached, ReadFresh, writerVars, IInv, TypeOK
<1>3. /\ cache' = e
      /\ obj' \in [Objects -> Entry]
      /\ \A x \in Objects : obj'[x].dirty => obj'[x].inFlight # Idle
      /\ Bounded' /\ Unread' /\ ReadsLater' /\ KnownOrRead' /\ StreamsFollow' /\ Frames'
  BY <1>1, ReadStep DEF gatewayVars, streamVars
<1>4. TypeOK'
  BY <1>1, <1>2, <1>3 DEF IInv, TypeOK, gatewayVars, streamVars
<1> QED BY <1>3, <1>4 DEF IInv

LEMMA PostedStep ==
  ASSUME IInv, NEW w \in Writers, NEW e \in Objects, Posted(w, e)
  PROVE  IInv'
<1> DEFINE o == RefreshNow(obj[e])
<1>1. obj' = [obj EXCEPT ![e] = o] /\ Served(obj[e], o) /\ o.inFlight # Idle
      /\ (obj[e].inFlight # Idle => o.dirty)
  BY TypeFacts, RefreshFact DEF Posted, Becomes
<1>2. /\ cache' = e /\ (cache # None => cache' = cache)
      /\ cache = None => obj[e].inFlight = Idle
  BY EntryForFact DEF Posted
<1>3. posting[w] \in Versions /\ posting[w] <= version
  BY TypeFacts DEF Posted
<1>4. told' \in Versions /\ told' >= told /\ told' <= version
  BY <1>3, TypeFacts DEF Posted, Versions
<1>5. /\ posting' \in [Writers -> Versions \cup {Nothing}]
      /\ \A x \in Writers : posting'[x] <= version
  BY TypeFacts DEF Posted, Versions
<1>6. UNCHANGED <<version, detail, sub, queue, shown>>
  BY DEF Posted, gatewayVars, streamVars
<1> HIDE DEF o
<1>7. /\ obj' \in [Objects -> Entry]
      /\ \A x \in Objects : obj'[x].dirty => obj'[x].inFlight # Idle
      /\ Bounded' /\ Unread' /\ ReadsLater' /\ KnownOrRead' /\ StreamsFollow' /\ Frames'
  BY <1>1, <1>2, <1>4, <1>5, <1>6, MethodStep
<1>8. TypeOK'
  BY <1>2, <1>4, <1>5, <1>7 DEF Posted, IInv, TypeOK, gatewayVars, streamVars, Versions
<1> QED BY <1>7, <1>8 DEF IInv

LEMMA OpenStep ==
  ASSUME IInv, NEW c \in Streams, NEW e \in Objects, Open(c, e)
  PROVE  IInv'
<1> USE DEF IInv
<1>1. /\ cache' = e /\ (cache # None => cache' = cache)
      /\ cache = None => obj[e].inFlight = Idle
  BY EntryForFact DEF Open
<1>2. /\ sub' = [sub EXCEPT ![c] = e] /\ sub[c] = None
      /\ UNCHANGED <<version, told, detail, shown, posting>>
      /\ sub \in [Streams -> Objects \cup {None}]
      /\ queue \in [Streams -> Versions \cup {Nothing, Failed}]
      /\ detail \in Versions \cup {Nothing, Failed}
      /\ queue[c] = Nothing
  BY DEF Open, gatewayVars, writerVars, TypeOK, Frames
<1>3. opens' \in 0..MaxOpens
  BY DEF Open, TypeOK
<1>4. CASE detail # Nothing
  <2>1. queue' = [queue EXCEPT ![c] = detail] /\ obj' = obj
    BY <1>4 DEF Open
  <2>2. cache' = cache
    BY <1>1, <1>4 DEF Unread
  <2>3. TypeOK'
    BY <1>1, <1>2, <1>3, <2>1, <2>2 DEF Open, TypeOK, gatewayVars, writerVars
  <2>4. Bounded' /\ Unread' /\ ReadsLater' /\ KnownOrRead'
    BY <1>2, <2>1, <2>2 DEF Bounded, Unread, ReadsLater, KnownOrRead
  <2>5. StreamsFollow' /\ Frames'
    BY <1>1, <1>2, <2>1, <2>2, TypeFacts DEF StreamsFollow, Frames
  <2> QED BY <2>3, <2>4, <2>5
<1>5. CASE detail = Nothing
  <2> DEFINE o == Fetched(obj[e])
  <2>1. /\ obj' = [obj EXCEPT ![e] = o] /\ queue' = queue
        /\ Served(obj[e], o) /\ o.inFlight # Idle
    BY <1>5, TypeFacts, FetchedFact DEF Open, Becomes
  <2> HIDE DEF o
  <2>2. /\ obj' \in [Objects -> Entry] /\ obj'[e] = o
        /\ \A x \in Objects \ {e} : obj'[x] = obj[x]
        /\ o \in Entry /\ (o.dirty => o.inFlight # Idle)
    BY <2>1, TypeFacts DEF Served
  <2>3. TypeOK'
    BY <1>1, <1>2, <1>3, <2>1, <2>2 DEF Open, TypeOK, gatewayVars, writerVars
  <2>4. Bounded'
    BY <1>2, <2>1, <2>2, TypeFacts DEF Bounded, Served, Versions
  <2>5. Unread' /\ KnownOrRead'
    BY <1>1, <1>2, <2>1, <2>2, TypeFacts DEF Unread, KnownOrRead
  <2>6. ReadsLater'
    BY <1>1, <1>2, <2>1, <2>2, TypeFacts DEF ReadsLater, Served
  <2>7. StreamsFollow' /\ Frames'
    BY <1>1, <1>2, <1>5, <2>1, TypeFacts DEF StreamsFollow, Frames
  <2> QED BY <2>3, <2>4, <2>5, <2>6, <2>7
<1> QED BY <1>4, <1>5

LEMMA PostStep ==
  ASSUME IInv, NEW w \in Writers, Post(w)
  PROVE  IInv'
<1> USE DEF IInv
<1>1. version' \in Versions /\ version' = version + 1
  BY TypeFacts DEF Post, Versions
<1>2. posting' \in [Writers -> Versions \cup {Nothing}] /\ \A x \in Writers : posting'[x] <= version'
  BY <1>1, TypeFacts DEF Post, Versions
<1>3. heard \in Int /\ heard <= version
  BY TypeFacts DEF TypeOK, Versions
<1>4. TypeOK'
  BY <1>1, <1>2, <1>3, TypeFacts DEF Post, TypeOK, streamVars, Versions
<1>5. Bounded'
  BY <1>1, <1>2, TypeFacts DEF Post, Bounded, TypeOK, streamVars, Versions
<1>6. Unread' /\ ReadsLater' /\ KnownOrRead' /\ StreamsFollow' /\ Frames'
  BY DEF Post, streamVars, Unread, ReadsLater, KnownOrRead, StreamsFollow, Frames
<1> QED BY <1>4, <1>5, <1>6

LEMMA CloseStep ==
  ASSUME IInv, NEW c \in Streams, Close(c)
  PROVE  IInv'
<1> USE DEF IInv
<1>1. /\ sub' = [sub EXCEPT ![c] = None] /\ queue' = [queue EXCEPT ![c] = Nothing]
      /\ UNCHANGED <<version, heard, told, cache, detail, obj, shown, opens, posting,
                     waits, faults>>
  BY DEF Close, gatewayVars, writerVars
<1>2. evicts' \in Nat
  BY DEF Close, TypeOK
<1>3. TypeOK'
  BY <1>1, <1>2 DEF TypeOK
<1>4. Bounded' /\ Unread' /\ ReadsLater' /\ KnownOrRead'
  BY <1>1, TypeFacts DEF Bounded, Unread, ReadsLater, KnownOrRead, TypeOK, Versions
<1>5. StreamsFollow' /\ Frames'
  BY <1>1 DEF StreamsFollow, Frames, TypeOK
<1> QED BY <1>3, <1>4, <1>5

(***************************************************************************)
(* What a tab shows, and what the gateway does.                            *)
(***************************************************************************)
LEMMA WriteStep ==
  ASSUME IInv, NEW c \in Streams, WriteFrame(c)
  PROVE  IInv' /\ shown'[c] >= shown[c]
<1> USE DEF IInv
<1>1. /\ shown \in [Streams -> Versions]
      /\ queue \in [Streams -> Versions \cup {Nothing, Failed}]
      /\ detail \in Versions \cup {Nothing, Failed} /\ cache \in Objects \cup {None}
  BY DEF TypeOK
<1>2. /\ queue' = [queue EXCEPT ![c] = Nothing]
      /\ shown' = [shown EXCEPT ![c] = IF queue[c] = Failed THEN @ ELSE queue[c]]
      /\ queue[c] # Nothing /\ sub[c] # None
      /\ UNCHANGED <<version, heard, told, cache, detail, obj, evicts, sub, opens, posting,
                     waits, faults>>
  BY DEF WriteFrame, gatewayVars, writerVars
<1>3. CASE queue[c] = Failed
  <2>1. shown' = shown
    BY <1>1, <1>2, <1>3
  <2>2. TypeOK'
    BY <1>1, <1>2, <2>1 DEF TypeOK
  <2>3. Bounded' /\ Unread' /\ ReadsLater' /\ KnownOrRead'
    BY <1>1, <1>2, <2>1, TypeFacts DEF Bounded, Unread, ReadsLater, KnownOrRead, Versions
  <2>4. StreamsFollow' /\ Frames'
    BY <1>1, <1>2, <1>3, <2>1 DEF StreamsFollow, Frames
  <2>5. shown'[c] >= shown[c]
    BY <1>1, <2>1 DEF Versions
  <2> QED BY <2>2, <2>3, <2>4, <2>5
<1>4. CASE queue[c] # Failed
  <2>1. queue[c] \in Versions /\ queue[c] >= 0 /\ queue[c] = detail
    BY <1>1, <1>2, <1>4 DEF Frames, Versions
  <2>2. shown' = [shown EXCEPT ![c] = detail] /\ shown' \in [Streams -> Versions]
    BY <1>1, <1>2, <1>4, <2>1
  <2>3. shown[c] <= detail
    BY <2>1 DEF Frames
  <2>4. TypeOK'
    BY <1>1, <1>2, <2>2 DEF TypeOK
  <2>5. Bounded' /\ Unread' /\ KnownOrRead'
    BY <1>1, <1>2, <2>2, TypeFacts DEF Bounded, Unread, KnownOrRead, Versions
  <2>6. ReadsLater'
    BY <1>1, <1>2, <2>2 DEF ReadsLater
  <2>7. StreamsFollow'
    BY <1>1, <1>2, <2>1, <2>2 DEF StreamsFollow
  <2>8. Frames'
    BY <1>1, <1>2, <2>1, <2>2 DEF Frames, Versions
  <2> QED BY <2>2, <2>3, <2>4, <2>5, <2>6, <2>7, <2>8
<1> QED BY <1>3, <1>4

LEMMA ChangesStep ==
  ASSUME IInv, Changes \/ LostEvent
  PROVE  IInv'
<1> USE DEF IInv
<1>1. version' \in Versions /\ version' >= version /\ heard' \in 0..version'
  BY TypeFacts DEF Changes, LostEvent, TypeOK, Versions
<1>2. /\ UNCHANGED <<told, cache, detail, obj, evicts, sub, queue, shown, opens, posting,
                     waits>>
      /\ faults' \in 0..MaxFaults
  BY DEF Changes, LostEvent, Fault, TypeOK, streamVars, writerVars
<1>3. told \in 0..version'
  BY <1>1, TypeFacts DEF Versions
<1>4. TypeOK'
  BY <1>1, <1>2, <1>3 DEF TypeOK
<1>5. Bounded'
  BY <1>1, <1>2, TypeFacts DEF Bounded, TypeOK, Versions
<1>6. Unread' /\ ReadsLater' /\ KnownOrRead' /\ StreamsFollow' /\ Frames'
  BY <1>2 DEF Unread, ReadsLater, KnownOrRead, StreamsFollow, Frames
<1> QED BY <1>4, <1>5, <1>6

LEMMA AnswersStep ==
  ASSUME IInv, NEW e \in Objects, Answers(e)
  PROVE  IInv'
<1> USE DEF IInv
<1>1. PICK v \in {version, Failed} : obj' = [obj EXCEPT ![e] = [obj[e] EXCEPT !.inFlight = v]]
  BY DEF Answers, Becomes
<1>2. /\ obj[e].inFlight = Asked /\ faults' \in 0..MaxFaults
      /\ UNCHANGED <<version, heard, told, cache, detail, evicts, sub, queue, shown, opens,
                     posting, waits>>
  BY DEF Answers, Fault, TypeOK, gatewayVars, streamVars, writerVars
<1> DEFINE o == [obj[e] EXCEPT !.inFlight = v]
<1>3. /\ o \in Entry /\ o.inFlight = v /\ o.dirty = obj[e].dirty /\ o.timer = obj[e].timer
  BY TypeFacts DEF Entry
<1> HIDE DEF o
<1>4. /\ obj' \in [Objects -> Entry] /\ obj'[e] = o
      /\ \A x \in Objects \ {e} : obj'[x] = obj[x]
  BY <1>1, <1>3, TypeFacts DEF o
<1>5. v \in Int /\ v <= version /\ v # Idle
  BY TypeFacts DEF Versions
<1>6. TypeOK'
  BY <1>2, <1>3, <1>4, <1>5 DEF TypeOK
<1>7. Bounded'
  BY <1>2, <1>3, <1>4, <1>5 DEF Bounded
<1>8. Unread' /\ StreamsFollow' /\ Frames'
  BY <1>2 DEF Unread, StreamsFollow, Frames
<1>9. KnownOrRead'
  BY <1>2, <1>3, <1>4, <1>5, TypeFacts DEF KnownOrRead
<1>10. ReadsLater'
  <2>1. CASE cache = e /\ v = version
    BY <1>2, <1>3, <1>4, <2>1, TypeFacts DEF ReadsLater, Bounded, Versions
  <2>2. CASE cache = e /\ v = Failed
    BY <1>2, <1>3, <1>4, <2>2 DEF ReadsLater
  <2>3. CASE cache # e
    BY <1>2, <1>4, <2>3, TypeFacts DEF ReadsLater
  <2> QED BY <2>1, <2>2, <2>3
<1> QED BY <1>6, <1>7, <1>8, <1>9, <1>10

LEMMA LandedFact ==
  ASSUME NEW o \in Entry
  PROVE  /\ Landed(o) \in Entry /\ Landed(o).inFlight = Idle /\ ~Landed(o).dirty
         /\ o.dirty \/ o.timer => Landed(o).timer
  BY DEF Landed, ScheduleRefresh, Entry

LEMMA LandsStep ==
  ASSUME IInv, NEW e \in Objects, Lands(e)
  PROVE  IInv'
<1> USE DEF IInv
<1> DEFINE o == Landed(obj[e])
           v == obj[e].inFlight
<1>1. v \in Versions \cup {Failed} /\ v <= version
  BY TypeFacts DEF Lands, Entry, Bounded
<1>2. /\ obj' = [obj EXCEPT ![e] = o]
      /\ detail' = IF e = cache THEN v ELSE detail
      /\ queue' = [c \in Streams |-> IF sub[c] = e THEN v ELSE queue[c]]
      /\ UNCHANGED <<version, heard, told, cache, evicts, sub, shown, opens, posting, faults>>
  BY DEF Lands, LandsOn, Becomes, gatewayVars
<1>3. /\ o \in Entry /\ o.inFlight = Idle /\ ~o.dirty
      /\ obj[e].dirty \/ obj[e].timer => o.timer
  BY TypeFacts, LandedFact
<1>4. waits' \in [Writers -> Objects \cup {None}]
  BY DEF Lands, TypeOK
<1> HIDE DEF o
<1>5. /\ obj' \in [Objects -> Entry] /\ obj'[e] = o
      /\ \A x \in Objects \ {e} : obj'[x] = obj[x]
  BY <1>2, <1>3, TypeFacts
<1>6. /\ v = obj[e].inFlight
      /\ sub \in [Streams -> Objects \cup {None}] /\ shown \in [Streams -> Versions]
      /\ queue \in [Streams -> Versions \cup {Nothing, Failed}]
      /\ detail \in Versions \cup {Nothing, Failed}
  BY DEF TypeOK
<1> HIDE DEF v
<1>7. /\ queue' \in [Streams -> Versions \cup {Nothing, Failed}]
      /\ detail' \in Versions \cup {Nothing, Failed}
  BY <1>1, <1>2, <1>6
<1>8. TypeOK'
  BY <1>2, <1>3, <1>4, <1>5, <1>7 DEF TypeOK
<1>9. Bounded'
  BY <1>1, <1>2, <1>3, <1>5, <1>6, TypeFacts DEF Bounded, Versions
<1>10. Unread'
  BY <1>2, TypeFacts DEF Unread
<1>11. CASE cache = e
  <2>1. ReadsLater'
    BY <1>2, <1>3, <1>5, <1>11 DEF ReadsLater
  <2>2. KnownOrRead'
    <3>1. v >= 0 => v >= told \/ obj[e].dirty
      BY <1>6, <1>11 DEF ReadsLater
    <3>2. v >= 0 \/ v = Failed
      BY <1>1 DEF Versions
    <3> QED BY <1>2, <1>3, <1>5, <1>11, <3>1, <3>2 DEF KnownOrRead
  <2>3. StreamsFollow'
    BY <1>2, <1>11 DEF StreamsFollow
  <2>4. Frames'
    <3>1. v >= 0 => \A c \in Streams : shown[c] <= v
      BY <1>6, <1>11 DEF ReadsLater
    <3>2. \A c \in Streams : sub[c] # e => queue[c] = Nothing
      BY <1>11 DEF StreamsFollow, Frames
    <3> QED BY <1>2, <1>11, <3>1, <3>2 DEF Frames
  <2> QED BY <1>8, <1>9, <1>10, <2>1, <2>2, <2>3, <2>4
<1>12. CASE cache # e
  <2>1. ReadsLater' /\ KnownOrRead'
    BY <1>2, <1>5, <1>12, TypeFacts DEF ReadsLater, KnownOrRead
  <2>2. \A c \in Streams : sub[c] # e
    BY <1>12 DEF StreamsFollow
  <2>3. queue' = queue
    BY <1>2, <1>6, <2>2
  <2>4. StreamsFollow' /\ Frames'
    BY <1>2, <1>12, <2>3 DEF StreamsFollow, Frames
  <2> QED BY <1>8, <1>9, <1>10, <2>1, <2>4
<1> QED BY <1>11, <1>12

(***************************************************************************)
(* Timers and events.                                                      *)
(***************************************************************************)
LEMMA RefreshStep ==
  ASSUME IInv, NEW e \in Objects, Refresh(e)
  PROVE  IInv'
<1> DEFINE p == [obj[e] EXCEPT !.timer = FALSE]
           o == Fetched(p)
<1>1. /\ p \in Entry /\ p.inFlight = obj[e].inFlight /\ p.dirty = obj[e].dirty
      /\ p.dirty => p.inFlight # Idle
  BY TypeFacts DEF Entry
<1>2. obj' = [obj EXCEPT ![e] = o]
  BY DEF Refresh, Becomes
<1> HIDE DEF p
<1>3. Served(p, o) /\ o.inFlight # Idle
  BY <1>1, FetchedFact
<1> HIDE DEF o
<1>4. Served(obj[e], o)
  BY <1>1, <1>3 DEF Served
<1>5. /\ UNCHANGED <<version, heard, told, cache, detail, evicts, sub, queue, shown, opens,
                     posting, waits, faults>>
  BY DEF Refresh, gatewayVars, streamVars, writerVars
<1>6. /\ told' \in {told} /\ told' >= told /\ told' <= version
      /\ posting' \in [Writers -> Versions \cup {Nothing}]
      /\ \A x \in Writers : posting'[x] <= version
      /\ cache # e \/ cache # None
  BY <1>5, TypeFacts
<1>7. /\ obj' \in [Objects -> Entry]
      /\ \A x \in Objects : obj'[x].dirty => obj'[x].inFlight # Idle
      /\ Bounded' /\ Unread' /\ ReadsLater' /\ KnownOrRead' /\ StreamsFollow' /\ Frames'
  BY <1>2, <1>4, <1>5, <1>6, MethodStep
<1>8. TypeOK'
  BY <1>5, <1>7 DEF IInv, TypeOK
<1> QED BY <1>7, <1>8 DEF IInv

LEMMA EvictStep ==
  ASSUME IInv, Evict
  PROVE  IInv'
<1> USE DEF IInv
<1>1. /\ evicts' \in Nat
      /\ UNCHANGED <<version, heard, told, sub, queue, shown, opens, posting, waits,
                     faults>>
  BY DEF Evict, TypeOK, gatewayVars, streamVars, writerVars
<1>2. CASE cache # None /\ Evictable(cache)
  <2>1. /\ cache' = None /\ detail' = Nothing /\ cache \in Objects
        /\ obj' = [obj EXCEPT ![cache] = [obj[cache] EXCEPT !.timer = FALSE]]
    BY <1>2, TypeFacts DEF Evict, Becomes
  <2>2. /\ [obj[cache] EXCEPT !.timer = FALSE] \in Entry
        /\ [obj[cache] EXCEPT !.timer = FALSE].inFlight = obj[cache].inFlight
        /\ [obj[cache] EXCEPT !.timer = FALSE].dirty = obj[cache].dirty
    BY <2>1, TypeFacts DEF Entry
  <2>3. /\ obj' \in [Objects -> Entry]
        /\ \A x \in Objects : obj'[x].inFlight = obj[x].inFlight /\ obj'[x].dirty = obj[x].dirty
    BY <2>1, <2>2, TypeFacts
  <2>4. \A c \in Streams : sub[c] = None
    BY <1>2 DEF Evictable, Listeners, StreamsFollow
  <2>5. TypeOK'
    BY <1>1, <2>1, <2>3, TypeFacts DEF TypeOK
  <2>6. Bounded'
    BY <1>1, <2>1, <2>3, TypeFacts DEF Bounded, Versions
  <2>7. Unread' /\ ReadsLater' /\ KnownOrRead' /\ StreamsFollow'
    BY <1>1, <2>1, <2>4 DEF Unread, ReadsLater, KnownOrRead, StreamsFollow
  <2>8. Frames'
    BY <1>1, <2>1, <2>4 DEF Frames
  <2> QED BY <2>5, <2>6, <2>7, <2>8
<1>3. CASE ~(cache # None /\ Evictable(cache))
  <2>1. UNCHANGED <<cache, detail, obj>>
    BY <1>3 DEF Evict
  <2> QED
    BY <1>1, <2>1 DEF TypeOK, Bounded, Unread, ReadsLater, KnownOrRead, StreamsFollow, Frames
<1> QED BY <1>2, <1>3

LEMMA EventStep ==
  ASSUME IInv, NEW keyed \in BOOLEAN, Event(keyed)
  PROVE  IInv'
<1>1. /\ heard' = heard + 1 /\ heard' \in 0..version
      /\ UNCHANGED <<version, cache, detail, evicts, sub, queue, shown, opens, posting,
                     waits, faults>>
  BY TypeFacts DEF Event, IInv, TypeOK, streamVars, writerVars, Versions
<1>2. CASE cache # None /\ (keyed \/ Listeners(cache) # {})
  <2> DEFINE o == ScheduleRefresh(obj[cache])
  <2>1. cache \in Objects
    BY <1>2, TypeFacts
  <2>2. /\ obj' = [obj EXCEPT ![cache] = o] /\ Served(obj[cache], o)
        /\ o.timer \/ o.inFlight # Idle
        /\ obj[cache].inFlight # Idle => o.dirty
    BY <1>2, <2>1, TypeFacts, RefreshFact DEF Event, Becomes
  <2> HIDE DEF o
  <2>3. told' \in Versions /\ told' >= told /\ told' <= version
    BY <1>1, <1>2, TypeFacts DEF Event, Versions
  <2>4. /\ posting' \in [Writers -> Versions \cup {Nothing}]
        /\ \A x \in Writers : posting'[x] <= version
    BY <1>1, TypeFacts
  <2>5. /\ obj' \in [Objects -> Entry]
        /\ \A x \in Objects : obj'[x].dirty => obj'[x].inFlight # Idle
        /\ Bounded' /\ Unread' /\ ReadsLater' /\ KnownOrRead' /\ StreamsFollow' /\ Frames'
    BY <1>1, <1>2, <2>1, <2>2, <2>3, <2>4, MethodStep
  <2>6. TypeOK'
    BY <1>1, <2>3, <2>5 DEF IInv, TypeOK, Versions
  <2> QED BY <2>5, <2>6 DEF IInv
<1>3. CASE ~(cache # None /\ (keyed \/ Listeners(cache) # {}))
  <2>1. UNCHANGED <<obj, told>>
    BY <1>3 DEF Event
  <2> QED
    BY <1>1, <2>1 DEF IInv, TypeOK, Bounded, Unread, ReadsLater, KnownOrRead, StreamsFollow,
                      Frames
<1> QED BY <1>2, <1>3

(***************************************************************************)
(* Every step.                                                             *)
(***************************************************************************)
LEMMA NextIInv == IInv /\ [Next]_vars => IInv'
<1> SUFFICES ASSUME IInv, [Next]_vars PROVE IInv'
  OBVIOUS
<1>1. CASE RouteStep
  BY <1>1, RouteReads, PostStep, PostedStep, OpenStep, CloseStep DEF RouteStep
<1>2. CASE \E c \in Streams : WriteFrame(c)
  BY <1>2, WriteStep
<1>3. CASE \E e \in Objects : HubStep(e)
  BY <1>3, RefreshStep, AnswersStep, LandsStep DEF HubStep
<1>4. CASE Evict \/ Changes \/ LostEvent \/ \E keyed \in BOOLEAN : Event(keyed)
  BY <1>4, EvictStep, ChangesStep, EventStep
<1>5. CASE UNCHANGED vars
  BY <1>5 DEF vars, IInv, TypeOK, Bounded, Unread, ReadsLater, KnownOrRead, StreamsFollow, Frames
<1> QED BY <1>1, <1>2, <1>3, <1>4, <1>5 DEF Next

\* Only a frame that is written changes what a tab shows.
LEMMA ShownStep ==
  ASSUME IInv, Next, NEW c \in Streams PROVE shown'[c] >= shown[c]
<1>1. shown \in [Streams -> Versions] /\ shown[c] \in Int
  BY DEF IInv, TypeOK, Versions
<1>2. CASE \E x \in Streams : WriteFrame(x)
  <2>1. PICK x \in Streams : WriteFrame(x)
    BY <1>2
  <2>2. CASE x = c
    BY <2>1, <2>2, WriteStep
  <2>3. CASE x # c
    BY <1>1, <2>1, <2>3 DEF WriteFrame
  <2> QED BY <2>2, <2>3
<1>3. CASE ~\E x \in Streams : WriteFrame(x)
  <2>1. shown' = shown
    BY <1>3 DEF Next, RouteStep, HubStep, ReadCached, ReadFresh, Post, Posted, Open, Close,
                Refresh, Answers, Lands, Evict, Changes, Event, LostEvent, streamVars
  <2> QED BY <1>1, <2>1
<1> QED BY <1>2, <1>3

(***************************************************************************)
(* The theorems.                                                           *)
(***************************************************************************)
\* Every reachable state satisfies the inductive invariant.
THEOREM Invariance == Spec => []IInv
  BY InitIInv, NextIInv, PTL DEF Spec

\* Type correctness of the hub, its streams and its callers.
THEOREM TypeCorrect == Spec => []TypeOK
<1>1. IInv => TypeOK
  BY DEF IInv
<1> QED BY <1>1, Invariance, PTL

\* Coalescing reads (fetch(), scheduleRefresh(), dirtyDuringFetch) drops no
\* change the hub was told of, whatever reads, timers and evictions overlap.
THEOREM CoalescingIsSafe == Spec => []NothingMissed
<1>1. IInv => NothingMissed
  <2> SUFFICES ASSUME IInv, cache # None,
                      ~(detail = Failed \/ detail >= told), ~obj[cache].timer
               PROVE  /\ obj[cache].inFlight # Idle
                      /\ \/ obj[cache].dirty
                         \/ obj[cache].inFlight \in {Asked, Failed}
                         \/ obj[cache].inFlight >= told
    BY DEF NothingMissed, WillRead
  <2>1. obj[cache].inFlight # Idle
    BY DEF IInv, KnownOrRead
  <2>2. obj[cache].inFlight \in Versions \cup {Idle, Asked, Failed}
    BY TypeFacts DEF Entry
  <2>3. obj[cache].inFlight \in {Asked, Failed} \/ obj[cache].inFlight >= 0
    BY <2>1, <2>2 DEF Versions
  <2> QED BY <2>1, <2>3 DEF IInv, ReadsLater
<1> QED BY <1>1, Invariance, PTL

\* Every open stream listens to the entry in the Map and has been given what
\* it holds, for any number of tabs and of eviction timers left behind.
THEOREM StreamsAreFed == Spec => []StreamsFollow
<1>1. IInv => StreamsFollow
  BY DEF IInv
<1> QED BY <1>1, Invariance, PTL

\* What a tab shows is never replaced by an older transcript.
THEOREM ShownIsMonotonic == Spec => NeverOlder
<1>1. IInv /\ [Next]_vars => [\A c \in Streams : shown'[c] >= shown[c]]_vars
  BY ShownStep
<1> QED BY <1>1, Invariance, PTL DEF Spec, NeverOlder

(***************************************************************************)
(* A conversation in the browser (module Conversation), for any number of  *)
(* tabs, texts, messages, renames and failures.                            *)
(*                                                                         *)
(* What a call under way carries is something to send, or a name typed.    *)
(***************************************************************************)
Lawful ==
  \A c \in Tabs :
    /\ post[c].at # "idle" => post[c].text \in Texts
    /\ put[c].at # "idle" => put[c].name \in Names

ConversationInv == ConversationTypeOK /\ Lawful

LEMMA DerivedType ==
  ASSUME transcript \in Seq(Texts), NEW count \in Int, count <= Len(transcript)
  PROVE  Derived(count) = NoName \/ Derived(count) \in Texts
<1> DEFINE named == {i \in Messages(count) : HasLine(transcript[i])}
<1>1. CASE named = {}
  BY <1>1 DEF Derived
<1>2. CASE named # {}
  <2>1. Messages(count) \subseteq 1..Len(transcript) /\ named \subseteq Nat
    BY DEF Messages
  <2>2. \E i \in named : \A j \in named : i <= j
    <3> DEFINE R == OpToRel(<, Nat)
    <3>1. IsWellFoundedOn(R, Nat)
      BY NatLessThanWellFounded
    <3>2. \A i, j \in Nat : j < i => <<j, i>> \in R
      BY DEF OpToRel
    <3> HIDE DEF R, named
    <3>3. PICK i \in named : \A j \in named : <<j, i>> \notin R
      BY <1>2, <2>1, <3>1, WFMin
    <3>4. ASSUME NEW j \in named PROVE i <= j
      <4>1. i \in Nat /\ j \in Nat
        BY <2>1
      <4>2. ~(j < i)
        BY <3>2, <3>3, <4>1
      <4> QED
        BY <4>1, <4>2
    <3> QED
      BY <3>4
  <2>3. Derived(count) = transcript[CHOOSE i \in named : \A j \in named : i <= j]
    BY <1>2 DEF Derived
  <2> QED
    BY <2>1, <2>2, <2>3
<1> QED
  BY <1>1, <1>2

LEMMA FailureType ==
  ASSUME failures \in 0..MaxFailures, Failure \/ UNCHANGED failures
  PROVE  failures' \in 0..MaxFailures
BY ConversationAssumption DEF Failure

LEMMA StoreType ==
  ASSUME titles \in Title, file \in Title, failures \in 0..MaxFailures,
         NEW title \in Title, Store(title)
  PROVE  titles' \in Title /\ file' \in Title /\ failures' \in 0..MaxFailures
BY ConversationAssumption DEF Store, Failure

LEMMA RetireType ==
  ASSUME NEW echoes \in [Echo -> Nat], NEW messages
  PROVE  Retire(echoes, messages) \in [Echo -> Nat]
BY DEF Retire

LEMMA TitleShows == \A title \in Title : title.name \in Shows
BY DEF Title, Untitled, Shows

LEMMA SendType ==
  ASSUME ConversationInv, NEW c \in Tabs, NEW text \in Typed, Send(c, text)
  PROVE  ConversationInv'
<1> USE ConversationAssumption DEF ConversationInv
<1>1. text \in Texts /\ text \in Shows
  BY DEF Shows
<1>2. pending[c] \in [Echo -> Nat] /\ pending \in [Tabs -> [Echo -> Nat]]
  BY DEF ConversationTypeOK
<1>3. Echoed(pending[c], text) \in [Echo -> Nat]
  BY <1>2 DEF Echoed
<1>4. Retire(Echoed(pending[c], text), Messages(page[c].count)) \in [Echo -> Nat]
  BY <1>3, RetireType
<1>5. pending' \in [Tabs -> [Echo -> Nat]]
  BY <1>2, <1>4 DEF Send
<1>6. /\ post' \in [Tabs -> [text : Shows, at : {"idle", "asked", "ok", "failed"}]]
      /\ mine' \in [Tabs -> SUBSET Texts]
  BY <1>1 DEF ConversationTypeOK, Send
<1>7. ConversationTypeOK'
  BY <1>5, <1>6 DEF ConversationTypeOK, Send, serverVars, hubVars
<1>8. Lawful'
  BY <1>1 DEF Lawful, Send, ConversationTypeOK
<1> QED
  BY <1>7, <1>8

LEMMA ReplyType ==
  ASSUME ConversationInv, NEW c \in Tabs, NEW at \in {"ok", "failed"},
         post[c].at = "asked", Reply(c, at)
  PROVE  /\ post' \in [Tabs -> [text : Shows, at : {"idle", "asked", "ok", "failed"}]]
         /\ \A d \in Tabs : post'[d].at # "idle" => post'[d].text \in Texts
         /\ post[c].text \in Texts
BY DEF ConversationInv, ConversationTypeOK, Lawful, Reply

LEMMA NamedType ==
  ASSUME ConversationInv, NEW c \in Tabs, post[c].text \in Texts, Named(c)
  PROVE  titles' \in Title /\ file' \in Title
BY DEF ConversationInv, ConversationTypeOK, Named, Title

LEMMA AppendType ==
  ASSUME ConversationInv, NEW text \in Texts, SendMessage(text)
  PROVE  /\ transcript' \in Seq(Texts) /\ Len(transcript') <= MaxMessages
         /\ Len(transcript') = Len(transcript) + 1
         /\ parts' \subseteq 1..Len(transcript')
         /\ cached \in NoHistory..Len(transcript') \cup {HistoryError}
<1> USE ConversationAssumption DEF ConversationInv, ConversationTypeOK, SendMessage
<1>1. /\ transcript' \in Seq(Texts) /\ Len(transcript') = Len(transcript) + 1
      /\ Len(transcript) \in Nat /\ Len(transcript') <= MaxMessages
  OBVIOUS
<1>2. parts' \subseteq 1..Len(transcript')
  <2>1. parts \subseteq 1..Len(transcript)
    OBVIOUS
  <2>2. parts' = parts \/ parts' = parts \cup {Len(transcript) + 1}
    OBVIOUS
  <2> DEFINE n == Len(transcript)
  <2>3. 1..Len(transcript') = 1..n \cup {n + 1} /\ n \in Nat
    BY <1>1
  <2> HIDE DEF n
  <2>4. parts \subseteq 1..n /\ (parts' = parts \/ parts' = parts \cup {n + 1})
    BY <2>1, <2>2 DEF n
  <2> QED
    BY <2>3, <2>4, Zenon
<1>3. cached \in NoHistory..Len(transcript') \cup {HistoryError}
  BY <1>1 DEF NoHistory
<1> QED
  BY <1>1, <1>2, <1>3

LEMMA PostType ==
  ASSUME ConversationInv, NEW c \in Tabs, Refused(c) \/ Deliver(c) \/ DeliverFails(c)
  PROVE  ConversationInv'
<1> USE ConversationAssumption DEF ConversationInv
<1>1. CASE Refused(c)
  <2>1. Reply(c, "failed") /\ post[c].at = "asked"
    BY <1>1 DEF Refused
  <2> QED
    BY <1>1, <2>1, ReplyType DEF Refused, ConversationTypeOK, Lawful, serverVars, hubVars
<1>2. CASE Deliver(c)
  <2>1. Reply(c, "ok") /\ post[c].at = "asked" /\ Named(c) /\ SendMessage(post[c].text)
    BY <1>2 DEF Deliver
  <2>2. post[c].text \in Texts /\ titles' \in Title /\ file' \in Title
    BY <2>1, ReplyType, NamedType
  <2>3. due' \in BOOLEAN
    BY <1>2 DEF Deliver, ConversationTypeOK, ReadsAgain
  <2> QED
    BY <1>2, <2>1, <2>2, <2>3, ReplyType, AppendType DEF Deliver, ConversationTypeOK, Lawful
<1>3. CASE DeliverFails(c)
  <2>1. Reply(c, "failed") /\ post[c].at = "asked" /\ Named(c)
    BY <1>3 DEF DeliverFails
  <2>2. post[c].text \in Texts /\ titles' \in Title /\ file' \in Title
    BY <2>1, ReplyType, NamedType
  <2>3. /\ transcript' \in Seq(Texts) /\ Len(transcript') <= MaxMessages
        /\ parts' \subseteq 1..Len(transcript')
        /\ cached' \in NoHistory..Len(transcript') \cup {HistoryError}
    BY <1>3, <2>2, AppendType DEF DeliverFails, ConversationTypeOK
  <2>4. failures' \in 0..MaxFailures
    BY <1>3 DEF DeliverFails, Failure, ConversationTypeOK
  <2> QED
    BY <1>3, <2>1, <2>2, <2>3, <2>4, ReplyType DEF DeliverFails, ConversationTypeOK, Lawful
<1> QED
  BY <1>1, <1>2, <1>3

LEMMA AnswerType ==
  ASSUME ConversationInv, NEW c \in Tabs, Answer(c)
  PROVE  ConversationInv'
<1> USE ConversationAssumption DEF ConversationInv
<1>1. pending[c] \in [Echo -> Nat] /\ pending \in [Tabs -> [Echo -> Nat]]
  BY DEF ConversationTypeOK
<1>2. Settled(pending[c]) \in [Echo -> Nat]
  <2>1. \A text \in Texts : /\ pending[c][[text |-> text, sending |-> TRUE]] \in Nat
                            /\ pending[c][[text |-> text, sending |-> FALSE]] \in Nat
    BY <1>1 DEF Echo
  <2>2. \A text \in Texts : Echoes(pending[c], text) \in Nat
    <3> TAKE text \in Texts
    <3> DEFINE s == pending[c][[text |-> text, sending |-> TRUE]]
               w == pending[c][[text |-> text, sending |-> FALSE]]
    <3>1. s \in Nat /\ w \in Nat
      BY <2>1
    <3>2. Echoes(pending[c], text) = s + w
      BY DEF Echoes
    <3> HIDE DEF s, w
    <3> QED
      BY <3>1, <3>2
  <2>3. \A e \in Echo : e.text \in Texts
    BY DEF Echo
  <2> QED
    BY <1>1, <2>2, <2>3 DEF Settled
<1>3. Unsent(pending[c]) \in [Echo -> Nat]
  BY <1>1 DEF Unsent
<1>4. pending' \in [Tabs -> [Echo -> Nat]]
  BY <1>1, <1>2, <1>3 DEF Answer
<1>5. mine' \in [Tabs -> SUBSET Texts]
  <2>1. mine \in [Tabs -> SUBSET Texts]
    BY DEF ConversationTypeOK
  <2>2. mine' = mine \/ mine' = [mine EXCEPT ![c] = @ \ {post[c].text}]
    BY DEF Answer
  <2> QED
    BY <2>1, <2>2
<1>6. post' \in [Tabs -> [text : Shows, at : {"idle", "asked", "ok", "failed"}]]
  BY DEF Answer, ConversationTypeOK, NoPost, Shows
<1>7. ConversationTypeOK'
  BY <1>4, <1>5, <1>6 DEF ConversationTypeOK, Answer, serverVars, hubVars
<1>8. Lawful'
  BY DEF Lawful, Answer, ConversationTypeOK, NoPost
<1> QED
  BY <1>7, <1>8

LEMMA RenameType ==
  ASSUME ConversationInv, NEW c \in Tabs,
         \/ \E name \in Names : Commit(c, name)
         \/ Rename(c) \/ RenameAnswer(c)
  PROVE  ConversationInv'
<1> USE ConversationAssumption DEF ConversationInv
<1>1. \A d \in Tabs : page[d].name \in Shows /\ NameOn(d) \in Shows
  BY DEF ConversationTypeOK, NameOn
<1>2. ASSUME NEW name \in Shows, RenameLocally(c, name)
      PROVE  renamed' \in [Tabs -> Shows]
  BY <1>2 DEF ConversationTypeOK, RenameLocally, Unshadow, Shows
<1>3. ASSUME NEW name \in Names, Commit(c, name) PROVE ConversationInv'
  <2>1. name \in Shows
    BY DEF Shows
  <2>2. renamed' \in [Tabs -> Shows]
    BY <1>2, <1>3, <2>1 DEF Commit
  <2>3. /\ put' \in [Tabs -> [name : Shows, old : Shows,
                              at : {"idle", "asked", "ok", "failed"}]]
        /\ renames' \in 0..MaxRenames
    BY <1>1, <1>3, <2>1 DEF Commit, ConversationTypeOK
  <2>4. ConversationTypeOK'
    BY <1>3, <2>2, <2>3 DEF Commit, ConversationTypeOK, serverVars, hubVars
  <2>5. Lawful'
    BY <1>3 DEF Commit, Lawful, ConversationTypeOK, serverVars, hubVars
  <2> QED
    BY <2>4, <2>5
<1>4. CASE Rename(c)
  <2> DEFINE title == [name |-> put[c].name, source |-> "manual"]
  <2>1. title \in Title
    BY <1>4 DEF Rename, Lawful, Title
  <2>2. titles' \in Title /\ file' \in Title /\ failures' \in 0..MaxFailures
    BY <1>4, <2>1, StoreType DEF Rename, ConversationTypeOK
  <2>3. PICK at \in {"ok", "failed"} : put[c].at = "asked" /\ put' = [put EXCEPT ![c].at = at]
    BY <1>4 DEF Rename
  <2>4. put' \in [Tabs -> [name : Shows, old : Shows,
                           at : {"idle", "asked", "ok", "failed"}]]
    BY <2>3 DEF ConversationTypeOK
  <2>5. ConversationTypeOK'
    BY <1>4, <2>2, <2>4 DEF Rename, ConversationTypeOK, hubVars
  <2>6. \A d \in Tabs : /\ put'[d].name = put[d].name
                        /\ put[d].at = "idle" => put'[d].at = "idle"
    BY <2>3 DEF ConversationTypeOK
  <2>7. Lawful'
    BY <1>4, <2>6 DEF Rename, Lawful
  <2> QED
    BY <2>5, <2>7
<1>5. CASE RenameAnswer(c)
  <2>1. put[c].name \in Shows /\ put[c].old \in Shows
    BY DEF ConversationTypeOK
  <2>2. renamed' \in [Tabs -> Shows]
    BY <1>2, <1>5, <2>1 DEF RenameAnswer
  <2>3. put' \in [Tabs -> [name : Shows, old : Shows,
                           at : {"idle", "asked", "ok", "failed"}]]
    BY <1>5 DEF RenameAnswer, ConversationTypeOK, NoPut, Shows
  <2>4. ConversationTypeOK'
    BY <1>5, <2>2, <2>3 DEF RenameAnswer, ConversationTypeOK, serverVars, hubVars
  <2>5. Lawful'
    BY <1>5 DEF RenameAnswer, Lawful, ConversationTypeOK, NoPut, serverVars, hubVars
  <2> QED
    BY <2>4, <2>5
<1> QED
  BY <1>3, <1>4, <1>5

LEMMA FrameType ==
  ASSUME ConversationInv, NEW c \in Tabs, Frame(c)
  PROVE  ConversationInv'
<1> USE ConversationAssumption DEF ConversationInv
<1> DEFINE new == [count |-> cached, name |-> TitleForDetail(cached)]
<1>1. /\ cached \in Int /\ cached <= Len(transcript) /\ transcript \in Seq(Texts)
      /\ cached \in NoHistory..MaxMessages \cup {HistoryError}
  BY DEF ConversationTypeOK, NoHistory, HistoryError
<1>2. Derived(cached) = NoName \/ Derived(cached) \in Texts
  BY <1>1, DerivedType
<1>3. TitleForDetail(cached) \in Shows
  BY <1>2, TitleShows DEF TitleForDetail, ConversationTypeOK, Shows
<1>4. titles' \in Title /\ file' \in Title /\ failures' \in 0..MaxFailures
  <2>1. Backfill(cached)
    BY DEF Frame
  <2>2. CASE titles = Untitled /\ Derived(cached) # NoName
    <3>1. [name |-> Derived(cached), source |-> "auto"] \in Title
      BY <1>2, <2>2 DEF Title
    <3> QED
      BY <2>1, <2>2, <3>1, StoreType DEF Backfill, ConversationTypeOK
  <2>3. CASE ~(titles = Untitled /\ Derived(cached) # NoName)
    BY <2>1, <2>3 DEF Backfill, ConversationTypeOK
  <2> QED
    BY <2>2, <2>3
<1>5. new \in [count : NoHistory..MaxMessages \cup {HistoryError}, name : Shows]
  BY <1>1, <1>3
<1>6. page' \in [Tabs -> [count : NoHistory..MaxMessages \cup {HistoryError}, name : Shows]]
  BY <1>5 DEF Frame, ConversationTypeOK
<1>7. Retire(pending[c], Messages(cached)) \in [Echo -> Nat]
  BY RetireType DEF ConversationTypeOK
<1>8. pending' \in [Tabs -> [Echo -> Nat]]
  BY <1>7 DEF Frame, ConversationTypeOK
<1>9. renamed' \in [Tabs -> Shows]
  <2>1. Unshadow(renamed[c], new) \in Shows
    BY DEF Unshadow, ConversationTypeOK, Shows
  <2> QED
    BY <2>1 DEF Frame, ConversationTypeOK
<1>10. ConversationTypeOK'
  BY <1>4, <1>6, <1>8, <1>9 DEF Frame, ConversationTypeOK, hubVars
<1>11. Lawful'
  BY DEF Frame, Lawful, hubVars
<1> QED
  BY <1>10, <1>11

LEMMA GoneType ==
  ASSUME ConversationInv, NEW c \in Tabs, Leave(c) \/ Logout(c)
  PROVE  ConversationInv'
<1> USE ConversationAssumption DEF ConversationInv
<1>1. Gone(c)
  BY DEF Leave, Logout
<1>2. NoEchoes \in [Echo -> Nat]
  BY DEF NoEchoes
<1>3. NoDetail \in [count : NoHistory..MaxMessages \cup {HistoryError}, name : Shows]
  BY DEF NoDetail, NoHistory, Shows
<1>4. /\ pending' \in [Tabs -> [Echo -> Nat]]
      /\ page' \in [Tabs -> [count : NoHistory..MaxMessages \cup {HistoryError}, name : Shows]]
      /\ renamed' \in [Tabs -> Shows] /\ stream' \in [Tabs -> BOOLEAN]
      /\ mine' \in [Tabs -> SUBSET Texts] /\ UNCHANGED <<post, put>>
  BY <1>1, <1>2, <1>3 DEF Gone, ConversationTypeOK, Shows
<1>5. UNCHANGED <<titles, file, hits, hubVars, renames>> /\ signed' \in BOOLEAN
  BY DEF Leave, Logout, ConversationTypeOK, serverVars
<1>6. failures' \in 0..MaxFailures
  BY FailureType DEF Leave, Logout, ConversationTypeOK
<1> QED
  BY <1>4, <1>5, <1>6 DEF ConversationTypeOK, Lawful, hubVars

LEMMA HubType ==
  ASSUME ConversationInv,
         \/ HubReads \/ GatewayEvent \/ \E text \in Texts : OtherSends(text)
         \/ \E c \in Tabs : OpenStream(c) \/ Breaks(c)
  PROVE  ConversationInv'
<1> USE ConversationAssumption DEF ConversationInv
<1>1. CASE HubReads
  <2>1. failures' \in 0..MaxFailures
    BY <1>1, FailureType DEF HubReads, ConversationTypeOK
  <2>2. cached' \in NoHistory..Len(transcript') \cup {HistoryError}
    BY <1>1 DEF HubReads, ConversationTypeOK, NoHistory
  <2>3. due' \in BOOLEAN
    BY <1>1 DEF HubReads
  <2> QED
    BY <1>1, <2>1, <2>2, <2>3
    DEF HubReads, ConversationTypeOK, Lawful, serverVars, pageVars
<1>2. CASE GatewayEvent
  BY <1>2 DEF GatewayEvent, ConversationTypeOK, Lawful, serverVars, pageVars
<1>3. ASSUME NEW text \in Texts, OtherSends(text) PROVE ConversationInv'
  <2>1. SendMessage(text)
    BY <1>3 DEF OtherSends, SendMessage
  <2> QED
    BY <1>3, <2>1, AppendType
    DEF OtherSends, ConversationTypeOK, Lawful, serverVars, pageVars
<1>4. ASSUME NEW c \in Tabs, OpenStream(c) PROVE ConversationInv'
  BY <1>4 DEF OpenStream, ConversationTypeOK, Lawful, serverVars
<1>5. ASSUME NEW c \in Tabs, Breaks(c) PROVE ConversationInv'
  BY <1>5 DEF Breaks, Failure, ConversationTypeOK, Lawful, serverVars, hubVars
<1> QED
  BY <1>1, <1>2, <1>3, <1>4, <1>5

LEMMA RestartType ==
  ASSUME ConversationInv, Restart
  PROVE  ConversationInv'
<1> USE ConversationAssumption DEF ConversationInv
<1>1. /\ post' \in [Tabs -> [text : Shows, at : {"idle", "asked", "ok", "failed"}]]
      /\ \A c \in Tabs : post'[c].text = post[c].text
      /\ \A c \in Tabs : post[c].at = "idle" => post'[c].at = "idle"
  BY DEF Restart, ConversationTypeOK
<1>2. /\ put' \in [Tabs -> [name : Shows, old : Shows,
                            at : {"idle", "asked", "ok", "failed"}]]
      /\ \A c \in Tabs : put'[c].name = put[c].name
      /\ \A c \in Tabs : put[c].at = "idle" => put'[c].at = "idle"
  BY DEF Restart, ConversationTypeOK
<1>3. ConversationTypeOK'
  <2>1. failures' \in 0..MaxFailures /\ hits' \in 0..MaxLogins
    BY FailureType DEF Restart, ConversationTypeOK
  <2>2. cached' \in NoHistory..Len(transcript') \cup {HistoryError}
    BY DEF Restart, ConversationTypeOK, NoHistory
  <2> QED
    BY <1>1, <1>2, <2>1, <2>2 DEF Restart, ConversationTypeOK
<1>4. Lawful'
  BY <1>1, <1>2 DEF Lawful
<1> QED
  BY <1>3, <1>4

LEMMA SignInType ==
  ASSUME ConversationInv, Reset \/ SessionEnds \/ Login \/ WindowEnds
  PROVE  ConversationInv'
<1> USE ConversationAssumption DEF ConversationInv
<1>1. CASE Reset
  <2>1. Untitled \in Title
    BY DEF Title
  <2> QED
    BY <1>1, <2>1, StoreType DEF Reset, ConversationTypeOK, Lawful, hubVars, pageVars
<1>2. CASE SessionEnds
  <2>1. failures' \in 0..MaxFailures
    BY <1>2, FailureType DEF SessionEnds, ConversationTypeOK
  <2> QED
    BY <1>2, <2>1 DEF SessionEnds, ConversationTypeOK, Lawful, hubVars, pageVars
<1>3. CASE Login
  BY <1>3 DEF Login, ConversationTypeOK, Lawful, hubVars, pageVars
<1>4. CASE WindowEnds
  BY <1>4 DEF WindowEnds, ConversationTypeOK, Lawful, hubVars, pageVars
<1> QED
  BY <1>1, <1>2, <1>3, <1>4

LEMMA ConversationInvInit == ConversationInit => ConversationInv
<1> SUFFICES ASSUME ConversationInit PROVE ConversationInv
  OBVIOUS
<1>1. /\ transcript \in Seq(Texts) /\ Len(transcript) <= MaxMessages
      /\ parts \subseteq 1..Len(transcript)
      /\ cached \in NoHistory..Len(transcript) \cup {HistoryError}
      /\ hits \in 0..MaxLogins /\ renames \in 0..MaxRenames /\ failures \in 0..MaxFailures
  BY ConversationAssumption DEF ConversationInit, NoHistory
<1>2. titles \in Title /\ file \in Title
  BY DEF ConversationInit, Title
<1>3. page \in [Tabs -> [count : NoHistory..MaxMessages \cup {HistoryError}, name : Shows]]
  BY ConversationAssumption DEF ConversationInit, NoDetail, NoHistory, Shows
<1>4. pending \in [Tabs -> [Echo -> Nat]]
  BY DEF ConversationInit, NoEchoes
<1>5. /\ post \in [Tabs -> [text : Shows, at : {"idle", "asked", "ok", "failed"}]]
      /\ put \in [Tabs -> [name : Shows, old : Shows, at : {"idle", "asked", "ok", "failed"}]]
      /\ renamed \in [Tabs -> Shows]
  BY DEF ConversationInit, NoPost, NoPut, Shows
<1>6. due \in BOOLEAN /\ signed \in BOOLEAN /\ stream \in [Tabs -> BOOLEAN]
  BY DEF ConversationInit
<1>7. mine \in [Tabs -> SUBSET Texts]
  BY DEF ConversationInit
<1>8. Lawful
  BY DEF ConversationInit, Lawful, NoPost, NoPut
<1> QED
  BY <1>1, <1>2, <1>3, <1>4, <1>5, <1>6, <1>7, <1>8 DEF ConversationInv, ConversationTypeOK

LEMMA ConversationInvStep ==
  ConversationInv /\ [ConversationNext]_conversationVars => ConversationInv'
<1> SUFFICES ASSUME ConversationInv, [ConversationNext]_conversationVars
             PROVE  ConversationInv'
  OBVIOUS
<1>1. ASSUME NEW c \in Tabs, \E text \in Typed : Send(c, text) PROVE ConversationInv'
  BY <1>1, SendType
<1>2. ASSUME NEW c \in Tabs, SendStep(c) PROVE ConversationInv'
  BY <1>2, PostType, AnswerType DEF SendStep
<1>3. ASSUME NEW c \in Tabs, StreamStep(c) PROVE ConversationInv'
  BY <1>3, HubType, FrameType DEF StreamStep
<1>4. CASE UNCHANGED conversationVars
  BY <1>4 DEF conversationVars, ConversationInv, ConversationTypeOK, Lawful, serverVars,
              hubVars, pageVars
<1>5. ASSUME NEW c \in Tabs, Breaks(c) PROVE ConversationInv'
  BY <1>5, HubType
<1> QED
  BY <1>1, <1>2, <1>3, <1>4, <1>5, RenameType, GoneType, HubType, RestartType, SignInType
  DEF ConversationNext

\* Every variable keeps its type.
THEOREM ConversationTypeCorrect == ConversationSpec => []ConversationTypeOK
<1>1. ConversationInv => ConversationTypeOK
  BY DEF ConversationInv
<1> QED
  BY <1>1, ConversationInvInit, ConversationInvStep, PTL DEF ConversationSpec

(***************************************************************************)
(* What is on screen.                                                      *)
(***************************************************************************)
Sending(c, text) == pending[c][[text |-> text, sending |-> TRUE]]
Waiting(c, text) == pending[c][[text |-> text, sending |-> FALSE]]
UnderWay(c, text) == post[c].at # "idle" /\ post[c].text = text
Sent(text) == CountOf(text, 1..Len(transcript))

\* There are no more echoes of a text than messages of it, the one under way
\* included; only that one has an echo that is being sent.
Covered ==
  \A c \in Tabs, text \in Texts :
    /\ Sending(c, text) > 0 => UnderWay(c, text)
    /\ Waiting(c, text) <= Sent(text)
    /\ Sending(c, text) + Waiting(c, text)
         <= Sent(text) + (IF UnderWay(c, text) /\ post[c].at # "ok" THEN 1 ELSE 0)

\* What is among the messages as a string has no echo.
Retired ==
  \A c \in Tabs, text \in Texts :
    Occurs(text, Messages(page[c].count)) => Sending(c, text) = 0 /\ Waiting(c, text) = 0

\* A page is not ahead of the hub, nor the hub of the gateway.
InOrder ==
  \A c \in Tabs :
    /\ page[c].count <= Len(transcript)
    /\ page[c].count >= 0 /\ cached >= 0 => page[c].count <= cached

\* A message, as a string, that the page and the hub had read when they read one.
InReach(c, text) ==
  \E i \in 1..Len(transcript) :
    /\ transcript[i] = text /\ i \notin parts
    /\ page[c].count >= 0 => i <= page[c].count
    /\ cached >= 0 => i <= cached

\* A text sent on this visit has an echo still, or is within reach.
Kept ==
  \A c \in Tabs : \A text \in mine[c] :
    \/ Sending(c, text) > 0 \/ Waiting(c, text) > 0
    \/ page[c].count # NoHistory /\ InReach(c, text)

ScreenInv == Covered /\ Retired /\ InOrder /\ Kept

LEMMA ConversationTypes ==
  ASSUME ConversationInv
  PROVE  /\ transcript \in Seq(Texts) /\ Len(transcript) \in Nat
         /\ cached \in Int /\ cached <= Len(transcript)
         /\ pending \in [Tabs -> [Echo -> Nat]]
         /\ post \in [Tabs -> [text : Shows, at : {"idle", "asked", "ok", "failed"}]]
         /\ mine \in [Tabs -> SUBSET Texts]
         /\ \A c \in Tabs : page[c].count \in Int
BY DEF ConversationInv, ConversationTypeOK, NoHistory, HistoryError

LEMMA PageType ==
  ASSUME ConversationInv
  PROVE  page \in [Tabs -> [count : NoHistory..MaxMessages \cup {HistoryError}, name : Shows]]
BY DEF ConversationInv, ConversationTypeOK

LEMMA EchoType ==
  ASSUME pending \in [Tabs -> [Echo -> Nat]], NEW c \in Tabs, NEW text \in Texts
  PROVE  Sending(c, text) \in Nat /\ Waiting(c, text) \in Nat
BY DEF Echo, Sending, Waiting

LEMMA RetireEcho ==
  ASSUME NEW echoes, NEW messages, NEW text \in Texts, NEW sending \in BOOLEAN
  PROVE  Retire(echoes, messages)[[text |-> text, sending |-> sending]]
           = IF Occurs(text, messages) THEN 0 ELSE echoes[[text |-> text, sending |-> sending]]
<1>1. [text |-> text, sending |-> sending] \in Echo
  BY DEF Echo
<1> QED
  BY <1>1 DEF Retire

LEMMA CountType ==
  ASSUME NEW text, NEW n \in Nat, NEW messages \in SUBSET (1..n)
  PROVE  /\ CountOf(text, messages) \in Nat
         /\ CountOf(text, messages) <= CountOf(text, 1..n)
         /\ CountOf(text, messages \cap parts) \in Nat
         /\ ~Occurs(text, messages) =>
              CountOf(text, messages) = CountOf(text, messages \cap parts)
         /\ Occurs(text, messages) => CountOf(text, messages) > 0
<1> DEFINE at(S) == {i \in S : transcript[i] = text}
<1>1. IsFiniteSet(1..n)
  BY FS_Interval
<1>2. IsFiniteSet(at(1..n))
  BY <1>1, FS_Subset
<1>3. at(messages) \subseteq at(1..n)
  OBVIOUS
<1>4. /\ IsFiniteSet(at(messages)) /\ Cardinality(at(messages)) <= Cardinality(at(1..n))
      /\ Cardinality(at(messages)) \in Nat
  BY <1>2, <1>3, FS_Subset, FS_CardinalityType
<1>5. /\ Occurs(text, messages) => at(messages) # {}
      /\ ~Occurs(text, messages) => at(messages) = at(messages \cap parts)
  BY DEF Occurs
<1>6. Cardinality(at(messages)) = 0 <=> at(messages) = {}
  BY <1>4, FS_EmptySet
<1>7. /\ CountOf(text, messages) = Cardinality(at(messages))
      /\ CountOf(text, messages \cap parts) = Cardinality(at(messages \cap parts))
      /\ CountOf(text, 1..n) = Cardinality(at(1..n))
  BY DEF CountOf
<1>8. Cardinality(at(messages \cap parts)) \in Nat
  <2>1. at(messages \cap parts) \subseteq at(1..n)
    OBVIOUS
  <2> QED
    BY <1>2, <2>1, FS_Subset, FS_CardinalityType
<1>9. ~Occurs(text, messages) =>
        CountOf(text, messages) = CountOf(text, messages \cap parts)
  BY <1>5, <1>7
<1> HIDE DEF at
<1>10. Occurs(text, messages) => CountOf(text, messages) > 0
  BY <1>4, <1>5, <1>6, <1>7
<1> QED
  BY <1>4, <1>7, <1>8, <1>9, <1>10

LEMMA SentType == ASSUME transcript \in Seq(Texts), NEW text PROVE Sent(text) \in Nat
<1>1. Len(transcript) \in Nat
  OBVIOUS
<1>2. CountOf(text, 1..Len(transcript)) \in Nat
  BY <1>1, CountType, Zenon
<1> QED
  BY <1>2 DEF Sent

LEMMA MessagesBelow ==
  ASSUME NEW n \in Nat, NEW count \in Int, count <= n
  PROVE  Messages(count) \subseteq 1..n
BY DEF Messages

\* One more message: the counts, and the messages that were there.
LEMMA SentMore ==
  ASSUME transcript \in Seq(Texts), NEW x \in Texts, SendMessage(x), NEW text
  PROVE  /\ Sent(text)' = Sent(text) + (IF text = x THEN 1 ELSE 0)
         /\ \A count \in Int : count <= Len(transcript) =>
              (Occurs(text, Messages(count))' <=> Occurs(text, Messages(count)))
<1> DEFINE n == Len(transcript)
           at == {i \in 1..n : transcript[i] = text}
           after == {i \in 1..(n + 1) : transcript'[i] = text}
<1>1. /\ n \in Nat /\ Len(transcript') = n + 1 /\ transcript'[n + 1] = x
      /\ \A i \in 1..n : transcript'[i] = transcript[i] /\ (i \in parts' <=> i \in parts)
  BY DEF SendMessage
<1>2. IsFiniteSet(at)
  <2>1. IsFiniteSet(1..n)
    BY <1>1, FS_Interval
  <2> QED
    BY <2>1, FS_Subset
<1>3. Sent(text) = Cardinality(at) /\ Sent(text)' = Cardinality(after)
  BY <1>1 DEF Sent, CountOf
<1>4. after = IF text = x THEN at \cup {n + 1} ELSE at
  BY <1>1
<1>5. n + 1 \notin at
  BY <1>1
<1>6. Sent(text)' = Sent(text) + (IF text = x THEN 1 ELSE 0)
  <2>1. CASE text = x
    <3>1. after = at \cup {n + 1}
      BY <1>4, <2>1
    <3> HIDE DEF after, at
    <3>2. Cardinality(at \cup {n + 1}) = Cardinality(at) + 1
      BY <1>2, <1>5, FS_AddElement
    <3> QED
      BY <1>3, <2>1, <3>1, <3>2
  <2>2. CASE text # x
    <3>1. after = at
      BY <1>4, <2>2
    <3>2. Cardinality(at) \in Nat
      BY <1>2, FS_CardinalityType
    <3> HIDE DEF after, at
    <3> QED
      BY <1>3, <2>2, <3>1, <3>2
  <2> QED
    BY <2>1, <2>2
<1>7. ASSUME NEW count \in Int, count <= n
      PROVE  Occurs(text, Messages(count))' <=> Occurs(text, Messages(count))
  <2>1. Messages(count) \subseteq 1..n
    BY <1>1, <1>7, MessagesBelow
  <2> QED
    BY <1>1, <2>1 DEF Occurs, Messages
<1> QED
  BY <1>6, <1>7

\* The invariant is what was wanted.
LEMMA ScreenInvShows == ConversationInv /\ ScreenInv => ShownOnce
<1> SUFFICES ASSUME ConversationInv, ScreenInv, NEW c \in Tabs, NEW text \in Texts
             PROVE  /\ Rendered(c, text) <= CountOf(text, 1..Len(transcript))
                         + (IF post[c].text = text /\ post[c].at # "ok" THEN 1 ELSE 0)
                         + CountOf(text, Messages(page[c].count) \cap parts)
                    /\ text \in mine[c] /\ page[c].count # HistoryError
                       /\ ~PushedOut(c, text)
                         => Rendered(c, text) > 0
  BY DEF ShownOnce
<1> DEFINE n == Len(transcript)
           there == CountOf(text, Messages(page[c].count))
           asParts == CountOf(text, Messages(page[c].count) \cap parts)
<1>1. n \in Nat /\ page[c].count \in Int /\ page[c].count <= n
  BY ConversationTypes DEF ScreenInv, InOrder
<1>2. Messages(page[c].count) \in SUBSET (1..n)
  BY <1>1, MessagesBelow
<1>3. /\ there \in Nat /\ there <= Sent(text) /\ asParts \in Nat
      /\ Occurs(text, Messages(page[c].count)) => there > 0
      /\ ~Occurs(text, Messages(page[c].count)) => there = asParts
  BY <1>1, <1>2, CountType DEF Sent
<1>4. Sent(text) \in Nat /\ Sending(c, text) \in Nat /\ Waiting(c, text) \in Nat
  BY ConversationTypes, SentType, EchoType
<1>5. Rendered(c, text) = there + (Sending(c, text) + Waiting(c, text))
  BY DEF Rendered, Echoes, Sending, Waiting
<1>6. /\ Sending(c, text) > 0 => UnderWay(c, text)
      /\ Waiting(c, text) <= Sent(text)
      /\ Sending(c, text) + Waiting(c, text)
           <= Sent(text) + (IF UnderWay(c, text) /\ post[c].at # "ok" THEN 1 ELSE 0)
  BY DEF ScreenInv, Covered
<1>7. Occurs(text, Messages(page[c].count)) => Sending(c, text) = 0 /\ Waiting(c, text) = 0
  BY DEF ScreenInv, Retired
<1> HIDE DEF there, asParts, n
<1>8. Rendered(c, text) <= Sent(text)
        + (IF post[c].text = text /\ post[c].at # "ok" THEN 1 ELSE 0) + asParts
  <2>1. CASE Occurs(text, Messages(page[c].count))
    BY <1>3, <1>4, <1>5, <1>7, <2>1
  <2>2. CASE ~Occurs(text, Messages(page[c].count))
    BY <1>3, <1>4, <1>5, <1>6, <2>2 DEF UnderWay
  <2> QED
    BY <2>1, <2>2
<1>9. ASSUME text \in mine[c], page[c].count # HistoryError, ~PushedOut(c, text)
      PROVE  Rendered(c, text) > 0
  <2>1. CASE Sending(c, text) > 0 \/ Waiting(c, text) > 0
    BY <1>3, <1>4, <1>5, <2>1
  <2>2. CASE page[c].count # NoHistory /\ InReach(c, text)
    <3>1. PICK i \in 1..Len(transcript) :
            /\ transcript[i] = text /\ i \notin parts
            /\ page[c].count >= 0 => i <= page[c].count
      BY <2>2 DEF InReach
    <3>2. page[c].count >= 0
      BY <1>9, <2>2, PageType DEF NoHistory, HistoryError
    <3>3. ~(i <= page[c].count - Window)
      BY <1>1, <1>9, <3>1, ConversationAssumption DEF PushedOut, Occurs
    <3>4. i \in Messages(page[c].count)
      BY <1>1, <3>1, <3>2, <3>3, ConversationAssumption DEF Messages
    <3>5. Occurs(text, Messages(page[c].count))
      BY <3>1, <3>4 DEF Occurs
    <3> QED
      BY <1>3, <1>4, <1>5, <3>5
  <2> QED
    BY <1>9, <2>1, <2>2 DEF ScreenInv, Kept
<1> QED
  BY <1>8, <1>9 DEF Sent, asParts

\* The counts that stay with the variables they read.
LEMMA CountsStay ==
  ASSUME UNCHANGED transcript, UNCHANGED pending, UNCHANGED post
  PROVE  \A c \in Tabs, text \in Texts :
           /\ Sending(c, text)' = Sending(c, text) /\ Waiting(c, text)' = Waiting(c, text)
           /\ (UnderWay(c, text)' <=> UnderWay(c, text)) /\ post'[c] = post[c]
           /\ Sent(text)' = Sent(text)
BY DEF Sending, Waiting, UnderWay, Sent, CountOf

LEMMA CoveredStays ==
  ASSUME ScreenInv, UNCHANGED transcript, UNCHANGED pending, UNCHANGED post
  PROVE  Covered'
<1> SUFFICES ASSUME NEW c \in Tabs, NEW text \in Texts
             PROVE  /\ Sending(c, text)' > 0 => UnderWay(c, text)'
                    /\ Waiting(c, text)' <= Sent(text)'
                    /\ Sending(c, text)' + Waiting(c, text)' <= Sent(text)'
                         + (IF UnderWay(c, text)' /\ post'[c].at # "ok" THEN 1 ELSE 0)
  BY DEF Covered
<1>1. /\ Sending(c, text) > 0 => UnderWay(c, text)
      /\ Waiting(c, text) <= Sent(text)
      /\ Sending(c, text) + Waiting(c, text)
           <= Sent(text) + (IF UnderWay(c, text) /\ post[c].at # "ok" THEN 1 ELSE 0)
  BY DEF ScreenInv, Covered
<1> QED BY <1>1, CountsStay

screenVars == <<transcript, parts, cached, page, pending, post, mine>>

LEMMA ScreenQuiet == ScreenInv /\ UNCHANGED screenVars => ScreenInv'
<1> SUFFICES ASSUME ScreenInv, UNCHANGED screenVars PROVE ScreenInv'
  OBVIOUS
<1>1. UNCHANGED transcript /\ UNCHANGED parts /\ UNCHANGED cached /\ UNCHANGED page
      /\ UNCHANGED pending /\ UNCHANGED post /\ UNCHANGED mine
  BY DEF screenVars
<1>2. Covered'
  BY <1>1, CoveredStays
<1>3. Retired'
  BY <1>1 DEF ScreenInv, Retired, Sending, Waiting, Occurs
<1>4. InOrder'
  BY <1>1 DEF ScreenInv, InOrder
<1>5. Kept'
  <2>1. \A c, text : InReach(c, text)' <=> InReach(c, text)
    BY <1>1 DEF InReach
  <2> QED BY <1>1, <2>1 DEF ScreenInv, Kept, Sending, Waiting
<1> QED
  BY <1>2, <1>3, <1>4, <1>5 DEF ScreenInv

\* What a page shows is within its reach.
LEMMA OccursInReach ==
  ASSUME ConversationInv, InOrder, NEW c \in Tabs, NEW text,
         Occurs(text, Messages(page[c].count))
  PROVE  page[c].count # NoHistory /\ InReach(c, text)
<1>1. PICK i \in Messages(page[c].count) : transcript[i] = text /\ i \notin parts
  BY DEF Occurs
<1>2. /\ page[c].count \in Int /\ page[c].count <= Len(transcript)
      /\ Len(transcript) \in Nat /\ cached \in Int
  BY ConversationTypes DEF InOrder
<1>3. i \in 1..Len(transcript) /\ i <= page[c].count /\ page[c].count >= 0
  BY <1>1, <1>2 DEF Messages
<1>4. cached >= 0 => i <= cached
  BY <1>2, <1>3 DEF InOrder
<1> QED
  BY <1>1, <1>3, <1>4 DEF InReach, NoHistory

LEMMA SendScreen ==
  ASSUME ConversationInv, ScreenInv, NEW c \in Tabs, NEW text \in Typed, Send(c, text)
  PROVE  ScreenInv'
<1>1. /\ UNCHANGED transcript /\ UNCHANGED parts /\ UNCHANGED cached /\ UNCHANGED page
      /\ post[c].at = "idle"
      /\ post' = [post EXCEPT ![c] = [text |-> text, at |-> "asked"]]
      /\ pending' = [pending EXCEPT ![c] =
           Retire(Echoed(pending[c], text), Messages(page[c].count))]
      /\ mine' = [mine EXCEPT ![c] = @ \cup {text}]
  BY DEF Send, hubVars
<1>2. /\ pending \in [Tabs -> [Echo -> Nat]] /\ mine \in [Tabs -> SUBSET Texts]
      /\ post \in [Tabs -> [text : Shows, at : {"idle", "asked", "ok", "failed"}]]
      /\ text \in Texts
  BY ConversationTypes, ConversationAssumption
<1> DEFINE inDetail(t) == Occurs(t, Messages(page[c].count))
<1>3. ASSUME NEW t \in Texts
      PROVE  /\ Sending(c, t)' = IF inDetail(t) THEN 0
                                 ELSE IF t = text THEN Sending(c, t) + 1 ELSE Sending(c, t)
             /\ Waiting(c, t)' = IF inDetail(t) THEN 0 ELSE Waiting(c, t)
  <2>1. [text |-> t, sending |-> TRUE] \in Echo /\ [text |-> t, sending |-> FALSE] \in Echo
    BY DEF Echo
  <2>2. /\ Echoed(pending[c], text)[[text |-> t, sending |-> TRUE]]
             = IF t = text THEN Sending(c, t) + 1 ELSE Sending(c, t)
        /\ Echoed(pending[c], text)[[text |-> t, sending |-> FALSE]] = Waiting(c, t)
    BY <2>1 DEF Echoed, Sending, Waiting
  <2>3. pending'[c] = Retire(Echoed(pending[c], text), Messages(page[c].count))
    BY <1>1, <1>2
  <2>4. /\ Sending(c, t)' = Retire(Echoed(pending[c], text), Messages(page[c].count))
                              [[text |-> t, sending |-> TRUE]]
        /\ Waiting(c, t)' = Retire(Echoed(pending[c], text), Messages(page[c].count))
                              [[text |-> t, sending |-> FALSE]]
    BY <2>3 DEF Sending, Waiting
  <2>5. TRUE \in BOOLEAN /\ FALSE \in BOOLEAN
    OBVIOUS
  <2> QED
    BY <2>2, <2>4, <2>5, RetireEcho
<1>4. ASSUME NEW d \in Tabs, d # c, NEW t \in Texts
      PROVE  /\ Sending(d, t)' = Sending(d, t) /\ Waiting(d, t)' = Waiting(d, t)
             /\ UnderWay(d, t)' = UnderWay(d, t) /\ post'[d] = post[d]
             /\ mine'[d] = mine[d]
  BY <1>1, <1>2, <1>4 DEF Sending, Waiting, UnderWay
<1>5. ASSUME NEW t
      PROVE  /\ Sent(t)' = Sent(t)
             /\ \A d \in Tabs : /\ InReach(d, t)' = InReach(d, t)
                                /\ Occurs(t, Messages(page[d].count))'
                                     = Occurs(t, Messages(page[d].count))
  BY <1>1 DEF Sent, CountOf, InReach, Occurs
<1>6. \A t \in Texts : ~UnderWay(c, t) /\ (UnderWay(c, t)' <=> t = text)
  BY <1>1, <1>2 DEF UnderWay
<1>7. post'[c].at = "asked" /\ mine'[c] = mine[c] \cup {text}
  BY <1>1, <1>2
<1>8. \A d \in Tabs, t \in Texts :
        Sending(d, t) \in Nat /\ Waiting(d, t) \in Nat /\ Sent(t) \in Nat
  BY <1>2, ConversationTypes, EchoType, SentType
<1> HIDE DEF inDetail
<1>9. Covered'
  <2> SUFFICES ASSUME NEW d \in Tabs, NEW t \in Texts
               PROVE  /\ Sending(d, t)' > 0 => UnderWay(d, t)'
                      /\ Waiting(d, t)' <= Sent(t)'
                      /\ Sending(d, t)' + Waiting(d, t)' <= Sent(t)'
                           + (IF UnderWay(d, t)' /\ post'[d].at # "ok" THEN 1 ELSE 0)
    BY DEF Covered
  <2>1. /\ Sending(d, t) > 0 => UnderWay(d, t)
        /\ Waiting(d, t) <= Sent(t)
        /\ Sending(d, t) + Waiting(d, t)
             <= Sent(t) + (IF UnderWay(d, t) /\ post[d].at # "ok" THEN 1 ELSE 0)
    BY DEF ScreenInv, Covered
  <2>2. CASE d = c
    <3>1. Sending(c, t) = 0
      BY <1>6, <1>8, <2>1, <2>2
    <3> QED
      BY <1>3, <1>5, <1>6, <1>7, <1>8, <2>1, <2>2, <3>1
  <2>3. CASE d # c
    BY <1>4, <1>5, <2>1, <2>3
  <2> QED
    BY <2>2, <2>3
<1>10. Retired'
  <2> SUFFICES ASSUME NEW d \in Tabs, NEW t \in Texts, Occurs(t, Messages(page[d].count))'
               PROVE  Sending(d, t)' = 0 /\ Waiting(d, t)' = 0
    BY DEF Retired
  <2>1. Occurs(t, Messages(page[d].count))
    BY <1>5
  <2>2. Sending(d, t) = 0 /\ Waiting(d, t) = 0
    BY <2>1 DEF ScreenInv, Retired
  <2>3. CASE d = c
    BY <1>3, <2>1, <2>3 DEF inDetail
  <2>4. CASE d # c
    BY <1>4, <2>2, <2>4
  <2> QED BY <2>3, <2>4
<1>11. InOrder'
  BY <1>1 DEF ScreenInv, InOrder
<1>12. Kept'
  <2> SUFFICES ASSUME NEW d \in Tabs, NEW t \in mine'[d]
               PROVE  \/ Sending(d, t)' > 0 \/ Waiting(d, t)' > 0
                      \/ page'[d].count # NoHistory /\ InReach(d, t)'
    BY DEF Kept
  <2>1. CASE d # c
    <3>1. mine'[d] = mine[d] /\ t \in Texts
      BY <1>1, <1>2, <2>1
    <3>2. \/ Sending(d, t) > 0 \/ Waiting(d, t) > 0
          \/ page[d].count # NoHistory /\ InReach(d, t)
      BY <3>1 DEF ScreenInv, Kept
    <3>3. Sending(d, t)' = Sending(d, t) /\ Waiting(d, t)' = Waiting(d, t)
      BY <1>4, <2>1, <3>1
    <3>4. InReach(d, t) => InReach(d, t)'
      BY <1>5
    <3>5. page' = page
      BY <1>1
    <3> QED BY <3>2, <3>3, <3>4, <3>5
  <2>2. CASE d = c /\ inDetail(t)
    BY <1>1, <1>5, <2>2, OccursInReach DEF ScreenInv, inDetail
  <2>3. CASE d = c /\ ~inDetail(t)
    <3>1. t \in Texts /\ (t = text \/ t \in mine[c])
      BY <1>2, <1>7, <2>3
    <3>2. CASE t = text
      BY <1>3, <1>8, <2>3, <3>1, <3>2
    <3>3. CASE t \in mine[c]
      <4>1. \/ Sending(c, t) > 0 \/ Waiting(c, t) > 0
            \/ page[c].count # NoHistory /\ InReach(c, t)
        BY <3>3 DEF ScreenInv, Kept
      <4> QED
        BY <1>1, <1>3, <1>5, <1>8, <2>3, <3>1, <4>1
    <3> QED
      BY <3>1, <3>2, <3>3
  <2> QED
    BY <2>1, <2>2, <2>3
<1> QED
  BY <1>9, <1>10, <1>11, <1>12 DEF ScreenInv

\* A reply and nothing else, or the loss of what the API knew.
LEMMA ReplyScreen ==
  ASSUME ConversationInv, ScreenInv, Restart \/ \E c \in Tabs : Refused(c)
  PROVE  ScreenInv'
<1>1. /\ UNCHANGED transcript /\ UNCHANGED parts
      /\ UNCHANGED page /\ UNCHANGED pending /\ UNCHANGED mine
      /\ UNCHANGED cached \/ cached' = NoHistory
  BY DEF Restart, Refused, hubVars
<1>2. \A d \in Tabs :
        /\ post'[d].text = post[d].text
        /\ post'[d].at = post[d].at \/ (post[d].at = "asked" /\ post'[d].at = "failed")
  <2>1. post \in [Tabs -> [text : Shows, at : {"idle", "asked", "ok", "failed"}]]
    BY ConversationTypes
  <2>2. CASE Restart
    BY <2>1, <2>2 DEF Restart
  <2>3. ASSUME NEW c \in Tabs, Refused(c)
        PROVE  post[c].at = "asked" /\ post' = [post EXCEPT ![c].at = "failed"]
    BY <2>3 DEF Refused, Reply
  <2>4. CASE \E c \in Tabs : Refused(c)
    BY <2>1, <2>3, <2>4
  <2> QED
    BY <2>2, <2>4
<1>3. \A d \in Tabs, t \in Texts :
        /\ UnderWay(d, t)' <=> UnderWay(d, t)
        /\ post'[d].at # "ok" <=> post[d].at # "ok"
        /\ Sending(d, t)' = Sending(d, t) /\ Waiting(d, t)' = Waiting(d, t)
        /\ Sent(t)' = Sent(t)
  BY <1>1, <1>2 DEF UnderWay, Sending, Waiting, Sent, CountOf
<1>4. Covered'
  BY <1>3 DEF ScreenInv, Covered
<1>5. Retired'
  BY <1>1, <1>3 DEF ScreenInv, Retired, Occurs
<1>6. InOrder'
  BY <1>1 DEF ScreenInv, InOrder, NoHistory
<1>7. Kept'
  <2>1. \A d \in Tabs : \A t \in mine[d] : InReach(d, t) => InReach(d, t)'
    BY <1>1 DEF InReach, NoHistory
  <2> QED
    BY <1>1, <1>3, <2>1, ConversationTypes DEF ScreenInv, Kept
<1> QED
  BY <1>4, <1>5, <1>6, <1>7 DEF ScreenInv

\* One more message in the transcript, of a POST or of someone else.
LEMMA MoreScreen ==
  ASSUME ConversationInv, ScreenInv,
         \/ \E text \in Texts : OtherSends(text)
         \/ \E c \in Tabs : Deliver(c) \/ DeliverFails(c)
  PROVE  ScreenInv'
<1>1. /\ UNCHANGED cached /\ UNCHANGED page /\ UNCHANGED pending /\ UNCHANGED mine
  BY DEF OtherSends, Deliver, DeliverFails, pageVars
<1>2. \/ UNCHANGED transcript /\ UNCHANGED parts
      \/ \E x \in Texts : SendMessage(x)
  BY DEF OtherSends, Deliver, DeliverFails, ConversationInv, Lawful
<1>3. /\ transcript \in Seq(Texts) /\ Len(transcript) \in Nat
      /\ \A d \in Tabs : page[d].count \in Int /\ page[d].count <= Len(transcript)
  BY ConversationTypes DEF ScreenInv, InOrder
<1>4. /\ Len(transcript) <= Len(transcript')
      /\ \A i \in 1..Len(transcript) :
           transcript'[i] = transcript[i] /\ (i \in parts' <=> i \in parts)
  BY <1>2, <1>3 DEF SendMessage
<1>5. ASSUME NEW t, NEW count \in Int, count <= Len(transcript)
      PROVE  Occurs(t, Messages(count))' <=> Occurs(t, Messages(count))
  BY <1>2, <1>3, <1>5, SentMore DEF Occurs
<1>6. Retired'
  BY <1>1, <1>3, <1>5 DEF ScreenInv, Retired, Sending, Waiting
<1>7. InOrder'
  BY <1>1, <1>3, <1>4 DEF ScreenInv, InOrder
<1>8. Kept'
  <2>1. \A d \in Tabs : \A t \in mine[d] : InReach(d, t) => InReach(d, t)'
    BY <1>1, <1>3, <1>4 DEF InReach
  <2> QED
    BY <1>1, <2>1 DEF ScreenInv, Kept, Sending, Waiting
<1>9. \A d \in Tabs, t \in Texts :
        /\ Sending(d, t)' = Sending(d, t) /\ Waiting(d, t)' = Waiting(d, t)
        /\ Sending(d, t) \in Nat /\ Waiting(d, t) \in Nat /\ Sent(t) \in Nat
  BY <1>1, ConversationTypes, EchoType, SentType DEF Sending, Waiting
<1>10. \A t \in Texts : Sent(t) <= Sent(t)' /\ Sent(t)' \in Nat
  <2> TAKE t \in Texts
  <2>1. CASE UNCHANGED transcript /\ UNCHANGED parts
    <3>1. Sent(t)' = Sent(t)
      BY <2>1 DEF Sent, CountOf
    <3>2. Sent(t) \in Nat
      BY <1>3, SentType
    <3> QED
      BY <3>1, <3>2
  <2>2. ASSUME NEW x \in Texts, SendMessage(x)
        PROVE  Sent(t) <= Sent(t)' /\ Sent(t)' \in Nat
    <3>1. Sent(t)' = Sent(t) + (IF t = x THEN 1 ELSE 0) /\ Sent(t) \in Nat
      BY <1>3, <2>2, SentMore, SentType
    <3> QED
      BY <3>1
  <2> QED
    BY <1>2, <2>1, <2>2
<1>11. ASSUME NEW d \in Tabs, NEW t \in Texts
       PROVE  \/ /\ UnderWay(d, t)' <=> UnderWay(d, t)
                 /\ UnderWay(d, t) => (post'[d].at = "ok" => post[d].at = "ok")
              \/ /\ UnderWay(d, t)' /\ UnderWay(d, t) /\ Sent(t)' = Sent(t) + 1
                 /\ post'[d].at = "ok" /\ post[d].at = "asked"
  <2>1. post \in [Tabs -> [text : Shows, at : {"idle", "asked", "ok", "failed"}]]
    BY ConversationTypes
  <2>2. CASE UNCHANGED post
    BY <2>2 DEF UnderWay
  <2>3. ASSUME NEW c \in Tabs, DeliverFails(c)
        PROVE  /\ UnderWay(d, t)' <=> UnderWay(d, t)
               /\ post'[d].at = "ok" => post[d].at = "ok"
    BY <2>1, <2>3 DEF DeliverFails, Reply, UnderWay
  <2>4. ASSUME NEW c \in Tabs, Deliver(c), d # c
        PROVE  UNCHANGED post[d]
    BY <2>1, <2>4 DEF Deliver, Reply
  <2>5. ASSUME Deliver(d)
        PROVE  /\ post'[d].text = post[d].text /\ post'[d].at = "ok" /\ post[d].at = "asked"
               /\ SendMessage(post[d].text) /\ post[d].text \in Texts
    BY <2>1, <2>5 DEF Deliver, Reply, ConversationInv, Lawful
  <2>6. ASSUME Deliver(d), post[d].text = t PROVE Sent(t)' = Sent(t) + 1
    BY <1>3, <2>5, <2>6, SentMore
  <2>7. UNCHANGED post \/ \E c \in Tabs : Deliver(c) \/ DeliverFails(c)
    BY DEF OtherSends, pageVars
  <2> QED
    BY <2>2, <2>3, <2>4, <2>5, <2>6, <2>7 DEF UnderWay
<1>12. Covered'
  <2> SUFFICES ASSUME NEW d \in Tabs, NEW t \in Texts
               PROVE  /\ Sending(d, t)' > 0 => UnderWay(d, t)'
                      /\ Waiting(d, t)' <= Sent(t)'
                      /\ Sending(d, t)' + Waiting(d, t)' <= Sent(t)'
                           + (IF UnderWay(d, t)' /\ post'[d].at # "ok" THEN 1 ELSE 0)
    BY DEF Covered
  <2>1. /\ Sending(d, t) > 0 => UnderWay(d, t)
        /\ Waiting(d, t) <= Sent(t)
        /\ Sending(d, t) + Waiting(d, t)
             <= Sent(t) + (IF UnderWay(d, t) /\ post[d].at # "ok" THEN 1 ELSE 0)
    BY DEF ScreenInv, Covered
  <2>2. CASE /\ UnderWay(d, t)' <=> UnderWay(d, t)
             /\ UnderWay(d, t) => (post'[d].at = "ok" => post[d].at = "ok")
    BY <1>9, <1>10, <2>1, <2>2
  <2>3. CASE /\ UnderWay(d, t)' /\ UnderWay(d, t) /\ Sent(t)' = Sent(t) + 1
             /\ post'[d].at = "ok" /\ post[d].at = "asked"
    BY <1>9, <1>10, <2>1, <2>3
  <2> QED
    BY <1>11, <2>2, <2>3
<1> QED
  BY <1>6, <1>7, <1>8, <1>12 DEF ScreenInv

LEMMA AnswerScreen ==
  ASSUME ConversationInv, ScreenInv, NEW c \in Tabs, Answer(c)
  PROVE  ScreenInv'
<1>1. /\ UNCHANGED transcript /\ UNCHANGED parts /\ UNCHANGED cached /\ UNCHANGED page
      /\ post' = [post EXCEPT ![c] = NoPost] /\ post[c].at # "idle"
      /\ \/ /\ post[c].at = "ok" /\ mine' = mine
            /\ pending' = [pending EXCEPT ![c] = Settled(pending[c])]
         \/ /\ post[c].at = "failed" /\ mine' = [mine EXCEPT ![c] = @ \ {post[c].text}]
            /\ pending' = [pending EXCEPT ![c] = Unsent(pending[c])]
  BY DEF Answer, hubVars
<1>2. /\ pending \in [Tabs -> [Echo -> Nat]] /\ mine \in [Tabs -> SUBSET Texts]
      /\ post \in [Tabs -> [text : Shows, at : {"idle", "asked", "ok", "failed"}]]
  BY ConversationTypes
<1>3. ASSUME NEW t \in Texts
      PROVE  /\ Sending(c, t)' = 0
             /\ Waiting(c, t)' = IF post[c].at = "ok" THEN Sending(c, t) + Waiting(c, t)
                                 ELSE Waiting(c, t)
  <2>1. [text |-> t, sending |-> TRUE] \in Echo /\ [text |-> t, sending |-> FALSE] \in Echo
    BY DEF Echo
  <2>2. /\ Settled(pending[c])[[text |-> t, sending |-> TRUE]] = 0
        /\ Unsent(pending[c])[[text |-> t, sending |-> TRUE]] = 0
        /\ Unsent(pending[c])[[text |-> t, sending |-> FALSE]] = Waiting(c, t)
        /\ Settled(pending[c])[[text |-> t, sending |-> FALSE]] = Sending(c, t) + Waiting(c, t)
    BY <2>1 DEF Settled, Unsent, Echoes, Sending, Waiting
  <2>3. pending'[c] = IF post[c].at = "ok" THEN Settled(pending[c]) ELSE Unsent(pending[c])
    BY <1>1, <1>2
  <2>4. /\ Sending(c, t)' = pending'[c][[text |-> t, sending |-> TRUE]]
        /\ Waiting(c, t)' = pending'[c][[text |-> t, sending |-> FALSE]]
    BY DEF Sending, Waiting
  <2> QED
    BY <2>2, <2>3, <2>4
<1>4. ASSUME NEW d \in Tabs, d # c
      PROVE  /\ mine'[d] = mine[d] /\ post'[d] = post[d]
             /\ \A t \in Texts : /\ Sending(d, t)' = Sending(d, t)
                                 /\ Waiting(d, t)' = Waiting(d, t)
                                 /\ UnderWay(d, t)' = UnderWay(d, t)
  BY <1>1, <1>2, <1>4 DEF Sending, Waiting, UnderWay
<1>5. ASSUME NEW t
      PROVE  /\ Sent(t)' = Sent(t)
             /\ \A d \in Tabs : /\ InReach(d, t)' = InReach(d, t)
                                /\ Occurs(t, Messages(page[d].count))'
                                     = Occurs(t, Messages(page[d].count))
  BY <1>1 DEF Sent, CountOf, InReach, Occurs
<1>6. \A d \in Tabs, t \in Texts :
        Sending(d, t) \in Nat /\ Waiting(d, t) \in Nat /\ Sent(t) \in Nat
  BY <1>2, ConversationTypes, EchoType, SentType
<1>7. Covered'
  <2> SUFFICES ASSUME NEW d \in Tabs, NEW t \in Texts
               PROVE  /\ Sending(d, t)' > 0 => UnderWay(d, t)'
                      /\ Waiting(d, t)' <= Sent(t)'
                      /\ Sending(d, t)' + Waiting(d, t)' <= Sent(t)'
                           + (IF UnderWay(d, t)' /\ post'[d].at # "ok" THEN 1 ELSE 0)
    BY DEF Covered
  <2>1. /\ Sending(d, t) > 0 => UnderWay(d, t)
        /\ Waiting(d, t) <= Sent(t)
        /\ Sending(d, t) + Waiting(d, t)
             <= Sent(t) + (IF UnderWay(d, t) /\ post[d].at # "ok" THEN 1 ELSE 0)
    BY DEF ScreenInv, Covered
  <2>2. CASE d = c
    <3>1. Sending(c, t)' = 0 /\ Waiting(c, t)' \in Nat /\ Waiting(c, t)' <= Sent(t)
      BY <1>3, <1>6, <2>1, <2>2
    <3> QED
      BY <1>5, <1>6, <2>2, <3>1
  <2>3. CASE d # c
    BY <1>4, <1>5, <2>1, <2>3
  <2> QED
    BY <2>2, <2>3
<1>8. Retired'
  <2> SUFFICES ASSUME NEW d \in Tabs, NEW t \in Texts, Occurs(t, Messages(page[d].count))
               PROVE  Sending(d, t)' = 0 /\ Waiting(d, t)' = 0
    BY <1>1, <1>5 DEF Retired
  <2>1. Sending(d, t) = 0 /\ Waiting(d, t) = 0
    BY DEF ScreenInv, Retired
  <2> QED
    BY <1>3, <1>4, <2>1
<1>9. InOrder'
  BY <1>1 DEF ScreenInv, InOrder
<1>10. Kept'
  <2> SUFFICES ASSUME NEW d \in Tabs, NEW t \in mine'[d]
               PROVE  \/ Sending(d, t)' > 0 \/ Waiting(d, t)' > 0
                      \/ page'[d].count # NoHistory /\ InReach(d, t)'
    BY DEF Kept
  <2>1. t \in mine[d] /\ t \in Texts /\ (d = c /\ post[c].at # "ok" => t # post[c].text)
    BY <1>1, <1>2
  <2>2. \/ Sending(d, t) > 0 \/ Waiting(d, t) > 0
        \/ page[d].count # NoHistory /\ InReach(d, t)
    BY <2>1 DEF ScreenInv, Kept
  <2>3. CASE d # c
    BY <1>1, <1>4, <1>5, <2>1, <2>2, <2>3
  <2>4. CASE d = c
    <3>1. Sending(c, t) > 0 => post[c].at = "ok"
      BY <2>1, <2>4 DEF ScreenInv, Covered, UnderWay
    <3> QED
      BY <1>1, <1>3, <1>5, <1>6, <2>1, <2>2, <2>4, <3>1
  <2> QED
    BY <2>3, <2>4
<1> QED
  BY <1>7, <1>8, <1>9, <1>10 DEF ScreenInv

LEMMA GoneScreen ==
  ASSUME ConversationInv, ScreenInv, NEW c \in Tabs, Leave(c) \/ Logout(c)
  PROVE  ScreenInv'
<1>1. /\ UNCHANGED transcript /\ UNCHANGED parts /\ UNCHANGED cached /\ UNCHANGED post
      /\ page' = [page EXCEPT ![c] = NoDetail]
      /\ pending' = [pending EXCEPT ![c] = NoEchoes]
      /\ mine' = [mine EXCEPT ![c] = {}]
  BY DEF Leave, Logout, Gone, hubVars
<1>2. /\ pending \in [Tabs -> [Echo -> Nat]] /\ mine \in [Tabs -> SUBSET Texts]
      /\ page \in [Tabs -> [count : NoHistory..MaxMessages \cup {HistoryError}, name : Shows]]
      /\ Len(transcript) \in Nat
  BY ConversationTypes, PageType
<1>3. page'[c].count = NoHistory /\ mine'[c] = {} /\ pending'[c] = NoEchoes
  BY <1>1, <1>2 DEF NoDetail
<1>4. \A t \in Texts : Sending(c, t)' = 0 /\ Waiting(c, t)' = 0
  BY <1>3 DEF Sending, Waiting, NoEchoes, Echo
<1>5. ASSUME NEW d \in Tabs, d # c
      PROVE  /\ mine'[d] = mine[d] /\ page'[d] = page[d]
             /\ \A t \in Texts : /\ Sending(d, t)' = Sending(d, t)
                                 /\ Waiting(d, t)' = Waiting(d, t)
  BY <1>1, <1>2, <1>5 DEF Sending, Waiting
<1>6. \A d \in Tabs, t \in Texts :
        /\ Sent(t)' = Sent(t) /\ (UnderWay(d, t)' <=> UnderWay(d, t))
        /\ Sending(d, t) \in Nat /\ Waiting(d, t) \in Nat /\ Sent(t) \in Nat
  BY <1>1, <1>2, ConversationTypes, EchoType, SentType DEF Sent, CountOf, UnderWay
<1>7. Covered'
  <2> SUFFICES ASSUME NEW d \in Tabs, NEW t \in Texts
               PROVE  /\ Sending(d, t)' > 0 => UnderWay(d, t)'
                      /\ Waiting(d, t)' <= Sent(t)'
                      /\ Sending(d, t)' + Waiting(d, t)' <= Sent(t)'
                           + (IF UnderWay(d, t)' /\ post'[d].at # "ok" THEN 1 ELSE 0)
    BY DEF Covered
  <2>1. CASE d = c
    BY <1>4, <1>6, <2>1
  <2>2. CASE d # c
    BY <1>1, <1>5, <1>6, <2>2 DEF ScreenInv, Covered
  <2> QED
    BY <2>1, <2>2
<1>8. Retired'
  <2>1. ASSUME NEW d \in Tabs, d # c, NEW t \in Texts, Occurs(t, Messages(page[d].count))'
        PROVE  Sending(d, t)' = 0 /\ Waiting(d, t)' = 0
    <3>1. Occurs(t, Messages(page[d].count))
      BY <1>1, <1>5, <2>1 DEF Occurs
    <3> QED
      BY <1>5, <2>1, <3>1 DEF ScreenInv, Retired
  <2> QED
    BY <1>4, <2>1 DEF Retired
<1>9. InOrder'
  BY <1>1, <1>2, <1>3, <1>5 DEF ScreenInv, InOrder, NoHistory
<1>10. Kept'
  <2> SUFFICES ASSUME NEW d \in Tabs, NEW t \in mine'[d]
               PROVE  \/ Sending(d, t)' > 0 \/ Waiting(d, t)' > 0
                      \/ page'[d].count # NoHistory /\ InReach(d, t)'
    BY DEF Kept
  <2>1. d # c /\ t \in mine[d] /\ t \in Texts
    BY <1>2, <1>3, <1>5
  <2>2. InReach(d, t)' <=> InReach(d, t)
    BY <1>1, <1>5, <2>1 DEF InReach
  <2> QED
    BY <1>5, <2>1, <2>2 DEF ScreenInv, Kept
<1> QED
  BY <1>7, <1>8, <1>9, <1>10 DEF ScreenInv

LEMMA FrameScreen ==
  ASSUME ConversationInv, ScreenInv, NEW c \in Tabs, Frame(c)
  PROVE  ScreenInv'
<1> DEFINE new == [count |-> cached, name |-> TitleForDetail(cached)]
           inDetail(t) == Occurs(t, Messages(cached))
<1>1. /\ UNCHANGED transcript /\ UNCHANGED parts
      /\ UNCHANGED cached /\ UNCHANGED post /\ UNCHANGED mine
      /\ cached # NoHistory
      /\ page' = [page EXCEPT ![c] = new]
      /\ pending' = [pending EXCEPT ![c] = Retire(pending[c], Messages(cached))]
  BY DEF Frame, hubVars
<1>2. /\ pending \in [Tabs -> [Echo -> Nat]] /\ mine \in [Tabs -> SUBSET Texts]
      /\ page \in [Tabs -> [count : NoHistory..MaxMessages \cup {HistoryError}, name : Shows]]
      /\ Len(transcript) \in Nat /\ cached \in Int /\ cached <= Len(transcript)
  BY ConversationTypes, PageType
<1>3. page'[c].count = cached /\ pending'[c] = Retire(pending[c], Messages(cached))
  BY <1>1, <1>2
<1>4. ASSUME NEW t \in Texts
      PROVE  /\ Sending(c, t)' = IF inDetail(t) THEN 0 ELSE Sending(c, t)
             /\ Waiting(c, t)' = IF inDetail(t) THEN 0 ELSE Waiting(c, t)
  <2>1. TRUE \in BOOLEAN /\ FALSE \in BOOLEAN
    OBVIOUS
  <2>2. /\ Sending(c, t)' =
             Retire(pending[c], Messages(cached))[[text |-> t, sending |-> TRUE]]
        /\ Waiting(c, t)' =
             Retire(pending[c], Messages(cached))[[text |-> t, sending |-> FALSE]]
    BY <1>3 DEF Sending, Waiting
  <2>3. ASSUME NEW b \in BOOLEAN
        PROVE  Retire(pending[c], Messages(cached))[[text |-> t, sending |-> b]]
                 = IF inDetail(t) THEN 0 ELSE pending[c][[text |-> t, sending |-> b]]
    BY RetireEcho
  <2> HIDE DEF inDetail
  <2> QED
    BY <2>1, <2>2, <2>3 DEF Sending, Waiting
<1>5. ASSUME NEW d \in Tabs, d # c
      PROVE  /\ page'[d] = page[d]
             /\ \A t \in Texts : /\ Sending(d, t)' = Sending(d, t)
                                 /\ Waiting(d, t)' = Waiting(d, t)
  BY <1>1, <1>2, <1>5 DEF Sending, Waiting
<1>6. \A d \in Tabs, t \in Texts :
        /\ Sent(t)' = Sent(t) /\ (UnderWay(d, t)' <=> UnderWay(d, t))
        /\ Sending(d, t) \in Nat /\ Waiting(d, t) \in Nat /\ Sent(t) \in Nat
  BY <1>1, <1>2, ConversationTypes, EchoType, SentType DEF Sent, CountOf, UnderWay
<1>7. \A t : inDetail(t) <=> Occurs(t, Messages(page[c].count))'
  BY <1>1, <1>3 DEF Occurs
<1> HIDE DEF inDetail, new
<1>8. Covered'
  <2> SUFFICES ASSUME NEW d \in Tabs, NEW t \in Texts
               PROVE  /\ Sending(d, t)' > 0 => UnderWay(d, t)'
                      /\ Waiting(d, t)' <= Sent(t)'
                      /\ Sending(d, t)' + Waiting(d, t)' <= Sent(t)'
                           + (IF UnderWay(d, t)' /\ post'[d].at # "ok" THEN 1 ELSE 0)
    BY DEF Covered
  <2>1. /\ Sending(d, t) > 0 => UnderWay(d, t)
        /\ Waiting(d, t) <= Sent(t)
        /\ Sending(d, t) + Waiting(d, t)
             <= Sent(t) + (IF UnderWay(d, t) /\ post[d].at # "ok" THEN 1 ELSE 0)
    BY DEF ScreenInv, Covered
  <2>2. /\ Sending(d, t)' = 0 \/ Sending(d, t)' = Sending(d, t)
        /\ Waiting(d, t)' = 0 \/ Waiting(d, t)' = Waiting(d, t)
    BY <1>4, <1>5
  <2> QED
    BY <1>1, <1>6, <2>1, <2>2
<1>9. Retired'
  <2>1. ASSUME NEW d \in Tabs, d # c, NEW t \in Texts, Occurs(t, Messages(page[d].count))'
        PROVE  Sending(d, t)' = 0 /\ Waiting(d, t)' = 0
    <3>1. Occurs(t, Messages(page[d].count))
      BY <1>1, <1>5, <2>1 DEF Occurs
    <3> QED
      BY <1>5, <2>1, <3>1 DEF ScreenInv, Retired
  <2> QED
    BY <1>4, <1>7, <2>1 DEF Retired
<1>10. InOrder'
  BY <1>1, <1>2, <1>3, <1>5 DEF ScreenInv, InOrder
<1>11. Kept'
  <2> SUFFICES ASSUME NEW d \in Tabs, NEW t \in mine[d]
               PROVE  \/ Sending(d, t)' > 0 \/ Waiting(d, t)' > 0
                      \/ page'[d].count # NoHistory /\ InReach(d, t)'
    BY <1>1 DEF Kept
  <2>1. t \in Texts
    BY <1>2
  <2>2. \/ Sending(d, t) > 0 \/ Waiting(d, t) > 0
        \/ page[d].count # NoHistory /\ InReach(d, t)
    BY DEF ScreenInv, Kept
  <2>3. CASE d # c
    <3>1. InReach(d, t)' <=> InReach(d, t)
      BY <1>1, <1>5, <2>3 DEF InReach
    <3> QED
      BY <1>5, <2>1, <2>2, <2>3, <3>1
  <2>4. CASE d = c /\ inDetail(t)
    <3>1. PICK i \in Messages(cached) : transcript[i] = t /\ i \notin parts
      BY <2>4 DEF inDetail, Occurs
    <3>2. i \in 1..Len(transcript) /\ i <= cached
      BY <1>2, <3>1 DEF Messages
    <3>3. InReach(c, t)'
      BY <1>1, <1>3, <3>1, <3>2 DEF InReach
    <3> QED
      BY <1>1, <1>3, <2>4, <3>3
  <2>5. CASE d = c /\ ~inDetail(t)
    <3>1. InReach(c, t) => InReach(c, t)'
      BY <1>1, <1>3 DEF InReach
    <3> QED
      BY <1>1, <1>3, <1>4, <2>1, <2>2, <2>5, <3>1
  <2> QED
    BY <2>3, <2>4, <2>5
<1> QED
  BY <1>8, <1>9, <1>10, <1>11 DEF ScreenInv

LEMMA HubReadsScreen ==
  ASSUME ConversationInv, ScreenInv, HubReads
  PROVE  ScreenInv'
<1>1. /\ UNCHANGED transcript /\ UNCHANGED parts
      /\ UNCHANGED page /\ UNCHANGED pending /\ UNCHANGED post
      /\ UNCHANGED mine
      /\ cached' = Len(transcript) \/ cached' = HistoryError
  BY DEF HubReads, pageVars
<1>2. Covered'
  BY <1>1, CoveredStays
<1>3. Retired'
  BY <1>1 DEF ScreenInv, Retired, Sending, Waiting, Occurs
<1>4. InOrder'
  BY <1>1 DEF ScreenInv, InOrder, HistoryError
<1>5. Kept'
  <2>1. \A d \in Tabs : \A t \in mine[d] : InReach(d, t) => InReach(d, t)'
    BY <1>1, ConversationTypes DEF InReach, HistoryError
  <2> QED
    BY <1>1, <2>1 DEF ScreenInv, Kept, Sending, Waiting
<1> QED
  BY <1>2, <1>3, <1>4, <1>5 DEF ScreenInv

LEMMA ScreenInvInit == ConversationInit => ScreenInv
<1> SUFFICES ASSUME ConversationInit PROVE ScreenInv
  OBVIOUS
<1>1. \A c \in Tabs, text \in Texts : Sending(c, text) = 0 /\ Waiting(c, text) = 0
  BY DEF ConversationInit, Sending, Waiting, NoEchoes, Echo
<1>2. transcript = << >> /\ transcript \in Seq(Texts) /\ cached = NoHistory
  BY DEF ConversationInit
<1>3. \A c \in Tabs : page[c].count = NoHistory /\ mine[c] = {}
  BY DEF ConversationInit, NoDetail
<1>4. \A text \in Texts : Sent(text) \in Nat
  BY <1>2, SentType
<1> QED
  BY <1>1, <1>2, <1>3, <1>4 DEF ScreenInv, Covered, Retired, InOrder, Kept, NoHistory

LEMMA ScreenInvStep ==
  ConversationInv /\ ScreenInv /\ [ConversationNext]_conversationVars => ScreenInv'
<1> SUFFICES ASSUME ConversationInv, ScreenInv, [ConversationNext]_conversationVars
             PROVE  ScreenInv'
  OBVIOUS
<1>1. ASSUME NEW c \in Tabs, SendStep(c) PROVE ScreenInv'
  BY <1>1, ReplyScreen, MoreScreen, AnswerScreen DEF SendStep
<1>2. ASSUME NEW c \in Tabs, Frame(c) PROVE ScreenInv'
  BY <1>2, FrameScreen
<1>3. ASSUME NEW c \in Tabs, OpenStream(c) \/ Rename(c) \/ RenameAnswer(c) \/ Breaks(c)
      PROVE  ScreenInv'
  BY <1>3, ScreenQuiet
  DEF screenVars, OpenStream, Rename, RenameAnswer, Breaks, hubVars, serverVars
<1>4. ASSUME NEW c \in Tabs, NEW name \in Names, Commit(c, name) PROVE ScreenInv'
  BY <1>4, ScreenQuiet DEF screenVars, Commit, hubVars
<1>5. CASE GatewayEvent \/ Reset \/ SessionEnds \/ Login \/ WindowEnds
  BY <1>5, ScreenQuiet
  DEF screenVars, GatewayEvent, Reset, SessionEnds, Login, WindowEnds, hubVars, pageVars
<1>6. CASE UNCHANGED conversationVars
  BY <1>6, ScreenQuiet DEF screenVars, conversationVars, hubVars, pageVars
<1>7. ASSUME NEW c \in Tabs, NEW text \in Typed, Send(c, text) PROVE ScreenInv'
  BY <1>7, SendScreen
<1>8. ASSUME NEW text \in Texts, OtherSends(text) PROVE ScreenInv'
  BY <1>8, MoreScreen
<1> QED
  BY <1>1, <1>2, <1>3, <1>4, <1>5, <1>6, <1>7, <1>8, GoneScreen, HubReadsScreen, ReplyScreen
  DEF ConversationNext, StreamStep

\* Whatever fails, breaks or is answered late, a text is on the screen no more
\* often than it was sent, but for those of its messages there that came as
\* parts, which show beside their echoes; and one the gateway took is there
\* while none of its messages has left the window of a history that could be
\* read.
THEOREM MessagesShownOnce == ConversationSpec => []ShownOnce
<1>1. ConversationInit => ConversationInv /\ ScreenInv
  BY ConversationInvInit, ScreenInvInit
<1>2. /\ ConversationInv /\ ScreenInv
      /\ [ConversationNext]_conversationVars
      => ConversationInv' /\ ScreenInv'
  BY ConversationInvStep, ScreenInvStep
<1> QED
  BY <1>1, <1>2, ScreenInvShows, PTL DEF ConversationSpec

(***************************************************************************)
(* Names.                                                                  *)
(***************************************************************************)
LEMMA NameStep ==
  [ConversationNext]_conversationVars =>
    \/ titles.source # "manual" \/ titles'.source = "manual"
    \/ titles' = Untitled \/ titles' = file
<1> SUFFICES ASSUME [ConversationNext]_conversationVars,
                    titles.source = "manual"
             PROVE  titles'.source = "manual" \/ titles' = Untitled \/ titles' = file
  OBVIOUS
<1>1. titles # Untitled
  BY DEF Untitled
<1>2. ASSUME NEW c \in Tabs, SendStep(c) PROVE titles' = titles
  BY <1>1, <1>2
  DEF SendStep, Refused, Deliver, DeliverFails, Answer, Named, NamesIt, serverVars
<1>3. ASSUME NEW c \in Tabs, StreamStep(c) PROVE titles' = titles
  BY <1>1, <1>3 DEF StreamStep, OpenStream, Frame, Backfill, serverVars
<1>4. ASSUME NEW c \in Tabs, Rename(c) PROVE titles'.source = "manual"
  BY <1>4 DEF Rename, Store
<1>5. ASSUME NEW c \in Tabs,
             \/ \E text \in Typed : Send(c, text)
             \/ \E name \in Names : Commit(c, name)
             \/ RenameAnswer(c) \/ Leave(c) \/ Logout(c) \/ Breaks(c)
      PROVE  titles' = titles
  BY <1>5 DEF Send, Commit, RenameAnswer, Leave, Logout, Breaks, serverVars
<1>6. CASE Reset
  BY <1>6 DEF Reset, Store
<1>7. CASE Restart
  BY <1>7 DEF Restart
<1>8. CASE \/ HubReads \/ GatewayEvent \/ SessionEnds \/ Login \/ WindowEnds
           \/ \E text \in Texts : OtherSends(text)
  BY <1>8 DEF HubReads, GatewayEvent, SessionEnds, Login, WindowEnds, OtherSends, serverVars
<1>9. CASE UNCHANGED conversationVars
  BY <1>9 DEF conversationVars, serverVars
<1> QED
  BY <1>2, <1>3, <1>4, <1>5, <1>6, <1>7, <1>8, <1>9 DEF ConversationNext

\* A name given by hand is replaced by no derived one.
THEOREM ManualNamesStay == ConversationSpec => ManualStays
<1>1. [ConversationNext]_conversationVars
      => [titles.source = "manual" =>
            titles'.source = "manual" \/ titles' = Untitled \/ titles' = file]_conversationVars
  BY NameStep
<1> QED
  BY <1>1, PTL DEF ConversationSpec, ManualStays
=============================================================================
