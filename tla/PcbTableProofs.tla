--------------------------- MODULE PcbTableProofs ---------------------------
(***************************************************************************)
(* The process table is sound for every size.  A process sits where the    *)
(* probe for its pid put it, and the slots that probe passed are those     *)
(* from its home, Hash(pid), up to its own.  The argument is that these    *)
(* stretches never overlap and that no probe wraps: all other slots past   *)
(* a stretch that is in the way hold their own pids, and the last slot can *)
(* never hold its own.                                                     *)
(***************************************************************************)
EXTENDS PcbTable, NaturalLemmas

Last == PCBTABLE_SIZE - 1

(* The slots the probe for the pid in s passed.                            *)
Home(s) == Hash(pid[s])
Passed(s) == Home(s)..(s - 1)

Distinct == \A s, t \in LiveSlots : pid[s] = pid[t] => s = t

(* Everybody sits at home or behind it, with no unused slot between.       *)
BehindHome == \A s \in LiveSlots : Home(s) <= s /\ \A j \in Home(s)..s : pid[j] # EMPTY

(* Nobody was passed twice.                                                *)
Apart == \A s, t \in LiveSlots : s # t => Passed(s) \cap Passed(t) = {}

(* Until the pids have wrapped each is its slot, and the slots from        *)
(* lastPID on are unused.  Then only the last may still be.                *)
FirstRound ==
    /\ lastPID < Last
    /\ \A j \in Index : pid[j] = EMPTY <=> lastPID <= j
    /\ \A s \in LiveSlots : pid[s] = s
    /\ lastPID > 0 => pid[0] = 0

LaterRound ==
    /\ lastPID > 0 /\ pid[0] = 0
    /\ \A j \in Index : pid[j] = EMPTY => j = Last

Rounds == FirstRound \/ LaterRound

(* Every process has a stack, and a stack is given out only to one.        *)
StacksHeld ==
    /\ \A s \in LiveSlots : memLoc[s] \in 1..Blocks
    /\ allocated \subseteq {memLoc[s] : s \in LiveSlots}

StateOfSlots ==
    /\ \A s \in Index : pid[s] = EMPTY => state[s] = STOPPED
    /\ \A s \in LiveSlots : state[s] = READY <=> pid[s] # 0

TimesOfSlots ==
    /\ ticks \in Nat /\ born \in [Index -> 0..ticks]
    /\ \A s \in Accounted : runningTime[s] = TIME_SLICE * (ticks - born[s])

IInv ==
    /\ TypeOK
    /\ Distinct /\ BehindHome /\ Apart /\ Rounds
    /\ StacksHeld /\ StateOfSlots /\ TimesOfSlots

-----------------------------------------------------------------------------
LEMMA SizeFacts ==
    /\ Last \in Nat /\ Last >= 2 /\ PCBTABLE_SIZE = Last + 1
    /\ Index = 0..Last /\ Pid = 0..Last
  BY SizeAssumption DEF Last, Index, Pid

(* Every pid hashes to the slot of its number, but the last one to slot 0. *)
LEMMA HashFacts ==
    /\ \A id \in Pid : id # Last => Hash(id) = id
    /\ Hash(Last) = 0
    /\ \A id \in Pid : Hash(id) \in Index /\ Hash(id) < Last
  <1>1. \A id \in Pid : id # Last => id % Last = id
    BY SizeFacts
  <1>2. Last % Last = 0
    BY SizeFacts
  <1> QED
    BY <1>1, <1>2, SizeFacts DEF Hash, Last

LEMMA PidFacts ==
    ASSUME TypeOK
    PROVE  /\ \A s \in LiveSlots : s \in Index /\ pid[s] \in Pid
           /\ \A s \in Index : s \notin LiveSlots => pid[s] \in {EMPTY, TOMBSTONE}
           /\ EMPTY \notin Pid /\ TOMBSTONE \notin Pid /\ EMPTY # TOMBSTONE
  BY DEF TypeOK, LiveSlots, EMPTY, TOMBSTONE, Pid

(* A walk that has something to find finds the first of it.                *)
LEMMA FirstFromFacts ==
    ASSUME NEW h \in Index, NEW S \in SUBSET Walk(h), S # {}
    PROVE  FirstFrom(h, S) \in S /\ S \cap Before(h, FirstFrom(h, S)) = {}
  <1>1. S \in SUBSET Nat /\ h \in Nat /\ S \in SUBSET Index /\ (h # 0 => 0 \notin S)
    BY SizeFacts DEF Walk
  <1>2. \E i \in S : S \cap Before(h, i) = {}
    <2>1. CASE \E i \in S : h <= i
      <3>1. PICK m \in {i \in S : h <= i} : \A n \in {i \in S : h <= i} : m <= n
        BY <1>1, <2>1, Least
      <3> QED
        BY <1>1, <3>1 DEF Before
    <2>2. CASE \A i \in S : ~(h <= i)
      <3>1. PICK m \in S : \A n \in S : m <= n
        BY <1>1, Least
      <3> QED
        BY <1>1, <2>2, <3>1 DEF Before
    <2> QED
      BY <2>1, <2>2
  <1> QED
    BY <1>2 DEF FirstFrom

-----------------------------------------------------------------------------
(* A tombstone's scan meets a living pid that is behind it with no unused  *)
(* slot between.                                                           *)
LEMMA MetBehindLive ==
    ASSUME TypeOK, Distinct, NEW beyond, NEW t \in LiveSlots, NEW i \in Index, i < t,
           \A j \in i..t : pid[j] # EMPTY
    PROVE  MetBehind(i, pid[t], beyond)
  <1> DEFINE stops == {j \in (i + 1)..(PCBTABLE_SIZE - 1) : pid[j] \in {EMPTY, pid[t]}}
             first == CHOOSE j \in stops : \A k \in stops : j <= k
  <1>1. stops \in SUBSET Nat /\ t \in stops /\ stops \subseteq Index
    BY SizeFacts DEF LiveSlots, Last
  <1>2. first \in stops /\ first <= t
    BY <1>1, Least
  <1>3. PICK m \in stops : m = first /\ m <= t
    BY <1>2
  <1>4. m \in i..t
    BY <1>1, <1>3, SizeFacts
  <1>5. pid[m] = pid[t]
    BY <1>3, <1>4
  <1> QED
    BY <1>1, <1>3, <1>5 DEF MetBehind

(* The probe for a pid in use finds it.                                    *)
LEMMA ProbeLive ==
    ASSUME TypeOK, Distinct, BehindHome, NEW beyond, NEW t \in LiveSlots
    PROVE  Probe(pid[t], beyond) = NoSlot
  <1> DEFINE q == pid[t]
             h == Hash(q)
             ends == Ends(q, beyond)
             i == FirstFrom(h, ends)
  <1>1. q \in Pid /\ t \in Index /\ h \in Index /\ h <= t
    BY PidFacts, HashFacts DEF BehindHome, Home
  <1>2. t \in ends
    BY <1>1, SizeFacts DEF Ends, Walk
  <1>3. ends \in SUBSET Walk(h) /\ ends \subseteq Index
    BY DEF Ends, Walk
  <1>4. i \in ends /\ ends \cap Before(h, i) = {}
    BY <1>1, <1>2, <1>3, FirstFromFacts
  <1>5. h <= i /\ i <= t
    BY <1>1, <1>2, <1>3, <1>4, SizeFacts DEF Before
  <1>6. CASE i = t
    BY <1>2, <1>6 DEF Probe
  <1>7. CASE i < t
    <2>1. \A j \in i..t : pid[j] # EMPTY
      BY <1>1, <1>3, <1>4, <1>5, SizeFacts DEF BehindHome, Home
    <2>2. MetBehind(i, q, beyond)
      BY <1>3, <1>4, <1>7, <2>1, MetBehindLive
    <2>3. pid[i] = q
      <3>1. pid[i] # EMPTY
        BY <1>3, <1>4, <1>5, <2>1, SizeFacts
      <3>2. ends = Ends(q, beyond)
        OBVIOUS
      <3> HIDE DEF ends, i
      <3> QED
        BY <1>4, <2>2, <3>1, <3>2 DEF Ends
    <2> QED
      BY <1>2, <2>3 DEF Probe
  <1> QED
    BY <1>1, <1>3, <1>4, <1>5, <1>6, <1>7, SizeFacts

(* The pids no process has.                                                *)
Unused == {q \in Pid : \A t \in LiveSlots : pid[t] # q}

(* Behind a tombstone an unused pid is met only beyond the table.          *)
LEMMA MetBehindUnused ==
    ASSUME TypeOK, NEW beyond, NEW q \in Unused, NEW i \in Index
    PROVE  MetBehind(i, q, beyond) <=> q \in beyond /\ \A j \in (i + 1)..Last : pid[j] # EMPTY
  <1> DEFINE stops == {j \in (i + 1)..(PCBTABLE_SIZE - 1) : pid[j] \in {EMPTY, q}}
             first == CHOOSE j \in stops : \A k \in stops : j <= k
  <1>1. \A j \in Index : pid[j] # q
    BY PidFacts DEF Unused
  <1>2. stops \in SUBSET Nat /\ stops \subseteq Index /\ \A j \in stops : pid[j] = EMPTY
    BY <1>1, SizeFacts
  <1>3. CASE stops = {}
    BY <1>3 DEF MetBehind, Last
  <1>4. CASE stops # {}
    <2>1. first \in stops
      BY <1>2, <1>4, Least
    <2>2. pid[first] # q
      BY <1>1, <1>2, <2>1
    <2>3. \E j \in (i + 1)..Last : pid[j] = EMPTY
      BY <1>2, <1>4 DEF Last
    <2> QED
      BY <1>4, <2>2, <2>3 DEF MetBehind
  <1> QED
    BY <1>3, <1>4

(* The probe for an unused pid takes a slot that nobody holds, and passes  *)
(* only slots that somebody holds: it stops at the first tombstone, or it  *)
(* stops at none.                                                          *)
LEMMA ProbeUnused ==
    ASSUME TypeOK, Rounds, NEW beyond, NEW q \in Unused, Probe(q, beyond) # Endless
    PROVE  /\ Probe(q, beyond) \in Walk(Hash(q)) \ LiveSlots
           /\ Before(Hash(q), Probe(q, beyond)) \subseteq LiveSlots
  <1> DEFINE h == Hash(q)
             ends == Ends(q, beyond)
  <1>1. q \in Pid /\ h \in Index /\ \A j \in Index : pid[j] # q
    BY PidFacts, HashFacts DEF Unused
  <1>2. ends # {} /\ ends \in SUBSET Walk(h) /\ Walk(h) \subseteq Index
    BY DEF Probe, Ends, Walk
  <1>3. PICK i \in ends : i = FirstFrom(h, ends) /\ ends \cap Before(h, i) = {}
    BY <1>1, <1>2, FirstFromFacts
  <1>4. i \in Walk(h) /\ i \in Index /\ Probe(q, beyond) = i
    BY <1>1, <1>2, <1>3 DEF Probe
  <1>5. pid[i] = EMPTY \/ (pid[i] = TOMBSTONE /\ ~MetBehind(i, q, beyond))
    <2>1. i \in Ends(q, beyond) /\ pid[i] # q
      BY <1>1, <1>3, <1>4
    <2> QED
      BY <2>1 DEF Ends
  <1>6. i \notin LiveSlots
    BY <1>5 DEF LiveSlots
  <1>7. ASSUME NEW j \in Before(h, i), j \notin LiveSlots
        PROVE  FALSE
    <2>1. j \in Walk(h) /\ j \in Index /\ j \notin ends
      BY <1>1, <1>3, <1>4, SizeFacts DEF Before, Walk
    <2>2. pid[j] # EMPTY /\ pid[j] = TOMBSTONE /\ MetBehind(j, q, beyond)
      BY <1>7, <2>1 DEF Ends, LiveSlots
    <2>3. q \in beyond /\ \A e \in (j + 1)..Last : pid[e] # EMPTY
      BY <2>1, <2>2, MetBehindUnused
    <2>4. \E e \in Index : pid[e] = EMPTY
      BY <1>4, <1>5, <2>3, MetBehindUnused, SizeFacts
    <2>5. pid[Last] = EMPTY
      BY <2>4, SizeFacts DEF Rounds, FirstRound, LaterRound, TypeOK
    <2> QED
      BY <2>1, <2>2, <2>3, <2>5, SizeFacts
  <1> QED
    BY <1>4, <1>6, <1>7

(* getFreePCBIndex gives back the pid -1 only for one in use.              *)
LEMMA ProbeNoSlot ==
    ASSUME TypeOK, Distinct, BehindHome, Rounds, NEW beyond, NEW q \in Pid
    PROVE  Probe(q, beyond) # NoSlot <=> q \in Unused
  <1>1. CASE q \in Unused
    <2>1. Probe(q, beyond) # Endless => Probe(q, beyond) \in Index
      BY <1>1, ProbeUnused DEF Walk
    <2> QED
      BY <1>1, <2>1, SizeFacts DEF NoSlot, Endless
  <1>2. CASE q \notin Unused
    BY <1>2, ProbeLive DEF Unused
  <1> QED
    BY <1>1, <1>2

-----------------------------------------------------------------------------
(* Two pids with the same home, other than slot 0, are the same.           *)
LEMMA SameHome ==
    ASSUME NEW a \in Pid, NEW b \in Pid, Hash(a) = Hash(b), Hash(a) # 0
    PROVE  a = b
  BY HashFacts

(* Where a run of slots from h on is held, h by somebody from before it,   *)
(* and nobody behind h is at home there, all behind h are at home.         *)
LEMMA AllAtHome ==
    ASSUME TypeOK, Distinct, BehindHome, Apart, NEW h \in Index, NEW e \in Index,
           h..e \subseteq LiveSlots,
           \A t \in LiveSlots : t > h => Home(t) # h,
           h > 0 => Home(h) # h
    PROVE  \A t \in (h + 1)..e : Home(t) = t
  <1> DEFINE bad == {t \in (h + 1)..e : Home(t) # t}
  <1> SUFFICES ASSUME bad # {} PROVE FALSE
    OBVIOUS
  <1>1. bad \in SUBSET Nat /\ h \in Nat /\ e \in Nat
    BY SizeFacts
  <1>2. PICK t \in bad : \A u \in bad : t <= u
    BY <1>1, Least
  <1>3. t \in LiveSlots /\ t \in Nat /\ h < t /\ t <= e /\ h \in LiveSlots
    BY <1>1
  <1>4. \A s \in LiveSlots : Home(s) \in Nat /\ Home(s) <= s
    <2>1. \A s \in LiveSlots : Home(s) \in Index
      BY PidFacts, HashFacts DEF Home
    <2> QED
      BY <2>1, SizeFacts DEF BehindHome
  <1>5. Home(t) \in Nat /\ Home(t) < t /\ Home(t) # h
    BY <1>3, <1>4
  <1>6. Home(t) > h
    <2> SUFFICES ASSUME Home(t) < h PROVE FALSE
      BY <1>1, <1>5
    <2>1. h > 0 /\ Home(h) < h /\ Home(h) \in Nat
      BY <1>1, <1>3, <1>4, <1>5
    <2>2. h - 1 \in Passed(h) /\ h - 1 \in Passed(t)
      BY <1>1, <1>3, <1>5, <2>1 DEF Passed
    <2> QED
      BY <1>1, <1>3, <2>2 DEF Apart
  <1> DEFINE u == Home(t)
  <1>7. u \in LiveSlots /\ u \in (h + 1)..e /\ u # t
    BY <1>1, <1>3, <1>5, <1>6
  <1>8. Home(u) # u
    BY <1>1, <1>7, PidFacts, SameHome DEF Home, Distinct
  <1> QED
    BY <1>2, <1>5, <1>7, <1>8

(* A pid that is given out after the first round sits behind its home, and *)
(* its stretch meets no other.                                             *)
LEMMA Placement ==
    ASSUME TypeOK, Distinct, BehindHome, Apart, LaterRound, NEW beyond,
           NEW q \in Unused, Probe(q, beyond) # Endless
    PROVE  /\ Hash(q) <= Probe(q, beyond)
           /\ Hash(q)..(Probe(q, beyond) - 1) \subseteq LiveSlots
           /\ \A t \in LiveSlots : Passed(t) \cap (Hash(q)..(Probe(q, beyond) - 1)) = {}
  <1> DEFINE h == Hash(q)
             s == Probe(q, beyond)
  <1>1. /\ s \in Walk(h) /\ s \in Index /\ s \notin LiveSlots /\ Before(h, s) \subseteq LiveSlots
        /\ q \in Pid /\ h \in Index /\ h < Last /\ h \in Nat /\ s \in Nat
    BY ProbeUnused, HashFacts, SizeFacts DEF Walk, Unused, Rounds
  <1> HIDE DEF h, s
  <1>2. 0 \in LiveSlots /\ pid[0] = 0 /\ q # 0
    BY SizeFacts DEF LaterRound, LiveSlots, Unused, TOMBSTONE
  <1>3. \A t \in LiveSlots : t # 0 => Home(t) # h
    <2> SUFFICES ASSUME NEW t \in LiveSlots, t # 0, Home(t) = h PROVE FALSE
      OBVIOUS
    <2>1. pid[t] \in Pid /\ pid[t] # q /\ pid[t] # 0
      BY <1>2, PidFacts DEF Distinct, Unused
    <2> QED
      BY <1>1, <1>2, <2>1, HashFacts DEF Home, h
  <1>4. \A t \in LiveSlots : Home(t) \in Nat /\ Home(t) <= t /\ Home(t) < Last /\ t \in Nat
    <2>1. \A t \in LiveSlots : Home(t) \in Index /\ t \in Index /\ Home(t) < Last
      BY PidFacts, HashFacts DEF Home
    <2> QED
      BY <2>1, SizeFacts DEF BehindHome
  <1>5. h <= s
    <2> SUFFICES ASSUME s < h PROVE FALSE
      BY <1>1
    <2>1. h..Last \subseteq LiveSlots /\ Last \in (h + 1)..Last
      BY <1>1, SizeFacts DEF Before, Last
    <2>2. \A t \in (h + 1)..Last : Home(t) = t
      BY <1>1, <1>3, <2>1, AllAtHome, SizeFacts
    <2> QED
      BY <1>1, <1>4, <2>1, <2>2, SizeFacts
  <1>6. h..(s - 1) \subseteq LiveSlots
    BY <1>1, <1>5 DEF Before
  <1>7. ASSUME NEW t \in LiveSlots, NEW x \in Passed(t), x \in h..(s - 1)
        PROVE  FALSE
    <2>1. /\ t \in Nat /\ Home(t) \in Nat /\ x \in Nat /\ Home(t) <= x /\ x < t
          /\ h <= x /\ x < s /\ h \in LiveSlots /\ t # s /\ t # 0
      BY <1>1, <1>4, <1>6, <1>7 DEF Passed
    <2>2. \A u \in (h + 1)..(s - 1) : Home(u) = u
      <3>1. s - 1 \in Index /\ h..(s - 1) \subseteq LiveSlots
        BY <1>1, <1>6, <2>1, SizeFacts
      <3>2. (\A v \in LiveSlots : v > h => Home(v) # h) /\ (h > 0 => Home(h) # h)
        BY <1>1, <1>3, <1>4, <2>1
      <3> QED
        BY <1>1, <3>1, <3>2, AllAtHome
    <2>3. s < t
      BY <1>1, <2>1, <2>2
    <2>4. Home(t) # h
      BY <1>3, <2>1
    <2>5. CASE h < Home(t)
      <3> DEFINE u == Home(t)
      <3>1. u \in LiveSlots /\ u # t /\ u # 0 /\ Home(u) = u
        BY <1>1, <1>6, <2>1, <2>2, <2>5
      <3> QED
        BY <3>1, PidFacts, SameHome DEF Home, Distinct
    <2>6. CASE Home(t) < h
      <3>1. h # 0 /\ Home(h) < h /\ Home(h) \in Nat
        BY <1>1, <1>3, <1>4, <2>1, <2>6
      <3>2. h - 1 \in Passed(h) /\ h - 1 \in Passed(t)
        BY <1>1, <2>1, <2>6, <3>1 DEF Passed
      <3> QED
        BY <2>1, <3>2 DEF Apart
    <2> QED
      BY <1>1, <2>1, <2>4, <2>5, <2>6
  <1> QED
    BY <1>5, <1>6, <1>7 DEF h, s

-----------------------------------------------------------------------------
LEMMA WrapFacts ==
    ASSUME TypeOK, Rounds
    PROVE  /\ Wrap(lastPID) \in Index
           /\ FirstRound => Wrap(lastPID) = lastPID
           /\ LaterRound => Wrap(lastPID) # 0
  BY SizeFacts DEF TypeOK, FirstRound, LaterRound, Wrap

(* getFreePCBIndex gives an unused pid and what the probe for it gives, or *)
(* there is no unused pid to be met.                                       *)
LEMMA GetFree ==
    ASSUME TypeOK, Distinct, BehindHome, Rounds, NEW beyond
    PROVE  \/ /\ GetFreePCBIndex(beyond)[2] = NoSlot
              /\ Walk(Wrap(lastPID)) \cap Unused = {}
           \/ \E q \in Unused \cap Walk(Wrap(lastPID)) :
                /\ GetFreePCBIndex(beyond) = <<q, Probe(q, beyond)>>
                /\ Probe(q, beyond) # NoSlot
                /\ Unused \cap Before(Wrap(lastPID), q) \cap Walk(Wrap(lastPID)) = {}
  <1> DEFINE first == Wrap(lastPID)
             free == NotInUse(first, beyond)
  <1>1. first \in Index
    BY WrapFacts
  <1> HIDE DEF first
  <1>2. Walk(first) \subseteq Pid /\ free \in SUBSET Walk(first)
    BY DEF Walk, NotInUse, Index, Pid
  <1>3. free = Walk(first) \cap Unused
    BY <1>2, ProbeNoSlot DEF NotInUse, Unused
  <1>4. GetFreePCBIndex(beyond) = FreeFrom(first, beyond)
    BY DEF GetFreePCBIndex, first
  <1>5. CASE free = {}
    BY <1>3, <1>4, <1>5 DEF FreeFrom, first
  <1>6. CASE free # {}
    <2>1. PICK q \in free : q = FirstFrom(first, free) /\ free \cap Before(first, q) = {}
      BY <1>1, <1>2, <1>6, FirstFromFacts
    <2>2. GetFreePCBIndex(beyond) = <<q, Probe(q, beyond)>>
      BY <1>4, <1>6, <2>1 DEF FreeFrom
    <2>3. Probe(q, beyond) # NoSlot
      BY <2>1 DEF NotInUse
    <2> QED
      BY <1>3, <2>1, <2>2, <2>3 DEF first
  <1> QED
    BY <1>5, <1>6

LEMMA FirstIsHead ==
    ASSUME NEW h \in Index, NEW S \in SUBSET Walk(h), h \in S
    PROVE  FirstFrom(h, S) = h
  <1>1. FirstFrom(h, S) \in S /\ S \cap Before(h, FirstFrom(h, S)) = {}
    BY FirstFromFacts
  <1>2. FirstFrom(h, S) \in Index
    BY <1>1 DEF Walk
  <1>3. \A i \in Index : i # h => h \in Before(h, i)
    BY SizeFacts DEF Before
  <1> QED
    BY <1>1, <1>2, <1>3

(* In the first round the pid is lastPID and so is the slot.               *)
LEMMA FirstRoundFree ==
    ASSUME TypeOK, Distinct, BehindHome, FirstRound, NEW beyond
    PROVE  /\ GetFreePCBIndex(beyond) = <<lastPID, lastPID>>
           /\ lastPID \in Unused /\ Hash(lastPID) = lastPID /\ lastPID \in Index \ LiveSlots
  <1> DEFINE q == lastPID
  <1>1. q \in Index /\ q \in Pid /\ q # Last /\ q \notin LiveSlots /\ pid[q] = EMPTY
    BY SizeFacts DEF TypeOK, FirstRound, LiveSlots
  <1>2. Hash(q) = q /\ Wrap(q) = q /\ q \in Walk(q)
    BY <1>1, HashFacts, WrapFacts DEF Walk, Rounds
  <1>3. q \in Unused
    BY <1>1 DEF Unused, FirstRound
  <1>4. Probe(q, beyond) = q
    <2>1. q \in Ends(q, beyond) /\ Ends(q, beyond) \in SUBSET Walk(q)
      BY <1>1, <1>2 DEF Ends
    <2>2. FirstFrom(q, Ends(q, beyond)) = q
      BY <1>1, <2>1, FirstIsHead
    <2>3. pid[q] # q
      BY <1>1, PidFacts
    <2> QED
      BY <1>2, <2>1, <2>2, <2>3 DEF Probe
  <1>5. q \in NotInUse(q, beyond) /\ NotInUse(q, beyond) \in SUBSET Walk(q)
    BY <1>1, <1>2, <1>3, ProbeNoSlot DEF NotInUse, Rounds
  <1>6. FirstFrom(q, NotInUse(q, beyond)) = q
    BY <1>1, <1>5, FirstIsHead
  <1> QED
    BY <1>1, <1>2, <1>3, <1>4, <1>5, <1>6 DEF GetFreePCBIndex, FreeFrom

(* What findFreePcb finds: a pid that is unused and a slot that is free,   *)
(* behind the pid's home and with nothing but other processes between.     *)
Placeable(q, s) ==
    /\ q \in Unused /\ s \in Index \ LiveSlots
    /\ Hash(q) <= s /\ Hash(q)..(s - 1) \subseteq LiveSlots
    /\ \A t \in LiveSlots : Passed(t) \cap (Hash(q)..(s - 1)) = {}
    /\ FirstRound => q = lastPID /\ s = lastPID
    /\ LaterRound => q # 0

LEMMA FreeIsPlaceable ==
    ASSUME TypeOK, Distinct, BehindHome, Apart, Rounds, NEW beyond,
           GetFreePCBIndex(beyond)[2] \notin {NoSlot, Endless}
    PROVE  Placeable(GetFreePCBIndex(beyond)[1], GetFreePCBIndex(beyond)[2])
  <1>1. CASE FirstRound
    <2>1. GetFreePCBIndex(beyond)[1] = lastPID /\ GetFreePCBIndex(beyond)[2] = lastPID
      BY <1>1, FirstRoundFree
    <2>2. lastPID..(lastPID - 1) = {} /\ lastPID <= lastPID /\ (LaterRound => lastPID # 0)
      BY SizeFacts DEF TypeOK, LaterRound
    <2> QED
      BY <1>1, <2>1, <2>2, FirstRoundFree DEF Placeable
  <1>2. CASE ~FirstRound
    <2>1. LaterRound
      BY <1>2 DEF Rounds
    <2>2. PICK q \in Unused : GetFreePCBIndex(beyond) = <<q, Probe(q, beyond)>>
      BY GetFree
    <2>3. Probe(q, beyond) # Endless
      BY <2>2
    <2>4. Probe(q, beyond) \in Index \ LiveSlots
      BY <2>3, ProbeUnused DEF Walk
    <2>5. q # 0
      BY <2>1, SizeFacts DEF LaterRound, Unused, LiveSlots, TOMBSTONE
    <2> QED
      BY <1>2, <2>1, <2>2, <2>4, <2>5, Placement DEF Placeable
  <1> QED
    BY <1>1, <1>2

(* As long as a slot is free there is one to be had: always if the memory  *)
(* behind the table holds no pid, or if a slot was never used.             *)
LEMMA LiveCount ==
    ASSUME TypeOK, NEW S \in SUBSET Index
    PROVE  /\ IsFiniteSet(S) /\ IsFiniteSet(Index) /\ Cardinality(Index) = PCBTABLE_SIZE
           /\ Cardinality(S) \in Nat /\ Cardinality(S) <= PCBTABLE_SIZE
           /\ Cardinality(S) = PCBTABLE_SIZE => S = Index
  <1>1. IsFiniteSet(Index) /\ Cardinality(Index) = PCBTABLE_SIZE
    BY SizeFacts, FS_Interval
  <1> QED
    BY <1>1, FS_Subset, FS_CardinalityType

LEMMA FreeExists ==
    ASSUME TypeOK, Distinct, BehindHome, Rounds, NEW beyond, numRunning < PCBTABLE_SIZE,
           beyond = {} \/ \E j \in Index : pid[j] = EMPTY
    PROVE  GetFreePCBIndex(beyond)[2] \in Index
  <1>1. CASE FirstRound
    BY <1>1, FirstRoundFree
  <1>2. CASE ~FirstRound
    <2>0. LaterRound
      BY <1>2 DEF Rounds
    <2>1. PICK q \in Unused : q # 0
      <3> SUFFICES ASSUME Unused \subseteq {0} PROVE FALSE
        OBVIOUS
      <3>1. Index = {pid[s] : s \in LiveSlots}
        BY <2>0, SizeFacts, PidFacts DEF Unused, LaterRound
      <3> DEFINE f == [s \in LiveSlots |-> pid[s]]
      <3>2. f \in Surjection(LiveSlots, Index)
        BY <3>1 DEF Surjection
      <3>3. Cardinality(Index) <= Cardinality(LiveSlots)
        BY <3>2, LiveCount, FS_Surjection DEF LiveSlots
      <3> QED
        BY <3>3, LiveCount, SizeFacts DEF TypeOK, LiveSlots
    <2>2. q \in Walk(Wrap(lastPID))
      BY <2>1 DEF Walk, Unused, Index, Pid
    <2>3. PICK p \in Unused : GetFreePCBIndex(beyond) = <<p, Probe(p, beyond)>>
      BY <2>1, <2>2, GetFree
    <2>4. PICK i \in Index : i \notin LiveSlots /\ i \in Ends(p, beyond)
      <3>1. Index \ {0} \subseteq Walk(Hash(p)) /\ 0 \in LiveSlots
        BY <2>0, SizeFacts DEF Walk, LaterRound, LiveSlots, TOMBSTONE
      <3>2. CASE \E j \in Index : pid[j] = EMPTY
        <4>1. PICK j \in Index : pid[j] = EMPTY
          BY <3>2
        <4> QED
          BY <3>1, <4>1 DEF Ends, LiveSlots
      <3>3. CASE beyond = {}
        <4>1. PICK i \in Index : i \notin LiveSlots
          <5>1. numRunning = Cardinality(LiveSlots) /\ numRunning < Cardinality(Index)
            BY LiveCount DEF TypeOK
          <5>2. LiveSlots # Index
            BY <5>1, LiveCount, SizeFacts
          <5> QED
            BY <5>2 DEF LiveSlots
        <4>2. ~MetBehind(i, p, beyond)
          BY <3>3, MetBehindUnused
        <4> QED
          BY <3>1, <4>1, <4>2 DEF Ends, LiveSlots
      <3> QED
        BY <3>2, <3>3
    <2>5. Probe(p, beyond) # Endless
      <3> DEFINE e == FirstFrom(Hash(p), Ends(p, beyond))
      <3>1. e \in Index
        BY <2>4, HashFacts, FirstFromFacts DEF Ends, Walk, Unused
      <3> QED
        BY <2>4, <3>1, SizeFacts DEF Probe, NoSlot, Endless
    <2> QED
      BY <2>3, <2>5, ProbeUnused DEF Walk
  <1> QED
    BY <1>1, <1>2

-----------------------------------------------------------------------------
(* A slot that is filled with a pid placed there joins the living.         *)
LEMMA Filled ==
    ASSUME TypeOK, Distinct, BehindHome, Apart, NEW q, NEW s, Placeable(q, s),
           pid' = [pid EXCEPT ![s] = q]
    PROVE  LiveSlots' = LiveSlots \cup {s} /\ Distinct' /\ BehindHome' /\ Apart'
  <1>1. s \in Index /\ s \notin LiveSlots /\ q \in Pid /\ s \in Nat /\ Hash(q) \in Nat
    BY HashFacts, SizeFacts DEF Placeable, Unused
  <1>2. \A j \in Index : pid'[j] = IF j = s THEN q ELSE pid[j]
    BY <1>1 DEF TypeOK
  <1>3. LiveSlots' = LiveSlots \cup {s}
    BY <1>1, <1>2, PidFacts DEF LiveSlots
  <1>4. Distinct'
    BY <1>3, PidFacts DEF Distinct, Placeable, Unused
  <1>5. /\ Home(s)' = Hash(q) /\ Passed(s)' = Hash(q)..(s - 1)
        /\ \A t \in LiveSlots : Home(t)' = Home(t) /\ Passed(t)' = Passed(t)
    <2>1. Home(s)' = Hash(q) /\ \A t \in LiveSlots : Home(t)' = Home(t)
      BY <1>1, <1>2, PidFacts DEF Home, Hash
    <2> QED
      BY <2>1 DEF Passed
  <1>6. BehindHome'
    <2>1. \A j \in Hash(q)..s : pid'[j] # EMPTY
      BY <1>1, <1>2, PidFacts DEF Placeable
    <2>2. \A t \in LiveSlots : t \in Nat /\ Home(t) \in Nat
      BY PidFacts, HashFacts, SizeFacts DEF Home
    <2>3. \A t \in LiveSlots : \A j \in Home(t)..t : j \in Index
      BY <2>2, PidFacts, SizeFacts
    <2>4. \A t \in LiveSlots : \A j \in Home(t)..t : pid'[j] # EMPTY
      BY <1>1, <1>2, <2>3, PidFacts DEF BehindHome
    <2> QED
      BY <1>3, <1>5, <2>1 DEF BehindHome, Placeable
  <1>7. Apart'
    BY <1>1, <1>3, <1>5 DEF Apart, Placeable
  <1> QED
    BY <1>3, <1>4, <1>6, <1>7

(* A slot that is left to a tombstone leaves the others where they were.   *)
LEMMA Vacated ==
    ASSUME TypeOK, Distinct, BehindHome, Apart, NEW s \in Index,
           pid' = [pid EXCEPT ![s] = TOMBSTONE]
    PROVE  LiveSlots' = LiveSlots \ {s} /\ Distinct' /\ BehindHome' /\ Apart'
  <1>1. \A j \in Index : pid'[j] = IF j = s THEN TOMBSTONE ELSE pid[j]
    BY DEF TypeOK
  <1>2. LiveSlots' = LiveSlots \ {s}
    BY <1>1 DEF LiveSlots
  <1>3. \A t \in LiveSlots' : Home(t)' = Home(t) /\ Passed(t)' = Passed(t) /\ pid'[t] = pid[t]
    <2>1. \A t \in LiveSlots' : Home(t)' = Home(t) /\ pid'[t] = pid[t]
      BY <1>1, <1>2, PidFacts DEF Home, Hash
    <2> QED
      BY <2>1 DEF Passed
  <1>4. Distinct' /\ Apart'
    BY <1>2, <1>3 DEF Distinct, Apart
  <1>5. BehindHome'
    <2>1. \A t \in LiveSlots : t \in Nat /\ Home(t) \in Nat
      BY PidFacts, HashFacts, SizeFacts DEF Home
    <2>2. \A t \in LiveSlots : \A j \in Home(t)..t : j \in Index
      BY <2>1, PidFacts, SizeFacts
    <2>3. \A t \in LiveSlots : \A j \in Home(t)..t : pid'[j] # EMPTY
      BY <1>1, <2>2, PidFacts DEF BehindHome
    <2> QED
      BY <1>2, <1>3, <2>3 DEF BehindHome
  <1> QED
    BY <1>2, <1>4, <1>5

(* The walk of getPcb for the pid of a living process finds it.            *)
LEMMA GetPcbFinds ==
    ASSUME TypeOK, Distinct, BehindHome, NEW s \in LiveSlots
    PROVE  GetPcb(pid[s]) = s
  <1> DEFINE found == {t \in Hash(pid[s])..(PCBTABLE_SIZE - 1) :
                         pid[t] = pid[s] /\ \A j \in (Hash(pid[s]) + 1)..t : pid[j] # EMPTY}
  <1>1. /\ s \in Index /\ s \in Nat /\ Hash(pid[s]) \in Nat /\ Hash(pid[s]) <= s
        /\ pid[s] \in Pid /\ \A j \in Hash(pid[s])..s : pid[j] # EMPTY
    BY PidFacts, HashFacts, SizeFacts DEF BehindHome, Home
  <1>2. s \in found
    BY <1>1, SizeFacts
  <1>3. \A t \in found : t = s
    BY <1>1, SizeFacts, PidFacts DEF Distinct
  <1>4. found = {s}
    BY <1>2, <1>3
  <1> QED
    BY <1>1, <1>4 DEF GetPcb

-----------------------------------------------------------------------------
LEMMA InitStep == Init => IInv
  <1> SUFFICES ASSUME Init PROVE IInv
    OBVIOUS
  <1>1. LiveSlots = {} /\ Accounted = {}
    BY DEF Init, LiveSlots, Accounted
  <1>2. TypeOK
    BY <1>1, SizeAssumption, FS_EmptySet DEF Init, TypeOK
  <1>3. Distinct /\ BehindHome /\ Apart
    BY <1>1 DEF Distinct, BehindHome, Apart
  <1>4. Rounds
    BY <1>1, SizeFacts DEF Init, Rounds, FirstRound
  <1>5. StacksHeld /\ StateOfSlots /\ TimesOfSlots
    BY <1>1 DEF Init, StacksHeld, StateOfSlots, TimesOfSlots
  <1> QED
    BY <1>2, <1>3, <1>4, <1>5 DEF IInv

(* What create does when it gets to a slot.                                *)
LEMMA CreateCases ==
    ASSUME IInv, NEW beyond, Create(beyond), ~Fail(GetFreePCBIndex(beyond)[2])
    PROVE  \E q, s : /\ Placeable(q, s)
                     /\ \/ \E b \in 1..Blocks \ allocated : Take(q, s, b)
                        \/ 1..Blocks \subseteq allocated /\ GiveBack(q, s)
  <1> DEFINE free == GetFreePCBIndex(beyond)
             room == 1..Blocks \ allocated
             b == CHOOSE x \in room : \A c \in room : x <= c
  <1>1. free[2] \notin {NoSlot, Endless}
    BY DEF Create, NoSlot, Endless
  <1>2. Placeable(free[1], free[2])
    BY <1>1, FreeIsPlaceable DEF IInv
  <1>3. CASE room = {}
    BY <1>2, <1>3 DEF Create
  <1>4. CASE room # {}
    <2>1. room \in SUBSET Nat
      BY SizeAssumption
    <2>2. b \in room
      BY <1>4, <2>1, Least
    <2>3. Take(free[1], free[2], b)
      BY <1>4 DEF Create
    <2> QED
      BY <1>2, <2>2, <2>3
  <1> QED
    BY <1>3, <1>4

LEMMA TakeStep ==
    ASSUME IInv, NEW q, NEW s, Placeable(q, s), NEW b \in 1..Blocks \ allocated, Take(q, s, b)
    PROVE  IInv'
  <1> USE DEF IInv
  <1>1. /\ q \in Pid /\ s \in Index /\ s \notin LiveSlots
        /\ pid' = [pid EXCEPT ![s] = q] /\ lastPID' = q + 1
    BY DEF Placeable, Unused, Take
  <1>2. LiveSlots' = LiveSlots \cup {s} /\ Distinct' /\ BehindHome' /\ Apart'
    BY <1>1, Filled
  <1>3. /\ \A j \in Index : pid'[j] = IF j = s THEN q ELSE pid[j]
        /\ \A j \in Index : memLoc'[j] = IF j = s THEN b ELSE memLoc[j]
    BY <1>1 DEF TypeOK, Take
  <1>4. TypeOK'
    <2>1. pid' \in [Index -> Pid \cup {EMPTY, TOMBSTONE}] /\ lastPID' \in 0..PCBTABLE_SIZE
      BY <1>1, SizeFacts DEF TypeOK
    <2>2. /\ state' \in [Index -> {STOPPED, READY}]
          /\ memLoc' \in [Index -> 1..Blocks \cup {EMPTY}]
          /\ runningTime' \in [Index -> Nat \cup {EMPTY}]
          /\ allocated' \subseteq 1..Blocks
      BY DEF TypeOK, Take
    <2>3. numRunning' = Cardinality(LiveSlots')
      <3>1. LiveSlots \in SUBSET Index
        BY DEF LiveSlots
      <3>2. Cardinality(LiveSlots \cup {s}) = Cardinality(LiveSlots) + 1
        BY <1>1, <3>1, LiveCount, FS_AddElement
      <3> QED
        BY <1>2, <3>2 DEF TypeOK, Take
    <2> QED
      BY <2>1, <2>2, <2>3 DEF TypeOK
  <1>5. Rounds'
    <2>1. CASE FirstRound
      <3>1. q = lastPID /\ s = lastPID /\ lastPID \in Nat
        BY <2>1, SizeFacts DEF Placeable, TypeOK
      <3>2. pid'[0] = 0
        BY <1>3, <2>1, <3>1, SizeFacts DEF FirstRound
      <3>3. \A j \in Index : pid'[j] = EMPTY <=> lastPID' <= j
        BY <1>1, <1>3, <2>1, <3>1, PidFacts DEF FirstRound
      <3>4. \A t \in LiveSlots' : pid'[t] = t
        BY <1>1, <1>2, <1>3, <2>1, <3>1 DEF FirstRound
      <3> QED
        BY <1>1, <3>2, <3>3, <3>4, SizeFacts DEF FirstRound, LaterRound, Rounds
    <2>2. CASE LaterRound
      <3>1. pid'[0] = 0
        BY <1>1, <2>2, SizeFacts DEF LaterRound, LiveSlots, TOMBSTONE
      <3> QED
        BY <1>1, <2>2, SizeFacts, PidFacts DEF LaterRound, Rounds
    <2> QED
      BY <2>1, <2>2 DEF Rounds
  <1>6. StacksHeld'
    <2>1. \A t \in LiveSlots' : memLoc'[t] \in 1..Blocks
      BY <1>1, <1>2, <1>3, PidFacts DEF StacksHeld
    <2>2. allocated' \subseteq {memLoc'[t] : t \in LiveSlots'}
      <3>1. ASSUME NEW c \in allocated
            PROVE  c \in {memLoc'[t] : t \in LiveSlots'}
        <4>1. PICK t \in LiveSlots : c = memLoc[t]
          BY DEF StacksHeld
        <4>2. t \in LiveSlots' /\ memLoc'[t] = c
          BY <1>1, <1>2, <1>3, <4>1, PidFacts
        <4> QED
          BY <4>2
      <3>2. b \in {memLoc'[t] : t \in LiveSlots'}
        BY <1>1, <1>2, <1>3
      <3> QED
        BY <3>1, <3>2 DEF Take
    <2> QED
      BY <2>1, <2>2 DEF StacksHeld
  <1>7. StateOfSlots'
    <2>1. q = 0 => pid[s] = EMPTY
      BY DEF Placeable, Rounds, FirstRound
    <2>2. \A j \in Index : state'[j] = IF j = s /\ q # 0 THEN READY ELSE state[j]
      BY <1>1 DEF TypeOK, Take
    <2>3. STOPPED # READY /\ q # EMPTY
      BY <1>1, SizeFacts DEF STOPPED, READY, EMPTY
    <2>4. \A j \in Index : pid'[j] = EMPTY => state'[j] = STOPPED
      BY <1>3, <2>2, <2>3 DEF StateOfSlots
    <2>5. \A t \in LiveSlots' : state'[t] = READY <=> pid'[t] # 0
      BY <1>1, <1>2, <1>3, <2>1, <2>2, <2>3, PidFacts DEF StateOfSlots
    <2> QED
      BY <2>4, <2>5 DEF StateOfSlots
  <1>8. TimesOfSlots'
    <2>1. /\ ticks' = ticks /\ ticks \in Nat
          /\ born' = [born EXCEPT ![s] = ticks] /\ born' \in [Index -> 0..ticks']
      BY <1>1 DEF Take, TimesOfSlots
    <2>2. \A t \in Accounted' : t # s => t \in Accounted
      BY <1>1, <1>3 DEF Take, TypeOK, Accounted
    <2>3. \A t \in Index : t # s => runningTime'[t] = runningTime[t] /\ born'[t] = born[t]
      BY <1>1 DEF Take, TypeOK, TimesOfSlots
    <2>4. runningTime'[s] = 0 /\ born'[s] = ticks /\ TIME_SLICE * (ticks - ticks) = 0
      BY <2>1, SizeAssumption DEF Take, TypeOK
    <2>5. \A t \in Accounted' : runningTime'[t] = TIME_SLICE * (ticks' - born'[t])
      BY <2>1, <2>2, <2>3, <2>4 DEF TimesOfSlots, Accounted
    <2> QED
      BY <2>1, <2>5 DEF TimesOfSlots
  <1> QED
    BY <1>2, <1>4, <1>5, <1>6, <1>7, <1>8

(* A slot given back for want of a stack was nobody's and is nobody's.     *)
LEMMA GiveBackStep ==
    ASSUME IInv, NEW q, NEW s, Placeable(q, s), 1..Blocks \subseteq allocated, GiveBack(q, s)
    PROVE  IInv'
  <1> USE DEF IInv
  <1>1. /\ q \in Pid /\ s \in Index /\ s \notin LiveSlots
        /\ pid' = [pid EXCEPT ![s] = TOMBSTONE] /\ lastPID' = q + 1
        /\ UNCHANGED <<memLoc, state, runningTime, ticks, born, numRunning>>
    BY DEF Placeable, Unused, GiveBack, Removed
  <1>2. LiveSlots' = LiveSlots /\ Distinct' /\ BehindHome' /\ Apart'
    BY <1>1, Vacated
  <1>3. \A j \in Index : pid'[j] = IF j = s THEN TOMBSTONE ELSE pid[j]
    BY <1>1 DEF TypeOK
  <1>4. TypeOK'
    <2>1. pid' \in [Index -> Pid \cup {EMPTY, TOMBSTONE}] /\ lastPID' \in 0..PCBTABLE_SIZE
      BY <1>1, SizeFacts DEF TypeOK
    <2>2. allocated' \subseteq 1..Blocks
      BY DEF TypeOK, GiveBack, Removed
    <2> QED
      BY <1>1, <1>2, <2>1, <2>2 DEF TypeOK
  <1>5. 0 \in LiveSlots /\ pid[0] = 0 /\ s # 0
    <2>1. PICK t : t \in LiveSlots
      BY SizeAssumption DEF StacksHeld
    <2>2. pid[0] = 0
      BY <2>1, SizeFacts, PidFacts DEF Rounds, FirstRound, LaterRound, TypeOK
    <2> QED
      BY <1>1, <2>2, SizeFacts DEF LiveSlots, EMPTY, TOMBSTONE
  <1>6. Rounds'
    <2>1. CASE FirstRound
      <3>1. q = lastPID /\ s = lastPID /\ lastPID \in Nat
        BY <2>1, SizeFacts DEF Placeable, TypeOK
      <3>2. \A j \in Index : pid'[j] = EMPTY <=> lastPID' <= j
        BY <1>1, <1>3, <2>1, <3>1, PidFacts DEF FirstRound
      <3>3. \A t \in LiveSlots' : pid'[t] = t
        BY <1>1, <1>2, <2>1 DEF FirstRound
      <3>4. pid'[0] = 0
        BY <1>3, <1>5, SizeFacts
      <3> QED
        BY <1>1, <3>2, <3>3, <3>4, SizeFacts DEF FirstRound, LaterRound, Rounds
    <2>2. CASE LaterRound
      BY <1>1, <2>2, SizeFacts, PidFacts DEF LaterRound, Rounds
    <2> QED
      BY <2>1, <2>2 DEF Rounds
  <1>7. StacksHeld'
    BY <1>1, <1>2 DEF StacksHeld, GiveBack, Removed
  <1>8. StateOfSlots'
    BY <1>1, <1>2, <1>3, PidFacts DEF StateOfSlots
  <1>9. TimesOfSlots'
    BY <1>1, <1>3 DEF TimesOfSlots, Accounted
  <1> QED
    BY <1>2, <1>4, <1>6, <1>7, <1>8, <1>9

LEMMA StopStep ==
    ASSUME IInv, NEW s \in Index, Stop(s)
    PROVE  IInv'
  <1> USE DEF IInv
  <1>1. /\ s \in LiveSlots /\ s # 0 /\ numRunning' = numRunning - 1
        /\ pid' = [pid EXCEPT ![s] = TOMBSTONE] /\ allocated' = allocated \ {memLoc[s]}
        /\ UNCHANGED <<memLoc, state, runningTime, ticks, born, lastPID>>
    <2>1. s \in LiveSlots /\ pid[s] # 0
      BY DEF Stop
    <2>2. s # 0
      BY <2>1 DEF Rounds, FirstRound, LaterRound
    <2> QED
      BY <2>1, <2>2 DEF Stop, Removed
  <1>2. LiveSlots' = LiveSlots \ {s} /\ Distinct' /\ BehindHome' /\ Apart'
    BY <1>1, Vacated
  <1>3. \A j \in Index : pid'[j] = IF j = s THEN TOMBSTONE ELSE pid[j]
    BY <1>1 DEF TypeOK
  <1>4. TypeOK'
    <2>1. LiveSlots \in SUBSET Index
      BY DEF LiveSlots
    <2>2. Cardinality(LiveSlots \ {s}) = Cardinality(LiveSlots) - 1
      BY <1>1, <2>1, LiveCount, FS_RemoveElement
    <2>3. numRunning' = Cardinality(LiveSlots')
      BY <1>1, <1>2, <2>2 DEF TypeOK
    <2> QED
      BY <1>1, <2>3 DEF TypeOK
  <1>5. Rounds'
    <2>1. CASE FirstRound
      BY <1>1, <1>2, <2>1, PidFacts DEF FirstRound, Rounds
    <2>2. CASE LaterRound
      BY <1>1, <2>2, PidFacts DEF LaterRound, Rounds
    <2> QED
      BY <2>1, <2>2 DEF Rounds
  <1>6. StacksHeld'
    BY <1>1, <1>2 DEF StacksHeld
  <1>7. StateOfSlots'
    BY <1>1, <1>2, <1>3, PidFacts DEF StateOfSlots
  <1>8. TimesOfSlots'
    BY <1>1, <1>3 DEF TimesOfSlots, Accounted
  <1> QED
    BY <1>2, <1>4, <1>5, <1>6, <1>7, <1>8

(* One tick more for one time slice more.                                  *)
LEMMA TickFacts ==
    ASSUME NEW t \in Nat, NEW b \in 0..t
    PROVE  /\ TIME_SLICE * (t - b) \in Nat
           /\ TIME_SLICE * (t + 1 - b) = TIME_SLICE * (t - b) + TIME_SLICE
  <1> DEFINE d == t - b
  <1>1. d \in Nat /\ t + 1 - b = d + 1 /\ TIME_SLICE \in Nat
    BY SizeAssumption
  <1>2. TIME_SLICE * (d + 1) = TIME_SLICE * d + TIME_SLICE
    BY <1>1
  <1>3. TIME_SLICE * d \in Nat
    BY <1>1
  <1> QED
    BY <1>1, <1>2, <1>3

LEMMA AddCPUTimesStep ==
    ASSUME IInv, AddCPUTimes
    PROVE  IInv'
  <1> USE DEF IInv
  <1>1. /\ ticks' = ticks + 1
        /\ UNCHANGED <<pid, state, memLoc, numRunning, lastPID, allocated, born>>
        /\ \A s \in Index : runningTime'[s] = IF s \in Accounted THEN runningTime[s] + TIME_SLICE
                                                ELSE runningTime[s]
    BY DEF AddCPUTimes
  <1>2. LiveSlots' = LiveSlots /\ Accounted' = Accounted
    BY <1>1 DEF LiveSlots, Accounted
  <1>3. \A s \in Accounted :
          runningTime[s] \in Nat /\ runningTime'[s] = TIME_SLICE * (ticks' - born'[s])
    <2> SUFFICES ASSUME NEW s \in Accounted
                 PROVE  runningTime[s] \in Nat /\ runningTime'[s] = TIME_SLICE * (ticks' - born'[s])
      OBVIOUS
    <2>1. s \in Index /\ ticks \in Nat /\ born[s] \in 0..ticks
          /\ runningTime[s] = TIME_SLICE * (ticks - born[s])
      BY DEF TimesOfSlots, Accounted
    <2>2. /\ TIME_SLICE * (ticks - born[s]) \in Nat
          /\ TIME_SLICE * (ticks + 1 - born[s]) = TIME_SLICE * (ticks - born[s]) + TIME_SLICE
      BY <2>1, TickFacts
    <2>3. runningTime'[s] = runningTime[s] + TIME_SLICE /\ ticks' = ticks + 1 /\ born'[s] = born[s]
      BY <1>1, <2>1
    <2> QED
      BY <2>1, <2>2, <2>3
  <1>4. TypeOK'
    <2>1. runningTime' \in [Index -> Nat \cup {EMPTY}]
      <3>1. \A s \in Index : runningTime'[s] \in Nat \cup {EMPTY}
        BY <1>1, <1>3, SizeAssumption DEF TypeOK
      <3> QED
        BY <3>1 DEF AddCPUTimes
    <2> QED
      BY <1>1, <1>2, <2>1 DEF TypeOK
  <1>5. Distinct' /\ BehindHome' /\ Apart' /\ Rounds'
    BY <1>1, <1>2
       DEF Distinct, BehindHome, Apart, Passed, Home, Rounds, FirstRound, LaterRound
  <1>6. StacksHeld' /\ StateOfSlots'
    BY <1>1, <1>2 DEF StacksHeld, StateOfSlots
  <1>7. TimesOfSlots'
    <2>1. ticks' \in Nat /\ born' \in [Index -> 0..ticks']
      BY <1>1 DEF TimesOfSlots
    <2> QED
      BY <1>2, <1>3, <2>1 DEF TimesOfSlots
  <1> QED
    BY <1>4, <1>5, <1>6, <1>7

(* What the invariant speaks of.                                           *)
table == <<pid, state, memLoc, runningTime, numRunning, lastPID, allocated, ticks, born>>

LEMMA Undisturbed ==
    ASSUME IInv, UNCHANGED table
    PROVE  IInv' /\ LiveSlots' = LiveSlots
  <1>1. LiveSlots' = LiveSlots /\ Accounted' = Accounted
    BY DEF LiveSlots, Accounted, table
  <1>2. TypeOK' /\ Distinct' /\ BehindHome' /\ Apart' /\ Rounds'
    BY <1>1
       DEF IInv, table, TypeOK, Distinct, BehindHome, Apart, Passed, Home, Rounds,
           FirstRound, LaterRound
  <1>3. StacksHeld' /\ StateOfSlots' /\ TimesOfSlots'
    BY <1>1 DEF IInv, table, StacksHeld, StateOfSlots, TimesOfSlots
  <1> QED
    BY <1>1, <1>2, <1>3 DEF IInv

LEMMA NextStep ==
    ASSUME IInv, [Next]_vars
    PROVE  IInv'
  <1>1. CASE Refuse
    BY <1>1, Undisturbed DEF Refuse, table, pcbs
  <1>2. ASSUME NEW beyond \in Memories, Create(beyond)
        PROVE  IInv'
    <2>1. CASE Fail(GetFreePCBIndex(beyond)[2])
      BY <2>1, Undisturbed DEF Fail, table, pcbs
    <2>2. CASE ~Fail(GetFreePCBIndex(beyond)[2])
      BY <1>2, <2>2, CreateCases, TakeStep, GiveBackStep
    <2> QED
      BY <2>1, <2>2
  <1>3. CASE \E s \in Index : Stop(s)
    BY <1>3, StopStep
  <1>4. CASE AddCPUTimes
    BY <1>4, AddCPUTimesStep
  <1>5. CASE UNCHANGED vars
    BY <1>5, Undisturbed DEF vars, table, pcbs
  <1> QED
    BY <1>1, <1>2, <1>3, <1>4, <1>5 DEF Next

-----------------------------------------------------------------------------
(* The table's invariant, for every size of the table and of the memory.   *)
THEOREM TableInvariant == Spec => []IInv
  BY InitStep, NextStep, PTL DEF Spec

(* The fields have their types and numRunning counts the living, so that   *)
(* findFreePcb refuses exactly when the table is full.                     *)
THEOREM TypeCorrect == Spec => []TypeOK
  BY TableInvariant, PTL DEF IInv

(* No pid is given to two processes, and getPcb, which does not wrap,      *)
(* finds every living process by its pid, for every size of the table and  *)
(* however pids have wrapped and slots were reused.                        *)
THEOREM EverybodyFound == Spec => []FoundByPid
  <1>1. IInv => FoundByPid
    BY GetPcbFinds DEF IInv, FoundByPid, Distinct
  <1> QED
    BY <1>1, TableInvariant, PTL

(* The living but the idle process are reported, and none of them with     *)
(* more than has passed since its own creation.  That this is the time it  *)
(* used is not what the code achieves: it charges whoever lives.           *)
THEOREM NoTimeIsInherited == Spec => []NoTimeInherited
  <1>1. ASSUME IInv PROVE NoTimeInherited
    <2>1. \A s \in Index : s \in Accounted <=> s \in LiveSlots /\ pid[s] # 0
      BY <1>1 DEF IInv, Accounted, StateOfSlots, LiveSlots, TypeOK, STOPPED, READY
    <2>2. Accounted = {s \in LiveSlots : pid[s] # 0}
      BY <2>1 DEF Accounted, LiveSlots
    <2>3. ASSUME NEW s \in Accounted
          PROVE  runningTime[s] <= TIME_SLICE * (ticks - born[s])
      <3>1. /\ s \in Index /\ ticks \in Nat /\ born[s] \in 0..ticks
            /\ runningTime[s] = TIME_SLICE * (ticks - born[s])
        BY <1>1 DEF IInv, TimesOfSlots, Accounted
      <3>2. TIME_SLICE * (ticks - born[s]) \in Int
        BY <3>1, SizeAssumption, SMT
      <3> QED
        BY <3>1, <3>2
    <2> QED
      BY <2>2, <2>3 DEF NoTimeInherited
  <1> QED
    BY <1>1, TableInvariant, PTL

-----------------------------------------------------------------------------
(* With a stack for every slot no create has to give its slot back, and    *)
(* nothing hangs while a slot was never used.                              *)
EnoughStacks == Blocks >= PCBTABLE_SIZE

FaultOnlyWorn == fault # "none" => \A s \in Index : pid[s] # EMPTY

LEMMA RoomLeft ==
    ASSUME IInv, EnoughStacks, numRunning < PCBTABLE_SIZE
    PROVE  ~(1..Blocks \subseteq allocated)
  <1> SUFFICES ASSUME 1..Blocks \subseteq allocated PROVE FALSE
    OBVIOUS
  <1> DEFINE held == {memLoc[s] : s \in LiveSlots}
             f == [s \in LiveSlots |-> memLoc[s]]
  <1>1. LiveSlots \in SUBSET Index /\ IsFiniteSet(LiveSlots) /\ numRunning = Cardinality(LiveSlots)
    BY LiveCount DEF IInv, TypeOK, LiveSlots
  <1>2. f \in Surjection(LiveSlots, held)
    BY DEF Surjection
  <1>3. IsFiniteSet(held) /\ Cardinality(held) <= Cardinality(LiveSlots)
    BY <1>1, <1>2, FS_Surjection
  <1>4. 1..Blocks \in SUBSET held
    BY DEF IInv, StacksHeld
  <1>5. Cardinality(1..Blocks) <= Cardinality(held)
    BY <1>3, <1>4, FS_Subset
  <1>6. Cardinality(1..Blocks) = Blocks
    BY SizeAssumption, FS_Interval
  <1>7. Cardinality(held) \in Nat /\ numRunning \in Nat
    BY <1>1, <1>3, FS_CardinalityType
  <1> QED
    BY <1>1, <1>3, <1>5, <1>6, <1>7, SizeAssumption DEF EnoughStacks

LEMMA StacksStep ==
    ASSUME IInv, EnoughStacks, StacksOwned, FaultOnlyWorn, [Next]_vars
    PROVE  StacksOwned' /\ FaultOnlyWorn'
  <1>1. ASSUME UNCHANGED table, fault' = fault
        PROVE  StacksOwned' /\ FaultOnlyWorn'
    BY <1>1 DEF table, StacksOwned, LiveSlots, FaultOnlyWorn
  <1>2. CASE Refuse
    BY <1>1, <1>2 DEF Refuse, table, pcbs
  <1>3. ASSUME NEW beyond \in Memories, Create(beyond)
        PROVE  StacksOwned' /\ FaultOnlyWorn'
    <2>1. fault = "none" /\ numRunning < PCBTABLE_SIZE
      BY <1>3 DEF Create
    <2>2. CASE Fail(GetFreePCBIndex(beyond)[2])
      <3>1. \A s \in Index : pid[s] # EMPTY
        BY <2>1, <2>2, FreeExists, SizeFacts DEF Fail, IInv
      <3> QED
        BY <2>2, <3>1 DEF Fail, pcbs, StacksOwned, LiveSlots, FaultOnlyWorn
    <2>3. CASE ~Fail(GetFreePCBIndex(beyond)[2])
      <3>1. PICK q, s : Placeable(q, s) /\ \E b \in 1..Blocks \ allocated : Take(q, s, b)
        BY <1>3, <2>1, <2>3, CreateCases, RoomLeft
      <3>2. PICK b \in 1..Blocks \ allocated : Take(q, s, b)
        BY <3>1
      <3>3. LiveSlots' = LiveSlots \cup {s} /\ s \in Index /\ s \notin LiveSlots
        BY <3>1, Filled DEF IInv, Take, Placeable
      <3>4. \A j \in Index : memLoc'[j] = IF j = s THEN b ELSE memLoc[j]
        BY <3>2, <3>3 DEF Take, IInv, TypeOK
      <3>5. StacksOwned'
        <4>1. \A t \in LiveSlots : t \in Index /\ t # s /\ memLoc[t] \in allocated /\ memLoc[t] # b
          BY <3>2, <3>3 DEF StacksOwned, LiveSlots
        <4>2. allocated' = allocated \cup {b}
          BY <3>2 DEF Take
        <4> QED
          BY <3>3, <3>4, <4>1, <4>2 DEF StacksOwned
      <3>6. fault' = "none"
        BY <2>1, <3>2 DEF Take
      <3> QED
        BY <3>5, <3>6 DEF FaultOnlyWorn
    <2> QED
      BY <2>2, <2>3
  <1>4. ASSUME NEW s \in Index, Stop(s)
        PROVE  StacksOwned' /\ FaultOnlyWorn'
    <2>1. s \in LiveSlots /\ fault = "none" /\ Removed(s)
      BY <1>4 DEF Stop
    <2>2. LiveSlots' = LiveSlots \ {s}
      BY <2>1, Vacated DEF IInv, Removed
    <2>3. StacksOwned'
      BY <2>1, <2>2 DEF Removed, StacksOwned
    <2>4. memLoc[s] # EMPTY
      BY <2>1, SizeAssumption DEF IInv, StacksHeld, EMPTY
    <2>5. fault' = "none"
      BY <2>1, <2>4 DEF Removed
    <2> QED
      BY <2>3, <2>5 DEF FaultOnlyWorn
  <1>5. CASE AddCPUTimes
    BY <1>5 DEF AddCPUTimes, StacksOwned, LiveSlots, FaultOnlyWorn
  <1>6. CASE UNCHANGED vars
    BY <1>1, <1>6 DEF vars, table, pcbs
  <1> QED
    BY <1>2, <1>3, <1>4, <1>5, <1>6 DEF Next

LEMMA StacksInvariant ==
    ASSUME EnoughStacks
    PROVE  Spec => [](IInv /\ StacksOwned /\ FaultOnlyWorn)
  <1>1. Init => StacksOwned /\ FaultOnlyWorn
    BY DEF Init, StacksOwned, FaultOnlyWorn, LiveSlots
  <1>2. IInv /\ StacksOwned /\ FaultOnlyWorn /\ [Next]_vars => StacksOwned' /\ FaultOnlyWorn'
    BY StacksStep
  <1> QED
    BY <1>1, <1>2, InitStep, NextStep, PTL DEF Spec

(* When there is memory for a stack per slot, every process has a stack of *)
(* its own that nobody has freed, however slots are reused.                *)
THEOREM StacksNeverShared ==
    ASSUME EnoughStacks
    PROVE  Spec => []StacksOwned
  BY StacksInvariant, PTL

(* With as much memory, a table that is not full has a slot to give unless *)
(* what lies behind it looks like the pid sought for, and whatever lies    *)
(* there as long as one slot was never used.                               *)
THEOREM SlotAlwaysFound ==
    ASSUME EnoughStacks
    PROVE  Spec => []SlotFound
  <1>1. ASSUME IInv, FaultOnlyWorn PROVE SlotFound
    <2>1. numRunning < PCBTABLE_SIZE => GetFreePCBIndex({})[2] \in Index
      BY <1>1, FreeExists DEF IInv
    <2> QED
      BY <1>1, <2>1, SizeFacts DEF SlotFound, FaultOnlyWorn
  <1> QED
    BY <1>1, StacksInvariant, PTL

=============================================================================
