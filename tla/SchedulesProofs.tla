--------------------------- MODULE SchedulesProofs ---------------------------
(***************************************************************************)
(* Proofs about a schedule, for any definitions, grace, limits and keys.   *)
(*                                                                         *)
(* The owner's request holds a row that was read without a lock.  The      *)
(* argument turns on what it means that the request is not stale: the row  *)
(* is the one it read, so nothing was counted and no occurrence inserted   *)
(* since, and what it writes fits what the others did.                     *)
(***************************************************************************)
EXTENDS Schedules, FiniteSetTheorems, TLAPS

USE SchedulesAssumption

-----------------------------------------------------------------------------
(* The inductive invariant *)

Requests ==
  [op: {"none", "pause", "resume", "cancel", "update"}, from: Rows \cup {<<>>},
   to: Rows \cup {<<>>}, def: Definitions \cup {<<>>}, at: Nat, stale: BOOLEAN]

\* No scheduled instant later than t was decided.
DecidedBy(t) == \A i \in Ids : Scheduled(i) => occ[i].nominal <= t

RowFits(r) ==
  /\ r.state = "PAUSED" <=> r.pause_reason # "none"
  /\ r.state \in Over => r.next = None

\* What a request that can still be written has read and will write.
RequestFits ==
  owner.op # "none" =>
    /\ owner.at <= now
    /\ owner.to \in Rows /\ owner.def \in Definitions /\ RowFits(owner.to)
    /\ ~owner.stale =>
         /\ owner.from = row
         /\ DecidedBy(owner.at)
         /\ owner.to.failures = row.failures
         /\ owner.to.revision = row.revision + (IF owner.op = "update" THEN 1 ELSE 0)
         /\ owner.to.state = "ACTIVE" /\ owner.to.next # None =>
              /\ owner.op \in {"resume", "update"}
              /\ owner.to.next =
                   next_after((IF owner.op = "update" THEN owner.def ELSE Revision).cadence, owner.at)

\* An instant is decided when it has come, the cadence's in their order; a run on
\* demand has its reading of the clock, which may be old, for its instant.
OccurrencesInOrder ==
  \A i \in Ids :
    /\ occ[i].nominal <= occ[i].at /\ occ[i].at <= now
    /\ ~Scheduled(i) => occ[i].nominal = occ[i].at
    /\ occ[i].run = "active" => occ[i].disposition = "MATERIALIZED"
    /\ \A j \in Ids : i < j /\ Scheduled(i) /\ Scheduled(j) => occ[i].nominal < occ[j].nominal

\* A run that goes on although a later one was started is hidden.
LaterRunsAreHidden ==
  \A i, j \in Ids : i < j /\ occ[i].run = "active" /\ occ[j].disposition = "MATERIALIZED" =>
    \E k \in Ids : Hides(k, i)

\* The next firing of an active schedule is ahead of what was decided.
NextIsAhead ==
  row.state = "ACTIVE" /\ row.next # None =>
    since < row.next /\ \A i \in Ids : Scheduled(i) => occ[i].nominal < row.next

ScheduleInv ==
  /\ TypeOK /\ owner \in Requests /\ since \in Nat
  /\ RequestFits /\ OccurrencesInOrder /\ LaterRunsAreHidden /\ NextIsAhead
  /\ NothingIsSkippedSilently /\ CountMatchesEvents

-----------------------------------------------------------------------------
(* The calculator: first and last instants *)

Below == OpToRel(<, Nat)

\* A set of instants that is not empty has a first one.
LEMMA LeastExists ==
  ASSUME NEW S \in SUBSET Nat, S # {}
  PROVE  \E m \in S : \A u \in S : m <= u
<1>1. IsWellFoundedOn(Below, Nat)
  BY NatLessThanWellFounded DEF Below
<1>2. PICK m \in S : \A u \in S : ~(<<u, m>> \in Below)
  BY <1>1, WFMin
<1>3. \A u \in Nat : u < m => <<u, m>> \in Below
  BY DEF Below, OpToRel
<1>4. \A u \in S : ~(u < m)
  BY <1>2, <1>3, Zenon
<1>5. \A u \in S : m <= u
  BY <1>4
<1> QED BY <1>5

\* If it is bounded it has a last one.
LEMMA GreatestExists ==
  ASSUME NEW S \in SUBSET Nat, S # {}, NEW b \in Nat, \A u \in S : u <= b
  PROVE  \E m \in S : \A u \in S : m >= u
<1> DEFINE Bounds == {k \in Nat : \A u \in S : u <= k}
<1>1. b \in Bounds
  OBVIOUS
<1>2. PICK m \in Bounds : \A k \in Bounds : m <= k
  <2> HIDE DEF Bounds
  <2> Bounds \in SUBSET Nat
    BY DEF Bounds
  <2> QED BY <1>1, LeastExists
<1>3. m \in S
  <2> SUFFICES ASSUME m \notin S PROVE FALSE
    OBVIOUS
  <2>1. PICK u \in S : TRUE
    OBVIOUS
  <2>2. m > 0
    BY <2>1
  <2>3. m - 1 \in Bounds
    BY <2>2
  <2> QED BY <1>2, <2>3
<1> QED BY <1>3

\* The first and the last of a set of instants are what they are called.
LEMMA FirstIsLeast ==
  ASSUME NEW S \in SUBSET Nat, S # {}
  PROVE  FirstOf(S) \in S /\ \A u \in S : FirstOf(S) <= u
BY LeastExists DEF FirstOf

\* The same of the last.
LEMMA LastIsGreatest ==
  ASSUME NEW S \in SUBSET Nat, S # {}, NEW b \in Nat, \A u \in S : u <= b
  PROVE  LastOf(S) \in S /\ \A u \in S : LastOf(S) >= u
BY GreatestExists DEF LastOf

\* next_after: the first instant after t.
LEMMA NextAfter ==
  ASSUME NEW C \in SUBSET (Nat \ {None}), NEW t \in Nat
  PROVE  /\ next_after(C, t) \in Nat
         /\ next_after(C, t) # None => next_after(C, t) \in C /\ next_after(C, t) > t
         /\ \A n \in C : n > t => next_after(C, t) # None /\ next_after(C, t) <= n
<1> DEFINE S == {n \in C : n > t}
<1>1. S \in SUBSET Nat /\ next_after(C, t) = FirstOf(S)
  BY DEF next_after
<1>2. CASE S = {}
  <2>1. next_after(C, t) = None
    BY <1>1, <1>2 DEF FirstOf
  <2> QED BY <1>2, <2>1 DEF None
<1>3. CASE S # {}
  <2>1. FirstOf(S) \in S /\ \A u \in S : FirstOf(S) <= u
    <3> HIDE DEF S
    <3> QED BY <1>1, <1>3, FirstIsLeast
  <2> QED BY <1>1, <2>1
<1> QED BY <1>2, <1>3

\* latest_at_or_before: the last instant that has come.
LEMMA LatestBefore ==
  ASSUME NEW C \in SUBSET (Nat \ {None}), NEW t \in Nat
  PROVE  /\ latest_at_or_before(C, t) \in Nat
         /\ latest_at_or_before(C, t) # None =>
              latest_at_or_before(C, t) \in C /\ latest_at_or_before(C, t) <= t
         /\ \A n \in C : n <= t => n <= latest_at_or_before(C, t)
<1> DEFINE S == {n \in C : n <= t}
<1>1. S \in SUBSET Nat /\ latest_at_or_before(C, t) = LastOf(S) /\ \A u \in S : u <= t
  BY DEF latest_at_or_before
<1>2. CASE S = {}
  <2>1. latest_at_or_before(C, t) = None
    BY <1>1, <1>2 DEF LastOf
  <2> QED BY <1>2, <2>1 DEF None
<1>3. CASE S # {}
  <2>1. LastOf(S) \in S /\ \A u \in S : LastOf(S) >= u
    <3> HIDE DEF S
    <3> QED BY <1>1, <1>3, LastIsGreatest
  <2> QED BY <1>1, <2>1
<1> QED BY <1>2, <1>3

\* count_between counts more than one instant if there are two.
LEMMA TwoAreCounted ==
  ASSUME NEW C \in SUBSET Nat, IsFiniteSet(C), NEW a \in C, NEW b \in C, a < b,
         NEW f \in Nat, f <= a
  PROVE  count_between(C, f, b) > 1
<1> DEFINE S == {n \in C : f <= n /\ n <= b}
<1>1. IsFiniteSet(S) /\ a \in S /\ b \in S /\ a # b
  BY FS_Subset
<1>2. IsFiniteSet(S \ {a}) /\ Cardinality(S \ {a}) = Cardinality(S) - 1 /\ Cardinality(S) \in Nat
  <2> HIDE DEF S
  <2> QED BY <1>1, FS_RemoveElement, FS_CardinalityType
<1>3. Cardinality(S \ {a}) # 0 /\ Cardinality(S \ {a}) \in Nat
  <2>1. S \ {a} # {}
    BY <1>1
  <2> HIDE DEF S
  <2> QED BY <1>2, <2>1, FS_EmptySet, FS_CardinalityType
<1> QED BY <1>2, <1>3 DEF count_between

\* The definition in force is one of the definitions, its instants are numbers.
LEMMA CadenceIsSet ==
  ASSUME TypeOK
  PROVE  /\ Revision \in Definitions
         /\ Cadence \in SUBSET (Nat \ {None}) /\ IsFiniteSet(Cadence)
         /\ now \in Nat
<1>1. revs[row.revision] \in Definitions
  <2>1. Len(revs) \in Nat /\ row.revision \in 1..Len(revs)
    BY SMTT(30) DEF TypeOK, Rows
  <2> QED BY <2>1 DEF TypeOK
<1> QED BY <1>1 DEF Cadence, Revision, TypeOK

\* A reading of the clock is in the past.
LEMMA ReadingIsPast == ASSUME TypeOK, NEW t \in Readings PROVE t \in Nat /\ t <= now
BY CadenceIsSet DEF Readings

-----------------------------------------------------------------------------
(* The occurrences *)

\* What a later state keeps of an occurrence: only its run and its accounting move.
Keeps(o, p) ==
  /\ p.nominal = o.nominal /\ p.at = o.at /\ p.key = o.key
  /\ p.disposition = o.disposition
  /\ p.run = "active" => o.run = "active"

OccurrencesKept == DOMAIN occ' = DOMAIN occ /\ \A i \in Ids : Keeps(occ[i], occ'[i])

\* The occurrences are numbered and typed.
LEMMA IdsAreNumbers ==
  ASSUME TypeOK
  PROVE  /\ Len(occ) \in Nat /\ Ids = 1..Len(occ)
         /\ \A i \in Ids : occ[i] \in Occurrences /\ occ[i].nominal \in Nat /\ occ[i].at \in Nat
<1>1. Len(occ) \in Nat /\ Ids = 1..Len(occ) /\ \A i \in Ids : occ[i] \in Occurrences
  BY DEF TypeOK, Ids
<1> QED BY <1>1 DEF Occurrences

\* A step that inserts nothing keeps the order and what is hidden.
LEMMA KeptInOrder ==
  ASSUME TypeOK, OccurrencesInOrder, LaterRunsAreHidden, OccurrencesKept,
         now' \in Nat, now' >= now
  PROVE  OccurrencesInOrder' /\ LaterRunsAreHidden'
<1>1. Ids' = Ids /\ \A i \in Ids : Keeps(occ[i], occ'[i]) /\ (Scheduled(i)' <=> Scheduled(i))
  BY DEF OccurrencesKept, Ids, Scheduled, Keeps
<1>2. now \in Nat /\ Ids = 1..Len(occ) /\ Len(occ) \in Nat
      /\ \A i \in Ids : occ[i].nominal \in Nat /\ occ[i].at \in Nat
  BY IdsAreNumbers, CadenceIsSet
<1>3. OccurrencesInOrder'
  <2> SUFFICES ASSUME NEW i \in Ids
               PROVE  /\ occ'[i].nominal <= occ'[i].at /\ occ'[i].at <= now'
                      /\ ~Scheduled(i)' => occ'[i].nominal = occ'[i].at
                      /\ occ'[i].run = "active" => occ'[i].disposition = "MATERIALIZED"
                      /\ \A j \in Ids : i < j /\ Scheduled(i)' /\ Scheduled(j)' =>
                           occ'[i].nominal < occ'[j].nominal
    BY <1>1 DEF OccurrencesInOrder
  <2>1. occ'[i].nominal <= occ'[i].at /\ occ'[i].at <= now'
    <3>1. occ[i].nominal <= occ[i].at /\ occ[i].at <= now /\ occ[i].at \in Nat
      BY <1>2 DEF OccurrencesInOrder
    <3>2. occ'[i].nominal = occ[i].nominal /\ occ'[i].at = occ[i].at
      BY <1>1 DEF Keeps
    <3> QED BY <3>1, <3>2, <1>2
  <2>2. /\ ~Scheduled(i)' => occ'[i].nominal = occ'[i].at
        /\ occ'[i].run = "active" => occ'[i].disposition = "MATERIALIZED"
    BY <1>1 DEF OccurrencesInOrder, Keeps
  <2>3. \A j \in Ids : i < j /\ Scheduled(i)' /\ Scheduled(j)' =>
          occ'[i].nominal < occ'[j].nominal
    BY <1>1 DEF OccurrencesInOrder, Keeps
  <2> QED BY <2>1, <2>2, <2>3
<1>4. LaterRunsAreHidden'
  <2> SUFFICES ASSUME NEW i \in Ids, NEW j \in Ids, i < j, occ'[i].run = "active",
                      occ'[j].disposition = "MATERIALIZED"
               PROVE  \E k \in Ids : Hides(k, i)'
    BY <1>1 DEF LaterRunsAreHidden
  <2>1. occ[i].run = "active" /\ occ[j].disposition = "MATERIALIZED"
    BY <1>1 DEF Keeps
  <2>2. PICK k \in Ids : Hides(k, i)
    BY <2>1 DEF LaterRunsAreHidden
  <2>3. k < i /\ k \in Materialized' /\ occ'[k].nominal > occ'[i].nominal
    BY <2>2, <1>1 DEF Hides, Keeps, Materialized
  <2>4. ~Scheduled(k)' \/ ~Scheduled(i)'
    BY <2>2, <1>1 DEF Hides
  <2> QED BY <2>3, <2>4 DEF Hides
<1> QED BY <1>3, <1>4

\* A step that leaves the row and inserts nothing keeps what the row says.
LEMMA KeptAhead ==
  ASSUME TypeOK, NextIsAhead, NothingIsSkippedSilently, OccurrencesKept,
         row' = row, revs' = revs, since' = since, coalesced \subseteq coalesced'
  PROVE  NextIsAhead' /\ NothingIsSkippedSilently'
<1>1. Ids' = Ids /\ \A i \in Ids : occ'[i].nominal = occ[i].nominal /\ (Scheduled(i)' <=> Scheduled(i))
  BY DEF OccurrencesKept, Ids, Scheduled, Keeps
<1>2. Cadence' = Cadence
  BY DEF Cadence, Revision
<1> QED BY <1>1, <1>2 DEF NextIsAhead, NothingIsSkippedSilently

\* While no run is in flight, a run that goes on is hidden.
\* (latest_materialized)
LEMMA NewRunIsHidden ==
  ASSUME TypeOK, OccurrencesInOrder, LaterRunsAreHidden, ~InFlight,
         NEW i \in Ids, occ[i].run = "active"
  PROVE  \E k \in Ids : Hides(k, i)
<1>1. Len(occ) \in Nat /\ Ids = 1..Len(occ)
      /\ \A j \in Ids : occ[j].nominal \in Nat /\ occ[j].at \in Nat
  BY IdsAreNumbers
<1>2. i \in Materialized
  BY DEF OccurrencesInOrder, Materialized
<1>3. PICK k \in Materialized : ~(occ[k].nominal <= occ[i].nominal)
  BY <1>2 DEF InFlight
<1>4. k \in Ids /\ occ[k].disposition = "MATERIALIZED" /\ occ[k].nominal > occ[i].nominal /\ k # i
  BY <1>1, <1>3 DEF Materialized
<1>5. CASE i < k
  BY <1>4, <1>5 DEF LaterRunsAreHidden
<1>6. CASE k < i
  <2>1. ~Scheduled(k) \/ ~Scheduled(i)
    BY <1>1, <1>4, <1>6 DEF OccurrencesInOrder
  <2> QED BY <1>3, <1>4, <1>6, <2>1 DEF Hides
<1> QED BY <1>1, <1>4, <1>5, <1>6

\* An occurrence that is inserted comes last.
LEMMA Inserted ==
  ASSUME TypeOK, NEW o \in Occurrences, occ' = Append(occ, o)
  PROVE  /\ occ' \in Seq(Occurrences)
         /\ Ids' = Ids \cup {Len(occ) + 1} /\ Len(occ) + 1 \notin Ids
         /\ occ'[Len(occ) + 1] = o
         /\ \A i \in Ids : occ'[i] = occ[i] /\ i < Len(occ) + 1 /\ (Scheduled(i)' <=> Scheduled(i))
<1>1. occ \in Seq(Occurrences) /\ Len(occ) \in Nat /\ Ids = 1..Len(occ)
  BY IdsAreNumbers DEF TypeOK
<1>2. occ' \in Seq(Occurrences) /\ Len(occ') = Len(occ) + 1 /\ occ'[Len(occ) + 1] = o
      /\ \A i \in 1..Len(occ) : occ'[i] = occ[i]
  BY <1>1
<1>3. Ids' = 1..(Len(occ) + 1)
  BY <1>1, <1>2 DEF Ids
<1> QED BY <1>1, <1>2, <1>3 DEF Scheduled

\* What an insertion has to satisfy to keep the order and what is hidden.
LEMMA InsertedInOrder ==
  ASSUME TypeOK, OccurrencesInOrder, LaterRunsAreHidden,
         NEW o \in Occurrences, occ' = Append(occ, o), now' = now,
         o.at <= now, o.nominal <= o.at, o.key # NoKey => o.nominal = o.at,
         o.run = "active" => o.disposition = "MATERIALIZED",
         o.key = NoKey => \A i \in Ids : Scheduled(i) => occ[i].nominal < o.nominal,
         o.disposition = "MATERIALIZED" => ~InFlight
  PROVE  OccurrencesInOrder' /\ LaterRunsAreHidden'
<1>0. Len(occ) \in Nat /\ Ids = 1..Len(occ) /\ now \in Nat
      /\ \A i \in Ids : occ[i].nominal \in Nat /\ occ[i].at \in Nat
  BY IdsAreNumbers, CadenceIsSet
<1>n. PICK n \in Nat : n = Len(occ) + 1
  BY <1>0
<1>1. /\ Ids' = Ids \cup {n} /\ n \notin Ids /\ occ'[n] = o
      /\ \A i \in Ids : occ'[i] = occ[i] /\ i < n /\ (Scheduled(i)' <=> Scheduled(i))
  BY <1>n, Inserted
<1>2. Scheduled(n)' <=> o.key = NoKey
  BY <1>1 DEF Scheduled
<1>3. o.nominal \in Nat /\ o.at \in Nat
  BY DEF Occurrences
<1>4. OccurrencesInOrder'
  <2> SUFFICES ASSUME NEW i \in Ids'
               PROVE  /\ occ'[i].nominal <= occ'[i].at /\ occ'[i].at <= now'
                      /\ ~Scheduled(i)' => occ'[i].nominal = occ'[i].at
                      /\ occ'[i].run = "active" => occ'[i].disposition = "MATERIALIZED"
                      /\ \A j \in Ids' : i < j /\ Scheduled(i)' /\ Scheduled(j)' =>
                           occ'[i].nominal < occ'[j].nominal
    BY DEF OccurrencesInOrder
  <2>1. CASE i = n
    <3>1. \A j \in Ids' : ~(i < j)
      BY <2>1, <1>0, <1>1
    <3>2. o.nominal <= o.at /\ o.at <= now /\ (o.key # NoKey => o.nominal = o.at)
      BY <1>0, <1>3
    <3>3. occ'[i] = o /\ (Scheduled(i)' <=> o.key = NoKey)
      BY <2>1, <1>1, <1>2
    <3> QED BY <3>1, <3>2, <3>3
  <2>2. CASE i \in Ids
    <3>1. \A j \in Ids : i < j /\ Scheduled(i)' /\ Scheduled(j)' =>
            occ'[i].nominal < occ'[j].nominal
      BY <2>2, <1>1 DEF OccurrencesInOrder
    <3>2. Scheduled(i)' /\ Scheduled(n)' => occ'[i].nominal < occ'[n].nominal
      BY <2>2, <1>1, <1>2 DEF OccurrencesInOrder
    <3> QED BY <2>2, <3>1, <3>2, <1>1 DEF OccurrencesInOrder
  <2> QED BY <2>1, <2>2, <1>1
<1>5. LaterRunsAreHidden'
  <2> SUFFICES ASSUME NEW i \in Ids', NEW j \in Ids', i < j, occ'[i].run = "active",
                      occ'[j].disposition = "MATERIALIZED"
               PROVE  \E k \in Ids' : Hides(k, i)'
    BY DEF LaterRunsAreHidden
  <2>1. i \in Ids
    BY <1>0, <1>1
  <2>2. \E k \in Ids : Hides(k, i)
    <3>1. CASE j \in Ids
      BY <3>1, <2>1, <1>1 DEF LaterRunsAreHidden
    <3>2. CASE j = n
      BY <3>2, <2>1, <1>1, NewRunIsHidden
    <3> QED BY <3>1, <3>2, <1>1
  <2>3. PICK k \in Ids : Hides(k, i)
    BY <2>2
  <2>4. k < i /\ k \in Materialized' /\ occ'[k].nominal > occ'[i].nominal
    BY <2>1, <2>3, <1>1 DEF Hides, Materialized
  <2>5. ~Scheduled(k)' \/ ~Scheduled(i)'
    BY <2>1, <2>3, <1>1 DEF Hides
  <2> QED BY <2>4, <2>5, <1>1 DEF Hides
<1> QED BY <1>4, <1>5

-----------------------------------------------------------------------------
(* The count of failures *)

Successes == {i \in DOMAIN log : log[i] = "ok"}

\* The position of the last success in the log, or zero.
LEMMA LastSuccess ==
  ASSUME TypeOK
  PROVE  /\ Len(log) \in Nat /\ DOMAIN log = 1..Len(log)
         /\ LastOf(Successes) \in Nat
<1>1. Len(log) \in Nat /\ DOMAIN log = 1..Len(log)
  BY DEF TypeOK
<1>2. Successes \in SUBSET Nat /\ \A u \in Successes : u <= Len(log)
  BY <1>1 DEF Successes
<1>3. CASE Successes = {}
  BY <1>1, <1>3 DEF LastOf, None
<1>4. CASE Successes # {}
  BY <1>1, <1>2, <1>4, LastIsGreatest
<1> QED BY <1>1, <1>3, <1>4

\* A failure that is counted and logged keeps the count.
LEMMA FailureIsCounted ==
  ASSUME TypeOK, CountMatchesEvents, log' = Append(log, "failed"),
         row'.failures = row.failures + 1
  PROVE  CountMatchesEvents'
<1>1. Len(log) \in Nat /\ DOMAIN log = 1..Len(log) /\ LastOf(Successes) \in Nat
  BY LastSuccess
<1>2. /\ Len(log') = Len(log) + 1 /\ DOMAIN log' = 1..(Len(log) + 1)
      /\ log'[Len(log) + 1] = "failed" /\ \A i \in 1..Len(log) : log'[i] = log[i]
  BY <1>1 DEF TypeOK
<1>3. Successes' = Successes
  BY <1>1, <1>2 DEF Successes
<1>4. row.failures = Len(log) - LastOf(Successes)
  BY DEF CountMatchesEvents, Successes
<1>5. row'.failures = Len(log') - LastOf(Successes')
  BY <1>1, <1>2, <1>3, <1>4
<1> QED BY <1>5 DEF CountMatchesEvents, Successes

\* So does a success, which sets the count to zero.
LEMMA SuccessIsCounted ==
  ASSUME TypeOK, log' = Append(log, "ok"), row'.failures = 0
  PROVE  CountMatchesEvents'
<1>1. Len(log) \in Nat /\ DOMAIN log = 1..Len(log)
  BY LastSuccess
<1>2. /\ Len(log') = Len(log) + 1 /\ DOMAIN log' = 1..(Len(log) + 1)
      /\ log'[Len(log) + 1] = "ok"
  BY <1>1 DEF TypeOK
<1>n. PICK n \in Nat : n = Len(log) + 1
  BY <1>1
<1>3. n \in Successes' /\ Successes' \in SUBSET Nat /\ \A u \in Successes' : u <= n
  BY <1>1, <1>2, <1>n DEF Successes
<1>4. PICK S \in SUBSET Nat : S = Successes'
  BY <1>3
<1>5. LastOf(S) \in S /\ \A u \in S : LastOf(S) >= u
  BY <1>3, <1>4, LastIsGreatest
<1>6. LastOf(S) = n
  <2>1. LastOf(S) \in Nat /\ LastOf(S) <= n /\ LastOf(S) >= n
    BY <1>3, <1>4, <1>5
  <2> QED BY <2>1
<1>7. row'.failures = Len(log') - LastOf(Successes')
  BY <1>2, <1>n, <1>4, <1>6
<1> QED BY <1>7 DEF CountMatchesEvents, Successes

-----------------------------------------------------------------------------
(* The scheduler's steps *)

\* _advanced_schedule
LEMMA AdvancedRow ==
  ASSUME TypeOK, row.state = "ACTIVE", NEW t \in Readings, NEW failed \in BOOLEAN
  PROVE  /\ Advanced(t, failed) \in Rows /\ RowFits(Advanced(t, failed))
         /\ Advanced(t, failed).revision = row.revision
         /\ Advanced(t, failed).failures = row.failures + (IF failed THEN 1 ELSE 0)
         /\ Advanced(t, failed).state = "ACTIVE" => Advanced(t, failed).next = next_after(Cadence, t)
<1>1. row \in Rows /\ row.pause_reason = "none"
  BY DEF TypeOK, Rows
<1>2. PICK n \in Nat : n = next_after(Cadence, t)
  BY CadenceIsSet, ReadingIsPast, NextAfter
<1>3. PICK f \in Nat : f = row.failures + (IF failed THEN 1 ELSE 0)
  BY <1>1 DEF Rows
<1>4. PICK moved \in Rows :
        /\ moved = [row EXCEPT !.failures = f, !.next = n]
        /\ moved.state = "ACTIVE" /\ moved.pause_reason = "none"
        /\ moved.revision = row.revision /\ moved.failures = f /\ moved.next = n
  <2> DEFINE r == [row EXCEPT !.failures = f, !.next = n]
  <2>1. /\ r \in Rows /\ r.state = "ACTIVE" /\ r.pause_reason = "none"
        /\ r.revision = row.revision /\ r.failures = f /\ r.next = n
    BY <1>1 DEF Rows
  <2> QED BY <2>1
<1>5. \/ Advanced(t, failed) = [moved EXCEPT !.state = "COMPLETED", !.next = None]
      \/ Advanced(t, failed) = [moved EXCEPT !.state = "PAUSED", !.pause_reason = "failure_limit",
                                          !.next = None]
      \/ Advanced(t, failed) = moved
  BY <1>2, <1>3, <1>4 DEF Advanced
<1>f. /\ moved \in Rows /\ moved.pause_reason = "none"
      /\ moved.revision = row.revision /\ moved.failures = f
  BY <1>4
<1>6. CASE Advanced(t, failed) = moved
  BY <1>2, <1>3, <1>4, <1>6 DEF RowFits, Over
<1>7. CASE Advanced(t, failed) = [moved EXCEPT !.state = "COMPLETED", !.next = None]
  <2> DEFINE r == [moved EXCEPT !.state = "COMPLETED", !.next = 0]
  <2>1. /\ r \in Rows /\ r.revision = row.revision /\ r.failures = f
        /\ r.state = "COMPLETED" /\ r.next = None
        /\ r.pause_reason = "none"
    BY <1>f DEF Rows, None
  <2> QED BY <1>3, <1>f, <1>7, <2>1 DEF RowFits, Over, None
<1>8. CASE Advanced(t, failed) = [moved EXCEPT !.state = "PAUSED", !.pause_reason = "failure_limit",
                                            !.next = None]
  <2> DEFINE r == [moved EXCEPT !.state = "PAUSED", !.pause_reason = "failure_limit",
                               !.next = 0]
  <2>1. /\ r \in Rows /\ r.revision = row.revision /\ r.failures = f
        /\ r.state = "PAUSED" /\ r.next = None
        /\ r.pause_reason = "failure_limit"
    BY <1>f DEF Rows, None
  <2> QED BY <1>3, <1>f, <1>8, <2>1 DEF RowFits, Over, None
<1> QED BY <1>5, <1>6, <1>7, <1>8

\* The instant that is due has come, belongs to the cadence, and is ahead of
\* everything decided before.  (lock_due, materialize.)
LEMMA DueInstant ==
  ASSUME ScheduleInv, NEW t \in Readings, Due(t)
  PROVE  /\ Nominal(t) \in Cadence /\ Nominal(t) \in Nat /\ Nominal(t) <= t /\ row.next <= Nominal(t)
         /\ row.next \in Nat /\ row.state = "ACTIVE" /\ row.next # None
         /\ since < Nominal(t)
         /\ \A i \in Ids : Scheduled(i) => occ[i].nominal < Nominal(t)
         /\ \A n \in Cadence : n <= t => n <= Nominal(t)
<1>1. TypeOK /\ NextIsAhead /\ since \in Nat
  BY DEF ScheduleInv
<1>2. Cadence \in SUBSET (Nat \ {None}) /\ t \in Nat /\ row.next \in Nat
  BY <1>1, CadenceIsSet, ReadingIsPast DEF TypeOK, Rows
<1>3. row.state = "ACTIVE" /\ row.next # None /\ Nominal(t) # None /\ Nominal(t) >= row.next
  BY DEF Due
<1>4. /\ Nominal(t) \in Nat /\ Nominal(t) \in Cadence /\ Nominal(t) <= t
      /\ \A n \in Cadence : n <= t => n <= Nominal(t)
  BY <1>2, <1>3, LatestBefore DEF Nominal
<1>5. since < row.next /\ \A i \in Ids : Scheduled(i) => occ[i].nominal < row.next
  BY <1>1, <1>3 DEF NextIsAhead
<1>6. \A i \in Ids : occ[i].nominal \in Nat
  BY <1>1, IdsAreNumbers
<1> QED BY <1>1, <1>2, <1>3, <1>4, <1>5, <1>6

\* What a new occurrence holds.
LEMMA OccurrenceIsTyped ==
  ASSUME TypeOK, NEW t \in Readings, NEW n \in Nat, NEW k \in Keys \cup {NoKey, Refresh},
         NEW d \in {"MATERIALIZED", "MISSED", "SKIPPED_OVERLAP", "DENIED"}
  PROVE  /\ Occurrence(t, n, k, d) \in Occurrences
         /\ Occurrence(t, n, k, d).nominal = n /\ Occurrence(t, n, k, d).at = t
         /\ Occurrence(t, n, k, d).key = k /\ Occurrence(t, n, k, d).disposition = d
         /\ Occurrence(t, n, k, d).run = "active" => d = "MATERIALIZED"
<1>1. t \in Nat /\ row.revision \in 1..MaxRevisions
  BY ReadingIsPast DEF TypeOK, Rows
<1> QED BY <1>1 DEF Occurrence, Occurrences

\* A request that was in progress when the row was written stays what it was, but
\* will not be written.
LEMMA TouchedRequest ==
  ASSUME TypeOK, owner \in Requests, RequestFits, Touch, now' = now
  PROVE  owner' \in Requests /\ RequestFits'
<1>1. /\ owner' \in Requests /\ owner'.op = owner.op /\ owner'.at = owner.at
      /\ owner'.to = owner.to /\ owner'.def = owner.def
      /\ owner.op # "none" => owner'.stale
  BY DEF Touch, Requests
<1> QED BY <1>1 DEF RequestFits, RowFits

\* materialize keeps the invariant, whatever the decision.
LEMMA DecideKeeps ==
  ASSUME ScheduleInv, NEW t \in Readings, NEW d \in {"MATERIALIZED", "MISSED", "SKIPPED_OVERLAP", "DENIED"},
         NEW failed \in BOOLEAN, Decide(t, d, failed), d = "MATERIALIZED" => ~InFlight
  PROVE  ScheduleInv'
<1>0. /\ TypeOK /\ owner \in Requests /\ since \in Nat /\ RequestFits /\ OccurrencesInOrder
      /\ LaterRunsAreHidden /\ NextIsAhead /\ NothingIsSkippedSilently /\ CountMatchesEvents
  BY DEF ScheduleInv
<1>1. /\ Due(t) /\ occ' = Append(occ, Occurrence(t, Nominal(t), NoKey, d))
      /\ coalesced' = coalesced \cup Coalesce(t) /\ row' = Advanced(t, failed)
      /\ log' = (IF failed THEN Append(log, "failed") ELSE log)
      /\ Touch /\ now' = now /\ revs' = revs /\ since' = since /\ requests' = requests
  BY DEF Decide
<1>2. /\ Nominal(t) \in Cadence /\ Nominal(t) \in Nat /\ Nominal(t) <= t /\ row.next <= Nominal(t)
      /\ row.next \in Nat /\ row.state = "ACTIVE" /\ row.next # None /\ since < Nominal(t)
      /\ \A i \in Ids : Scheduled(i) => occ[i].nominal < Nominal(t)
      /\ \A n \in Cadence : n <= t => n <= Nominal(t)
  BY <1>1, DueInstant
<1>3. /\ row' \in Rows /\ RowFits(row') /\ row'.revision = row.revision
      /\ row'.failures = row.failures + (IF failed THEN 1 ELSE 0)
      /\ row'.state = "ACTIVE" => row'.next = next_after(Cadence, t)
  BY <1>0, <1>1, <1>2, AdvancedRow
<1>4. PICK o \in Occurrences : /\ o = Occurrence(t, Nominal(t), NoKey, d)
                               /\ o.nominal = Nominal(t) /\ o.at = t /\ o.key = NoKey
                               /\ o.disposition = d
                               /\ o.run = "active" => d = "MATERIALIZED"
  BY <1>0, <1>2, OccurrenceIsTyped
<1>5. PICK n \in Nat : n = Len(occ) + 1
  BY <1>0, IdsAreNumbers
<1>6. /\ occ' \in Seq(Occurrences) /\ Ids' = Ids \cup {n} /\ n \notin Ids /\ occ'[n] = o
      /\ \A i \in Ids : occ'[i] = occ[i] /\ (Scheduled(i)' <=> Scheduled(i))
  BY <1>0, <1>1, <1>4, <1>5, Inserted
<1>7. TypeOK' /\ since' \in Nat
  <2>1. log' \in Seq({"ok", "failed"})
    BY <1>0, <1>1 DEF TypeOK
  <2> QED BY <1>0, <1>1, <1>3, <1>6, <2>1 DEF TypeOK, RowFits
<1>8. owner' \in Requests /\ RequestFits'
  BY <1>0, <1>1, TouchedRequest
<1>9. OccurrencesInOrder' /\ LaterRunsAreHidden'
  BY <1>0, <1>1, <1>2, <1>4, ReadingIsPast, InsertedInOrder
<1>10. Cadence' = Cadence /\ Cadence \in SUBSET (Nat \ {None}) /\ IsFiniteSet(Cadence)
       /\ t \in Nat /\ t <= now
  BY <1>0, <1>1, <1>3, CadenceIsSet, ReadingIsPast DEF Cadence, Revision
<1>11. row'.state = "ACTIVE" /\ row'.next # None =>
         /\ row'.next > t /\ row'.next \in Nat
         /\ \A m \in Cadence : m > t => row'.next <= m
  <2>1. PICK C \in SUBSET (Nat \ {None}) : C = Cadence
    BY <1>10
  <2>2. /\ next_after(C, t) \in Nat
        /\ next_after(C, t) # None => next_after(C, t) > t
        /\ \A m \in C : m > t => next_after(C, t) <= m
    BY <1>10, NextAfter
  <2> QED BY <1>3, <2>1, <2>2
<1>12. NextIsAhead'
  <2> SUFFICES ASSUME row'.state = "ACTIVE", row'.next # None
               PROVE  since' < row'.next
                      /\ \A i \in Ids' : Scheduled(i)' => occ'[i].nominal < row'.next
    BY DEF NextIsAhead
  <2>1. row'.next > t /\ row'.next \in Nat
    BY <1>11
  <2>2. since' < row'.next
    BY <1>0, <1>1, <1>2, <1>10, <2>1
  <2>3. ASSUME NEW i \in Ids', Scheduled(i)' PROVE occ'[i].nominal < row'.next
    <3>1. CASE i = n
      BY <3>1, <1>2, <1>4, <1>6, <1>10, <2>1
    <3>2. CASE i \in Ids
      <4>1. occ[i].nominal \in Nat /\ occ[i].nominal < Nominal(t)
        BY <2>3, <3>2, <1>0, <1>2, <1>6, IdsAreNumbers
      <4> QED BY <4>1, <3>2, <1>2, <1>6, <1>10, <2>1, SMTT(30)
    <3> QED BY <3>1, <3>2, <1>6
  <2> QED BY <2>2, <2>3
<1>13. NothingIsSkippedSilently'
  <2> SUFFICES ASSUME row'.state = "ACTIVE", row'.next # None,
                      NEW m \in Cadence, since < m, m < row'.next
               PROVE  \/ \E i \in Ids' : Scheduled(i)' /\ occ'[i].nominal = m
                      \/ \E e \in coalesced' : e.first <= m /\ m <= e.last
    BY <1>1, <1>10 DEF NothingIsSkippedSilently
  <2>1. m \in Nat /\ m <= t /\ m <= Nominal(t)
    BY <1>2, <1>10, <1>11
  <2>2. CASE m = Nominal(t)
    <3>1. Scheduled(n)' /\ occ'[n].nominal = m /\ n \in Ids'
      BY <2>2, <1>4, <1>6 DEF Scheduled
    <3> QED BY <3>1
  <2>3. CASE m < row.next
    <3>1. \/ \E i \in Ids : Scheduled(i) /\ occ[i].nominal = m
          \/ \E e \in coalesced : e.first <= m /\ m <= e.last
      BY <2>3, <1>0, <1>2 DEF NothingIsSkippedSilently
    <3> QED BY <3>1, <1>1, <1>6
  <2>4. CASE row.next <= m /\ m < Nominal(t)
    <3>1. count_between(Cadence, row.next, Nominal(t)) > 1
      <4>1. PICK C \in SUBSET Nat : C = Cadence
        BY <1>10
      <4>2. PICK b \in C, f \in Nat : b = Nominal(t) /\ f = row.next
        BY <1>2, <4>1
      <4>3. m \in C /\ m < b /\ f <= m /\ IsFiniteSet(C)
        BY <2>4, <1>10, <4>1, <4>2
      <4>4. count_between(C, f, b) > 1
        BY <4>3, TwoAreCounted
      <4> QED BY <4>1, <4>2, <4>4
    <3>2. Misfires(row.next, Nominal(t)) \in coalesced'
      BY <3>1, <1>1 DEF Coalesce
    <3>3. Misfires(row.next, Nominal(t)).first = row.next /\ Misfires(row.next, Nominal(t)).last = Nominal(t)
      BY DEF Misfires
    <3> QED BY <2>1, <2>4, <3>2, <3>3, <1>2
  <2> QED BY <2>1, <2>2, <2>3, <2>4, <1>2
<1>14. CountMatchesEvents'
  <2>1. CASE failed
    BY <2>1, <1>0, <1>1, <1>3, FailureIsCounted
  <2>2. CASE ~failed
    <3>1. row'.failures = row.failures /\ log' = log
      BY <2>2, <1>0, <1>1, <1>3 DEF TypeOK, Rows
    <3> QED BY <3>1, <1>0 DEF CountMatchesEvents
  <2> QED BY <2>1, <2>2
<1> QED BY <1>7, <1>8, <1>9, <1>12, <1>13, <1>14 DEF ScheduleInv

-----------------------------------------------------------------------------
(* Steps that leave the row alone *)

\* A step that only ends runs, drops hooks, appends events or lets time pass.
LEMMA QuietKeeps ==
  ASSUME ScheduleInv, OccurrencesKept, occ' \in Seq(Occurrences),
         row' = row, revs' = revs, log' = log, owner' = owner, since' = since,
         requests' = requests, coalesced \subseteq coalesced',
         now' \in 1..MaxTime, now' >= now
  PROVE  ScheduleInv'
<1>0. /\ TypeOK /\ owner \in Requests /\ since \in Nat /\ RequestFits /\ OccurrencesInOrder
      /\ LaterRunsAreHidden /\ NextIsAhead /\ NothingIsSkippedSilently /\ CountMatchesEvents
  BY DEF ScheduleInv
<1>1. TypeOK'
  BY <1>0 DEF TypeOK
<1>2. RequestFits'
  <2>1. Ids' = Ids /\ \A i \in Ids : occ'[i].nominal = occ[i].nominal /\ (Scheduled(i)' <=> Scheduled(i))
    BY DEF OccurrencesKept, Ids, Scheduled, Keeps
  <2>2. owner.at \in Nat /\ now \in Nat /\ now' \in Nat
    BY <1>0, CadenceIsSet DEF Requests
  <2>3. owner.op # "none" => owner.at <= now'
    BY <1>0, <2>2 DEF RequestFits
  <2>4. DecidedBy(owner.at) => DecidedBy(owner.at)'
    BY <2>1 DEF DecidedBy
  <2>5. Revision' = Revision
    BY DEF Revision
  <2> QED BY <1>0, <2>3, <2>4, <2>5 DEF RequestFits, RowFits
<1>3. OccurrencesInOrder' /\ LaterRunsAreHidden'
  BY <1>0, KeptInOrder
<1>4. NextIsAhead' /\ NothingIsSkippedSilently'
  BY <1>0, KeptAhead
<1>5. CountMatchesEvents'
  BY <1>0 DEF CountMatchesEvents
<1> QED BY <1>0, <1>1, <1>2, <1>3, <1>4, <1>5 DEF ScheduleInv

\* The occurrence of a run that ends or is accounted for.
LEMMA OccurrenceMoves ==
  ASSUME TypeOK, NEW i \in Ids, NEW p \in Occurrences, Keeps(occ[i], p),
         occ' = [occ EXCEPT ![i] = p]
  PROVE  occ' \in Seq(Occurrences) /\ OccurrencesKept
<1>1. Len(occ) \in Nat /\ Ids = 1..Len(occ) /\ \A j \in Ids : occ[j] \in Occurrences
  BY IdsAreNumbers
<1>2. occ' \in Seq(Occurrences) /\ DOMAIN occ' = DOMAIN occ
  BY <1>1 DEF TypeOK, Ids
<1>3. \A j \in Ids : occ'[j] = IF j = i THEN p ELSE occ[j]
  BY DEF Ids, TypeOK
<1> QED BY <1>2, <1>3 DEF OccurrencesKept, Keeps

\* The end of a run, with or without its hook, and the loss of a hook.
LEMMA RunsKeep ==
  ASSUME ScheduleInv, NEW i \in Ids,
         \/ \E s \in Terminal : RunEnds(i, s) \/ RunEndsUnhooked(i, s)
         \/ HookIsLost(i)
  PROVE  ScheduleInv'
<1>0. TypeOK /\ occ[i] \in Occurrences /\ now \in 1..MaxTime /\ now \in Nat
  BY IdsAreNumbers, CadenceIsSet DEF ScheduleInv, TypeOK
<1>1. PICK p \in Occurrences : Keeps(occ[i], p) /\ occ' = [occ EXCEPT ![i] = p]
  <2>1. ASSUME NEW s \in Terminal, RunEnds(i, s)
        PROVE  \E p \in Occurrences : Keeps(occ[i], p) /\ occ' = [occ EXCEPT ![i] = p]
    <3> DEFINE p == [occ[i] EXCEPT !.run = s, !.hook = TRUE]
    <3>1. p \in Occurrences /\ Keeps(occ[i], p)
      BY <1>0 DEF Occurrences, Keeps, Terminal
    <3>2. occ' = [occ EXCEPT ![i] = p]
      BY <2>1, <1>0 DEF RunEnds
    <3> QED BY <3>1, <3>2
  <2>2. ASSUME NEW s \in Terminal, RunEndsUnhooked(i, s)
        PROVE  \E p \in Occurrences : Keeps(occ[i], p) /\ occ' = [occ EXCEPT ![i] = p]
    <3> DEFINE p == [occ[i] EXCEPT !.run = s]
    <3>1. p \in Occurrences /\ Keeps(occ[i], p)
      BY <1>0 DEF Occurrences, Keeps, Terminal
    <3>2. occ' = [occ EXCEPT ![i] = p]
      BY <2>2, <1>0 DEF RunEndsUnhooked
    <3> QED BY <3>1, <3>2
  <2>3. CASE HookIsLost(i)
    <3> DEFINE p == [occ[i] EXCEPT !.hook = FALSE]
    <3>1. p \in Occurrences /\ Keeps(occ[i], p)
      BY <1>0 DEF Occurrences, Keeps
    <3>2. occ' = [occ EXCEPT ![i] = p]
      BY <2>3, <1>0 DEF HookIsLost
    <3> QED BY <3>1, <3>2
  <2> QED BY <2>1, <2>2, <2>3
<1>2. occ' \in Seq(Occurrences) /\ OccurrencesKept
  BY <1>0, <1>1, OccurrenceMoves
<1>3. /\ row' = row /\ revs' = revs /\ log' = log /\ owner' = owner /\ since' = since
      /\ requests' = requests /\ coalesced' = coalesced /\ now' = now
  BY DEF RunEnds, RunEndsUnhooked, HookIsLost
<1> QED BY <1>0, <1>2, <1>3, QuietKeeps

\* A run on demand.  (materialize_manual, _refresh_one.)
LEMMA ManualKeeps ==
  ASSUME ScheduleInv, NEW t \in Readings, NEW k \in Keys \cup {Refresh}, ~InFlight, StartManual(t, k)
  PROVE  ScheduleInv'
<1>0. /\ TypeOK /\ owner \in Requests /\ since \in Nat /\ RequestFits /\ OccurrencesInOrder
      /\ LaterRunsAreHidden /\ NextIsAhead /\ NothingIsSkippedSilently /\ CountMatchesEvents
  BY DEF ScheduleInv
<1>1. /\ occ' = Append(occ, Occurrence(t, t, k, "MATERIALIZED"))
      /\ row' = row /\ revs' = revs /\ log' = log /\ owner' = owner /\ since' = since
      /\ requests' = requests /\ coalesced' = coalesced /\ now' = now
  BY DEF StartManual
<1>2. t \in Nat /\ t <= now /\ k # NoKey
  BY <1>0, ReadingIsPast DEF NoKey, Refresh
<1>3. PICK o \in Occurrences : /\ o = Occurrence(t, t, k, "MATERIALIZED")
                               /\ o.nominal = t /\ o.at = t /\ o.key = k
                               /\ o.disposition = "MATERIALIZED"
  BY <1>0, <1>2, OccurrenceIsTyped
<1>4. PICK n \in Nat : n = Len(occ) + 1
  BY <1>0, IdsAreNumbers
<1>5. /\ occ' \in Seq(Occurrences) /\ Ids' = Ids \cup {n} /\ n \notin Ids /\ occ'[n] = o
      /\ \A i \in Ids : occ'[i] = occ[i] /\ (Scheduled(i)' <=> Scheduled(i))
  BY <1>0, <1>1, <1>3, <1>4, Inserted
<1>6. ~Scheduled(n)'
  BY <1>2, <1>3, <1>5 DEF Scheduled
<1>7. OccurrencesInOrder' /\ LaterRunsAreHidden'
  BY <1>0, <1>1, <1>2, <1>3, InsertedInOrder
<1>8. TypeOK' /\ CountMatchesEvents'
  BY <1>0, <1>1, <1>5 DEF TypeOK, CountMatchesEvents
<1>9. Revision' = Revision /\ Cadence' = Cadence
  BY <1>1 DEF Revision, Cadence
<1>10. NextIsAhead' /\ NothingIsSkippedSilently'
  BY <1>0, <1>1, <1>5, <1>6, <1>9 DEF NextIsAhead, NothingIsSkippedSilently
<1>11. RequestFits'
  <2>1. DecidedBy(owner.at) => DecidedBy(owner.at)'
    BY <1>1, <1>5, <1>6 DEF DecidedBy
  <2> QED BY <1>0, <1>1, <1>9, <2>1 DEF RequestFits, RowFits
<1> QED BY <1>0, <1>1, <1>7, <1>8, <1>10, <1>11 DEF ScheduleInv

-----------------------------------------------------------------------------
(* The accountant *)

\* account: the count, the auto-pause and the event are one transaction.
LEMMA AccountKeeps ==
  ASSUME ScheduleInv, NEW i \in Ids, Account(i)
  PROVE  ScheduleInv'
<1>0. /\ TypeOK /\ owner \in Requests /\ since \in Nat /\ RequestFits /\ OccurrencesInOrder
      /\ LaterRunsAreHidden /\ NextIsAhead /\ NothingIsSkippedSilently /\ CountMatchesEvents
  BY DEF ScheduleInv
<1>1. occ[i] \in Occurrences /\ row \in Rows /\ RowFits(row) /\ now \in Nat
  BY <1>0, IdsAreNumbers, CadenceIsSet DEF TypeOK, RowFits
<1>2. /\ Touch /\ now' = now /\ revs' = revs /\ coalesced' = coalesced /\ since' = since
      /\ requests' = requests
      /\ log' = IF Scheduled(i) /\ occ[i].run \in {"COMPLETED", "FAILED"}
                THEN Append(log, IF occ[i].run = "COMPLETED" THEN "ok" ELSE "failed") ELSE log
  BY DEF Account
<1>3. PICK f \in Nat : f = Failures(i)
  BY <1>1 DEF Failures, Rows
<1>4. \/ row' = [row EXCEPT !.failures = f]
      \/ /\ row.state = "ACTIVE"
         /\ row' = [row EXCEPT !.failures = f, !.state = "PAUSED", !.pause_reason = "failure_limit"]
  BY <1>3 DEF Account
<1>5. /\ row' \in Rows /\ RowFits(row') /\ row'.failures = f
      /\ row'.revision = row.revision /\ row'.next = row.next
      /\ row'.state = "ACTIVE" => row.state = "ACTIVE"
  <2>1. CASE row' = [row EXCEPT !.failures = f]
    BY <1>1, <2>1 DEF Rows, RowFits, Over
  <2>2. CASE row.state = "ACTIVE" /\ row' = [row EXCEPT !.failures = f, !.state = "PAUSED",
                                                        !.pause_reason = "failure_limit"]
    BY <1>1, <2>2 DEF Rows, RowFits, Over
  <2> QED BY <1>4, <2>1, <2>2
<1>6. occ' \in Seq(Occurrences) /\ OccurrencesKept
  <2> DEFINE p == [occ[i] EXCEPT !.hook = FALSE]
  <2>1. p \in Occurrences /\ Keeps(occ[i], p)
    BY <1>1 DEF Occurrences, Keeps
  <2>2. occ' = [occ EXCEPT ![i] = p]
    BY <1>1 DEF Account
  <2> QED BY <1>0, <2>1, <2>2, OccurrenceMoves
<1>7. log' \in Seq({"ok", "failed"})
  BY <1>0, <1>2 DEF TypeOK
<1>8. TypeOK'
  BY <1>0, <1>2, <1>5, <1>6, <1>7 DEF TypeOK, RowFits
<1>9. owner' \in Requests /\ RequestFits'
  BY <1>0, <1>2, TouchedRequest
<1>10. OccurrencesInOrder' /\ LaterRunsAreHidden'
  BY <1>0, <1>1, <1>2, <1>6, KeptInOrder
<1>11. NextIsAhead' /\ NothingIsSkippedSilently'
  <2>1. Ids' = Ids /\ \A j \in Ids : occ'[j].nominal = occ[j].nominal /\ (Scheduled(j)' <=> Scheduled(j))
    BY <1>6 DEF OccurrencesKept, Ids, Scheduled, Keeps
  <2>2. Cadence' = Cadence
    BY <1>2, <1>5 DEF Cadence, Revision
  <2> QED BY <1>0, <1>2, <1>5, <2>1, <2>2 DEF NextIsAhead, NothingIsSkippedSilently
<1>12. CountMatchesEvents'
  <2>1. CASE Scheduled(i) /\ occ[i].run = "COMPLETED"
    <3>1. log' = Append(log, "ok") /\ row'.failures = 0
      BY <2>1, <1>2, <1>3, <1>5 DEF Failures
    <3> QED BY <3>1, <1>0, SuccessIsCounted
  <2>2. CASE Scheduled(i) /\ occ[i].run = "FAILED"
    <3>1. log' = Append(log, "failed") /\ row'.failures = row.failures + 1
      BY <2>2, <1>2, <1>3, <1>5 DEF Failures
    <3> QED BY <3>1, <1>0, FailureIsCounted
  <2>3. CASE ~(Scheduled(i) /\ occ[i].run \in {"COMPLETED", "FAILED"})
    <3>1. log' = log /\ row'.failures = row.failures
      BY <2>3, <1>2, <1>3, <1>5 DEF Failures
    <3> QED BY <3>1, <1>0 DEF CountMatchesEvents
  <2> QED BY <2>1, <2>2, <2>3
<1> QED BY <1>0, <1>2, <1>8, <1>9, <1>10, <1>11, <1>12 DEF ScheduleInv

-----------------------------------------------------------------------------
(* The owner *)

\* Everything decided so far was decided for an instant that has come.
LEMMA DecidedByNow == ASSUME ScheduleInv PROVE DecidedBy(now)
<1>1. TypeOK /\ OccurrencesInOrder
  BY DEF ScheduleInv
<1>2. now \in Nat /\ \A i \in Ids : occ[i].nominal \in Nat /\ occ[i].at \in Nat
  BY <1>1, IdsAreNumbers, CadenceIsSet
<1>3. \A i \in Ids : occ[i].nominal <= occ[i].at /\ occ[i].at <= now
  BY <1>1 DEF OccurrencesInOrder
<1> QED BY <1>2, <1>3 DEF DecidedBy

\* A request that reads the row and decides on a row that fits.
LEMMA RequestKeeps ==
  ASSUME ScheduleInv, NEW op \in {"pause", "resume", "cancel", "update"},
         NEW to \in Rows, NEW def \in Definitions, Request(op, to, def), RowFits(to),
         to.failures = row.failures,
         to.revision = row.revision + (IF op = "update" THEN 1 ELSE 0),
         to.state = "ACTIVE" /\ to.next # None =>
           /\ op \in {"resume", "update"}
           /\ to.next = next_after((IF op = "update" THEN def ELSE Revision).cadence, now)
  PROVE  ScheduleInv'
<1>0. /\ TypeOK /\ since \in Nat /\ OccurrencesInOrder
      /\ LaterRunsAreHidden /\ NextIsAhead /\ NothingIsSkippedSilently /\ CountMatchesEvents
  BY DEF ScheduleInv
<1>1. /\ owner' = [op |-> op, from |-> row, to |-> to, def |-> def, at |-> now, stale |-> FALSE]
      /\ requests < MaxRequests /\ requests' = requests + 1
      /\ now' = now /\ row' = row /\ revs' = revs /\ occ' = occ
      /\ coalesced' = coalesced /\ log' = log /\ since' = since
  BY DEF Request
<1>2. row \in Rows /\ now \in Nat /\ MaxRequests \in Nat /\ requests \in 0..MaxRequests
  BY <1>0, CadenceIsSet DEF TypeOK
<1>3. requests' \in 0..MaxRequests
  BY <1>1, <1>2
<1>4. TypeOK'
  BY <1>0, <1>1, <1>3 DEF TypeOK
<1>5. /\ owner'.op = op /\ owner'.from = row /\ owner'.to = to /\ owner'.def = def
      /\ owner'.at = now /\ owner'.stale = FALSE
  BY <1>1
<1>6. owner' \in Requests
  BY <1>1, <1>2 DEF Requests
<1>7. DecidedBy(owner.at)'
  <2>1. \A i \in Ids : Scheduled(i) => occ[i].nominal <= now
    BY DecidedByNow DEF DecidedBy
  <2> QED BY <1>1, <1>5, <2>1 DEF DecidedBy, Ids, Scheduled
<1>8. Revision' = Revision /\ Cadence' = Cadence
  BY <1>1 DEF Revision, Cadence
<1>9. RequestFits'
  BY <1>1, <1>2, <1>5, <1>7, <1>8 DEF RequestFits, RowFits
<1>10. OccurrencesInOrder' /\ LaterRunsAreHidden'
  BY <1>0, <1>1 DEF OccurrencesInOrder, LaterRunsAreHidden, Hides, Materialized, Ids, Scheduled
<1>11. NextIsAhead' /\ NothingIsSkippedSilently'
  BY <1>0, <1>1, <1>8 DEF NextIsAhead, NothingIsSkippedSilently, Ids, Scheduled
<1>12. CountMatchesEvents'
  BY <1>0, <1>1 DEF CountMatchesEvents
<1> QED BY <1>0, <1>1, <1>4, <1>6, <1>9, <1>10, <1>11, <1>12 DEF ScheduleInv

\* pause, resume, cancel and update
LEMMA OwnerKeeps ==
  ASSUME ScheduleInv, Pause \/ Resume \/ Cancel \/ \E d \in Definitions : Update(d)
  PROVE  ScheduleInv'
<1>0. TypeOK /\ row \in Rows /\ RowFits(row) /\ Revision \in Definitions /\ now \in Nat
      /\ Cadence \in SUBSET (Nat \ {None}) /\ row.revision = Len(revs)
  BY CadenceIsSet DEF ScheduleInv, TypeOK, RowFits
<1>r. row.revision = row.revision + 0
  BY <1>0 DEF Rows
<1>1. CASE Pause
  <2> DEFINE to == [row EXCEPT !.state = "PAUSED", !.pause_reason = "user", !.next = None]
  <2>1. /\ to \in Rows /\ to.state = "PAUSED" /\ to.pause_reason = "user"
        /\ to.failures = row.failures /\ to.revision = row.revision
    BY <1>0 DEF Rows, None
  <2>2. RowFits(to)
    BY <2>1 DEF RowFits, Over
  <2>3. Request("pause", to, Revision)
    BY <1>1 DEF Pause
  <2> HIDE DEF to
  <2> QED BY <1>0, <1>r, <2>1, <2>2, <2>3, RequestKeeps
<1>2. CASE Resume
  <2>1. PICK n \in Nat : n = next_after(Cadence, now)
    BY <1>0, NextAfter
  <2> DEFINE to == [row EXCEPT !.state = "ACTIVE", !.pause_reason = "none", !.next = n]
  <2>2. /\ to \in Rows /\ to.state = "ACTIVE" /\ to.pause_reason = "none" /\ to.next = n
        /\ to.failures = row.failures /\ to.revision = row.revision
    BY <1>0 DEF Rows
  <2>3. RowFits(to)
    BY <2>2 DEF RowFits, Over
  <2>4. Request("resume", to, Revision)
    BY <1>2, <2>1 DEF Resume, NextOnResume
  <2>5. n = next_after(Revision.cadence, now)
    BY <2>1 DEF Cadence
  <2> HIDE DEF to
  <2> QED BY <1>0, <1>r, <2>2, <2>3, <2>4, <2>5, RequestKeeps
<1>3. CASE Cancel
  <2> DEFINE to == [row EXCEPT !.state = "CANCELLED", !.pause_reason = "none", !.next = None]
  <2>1. /\ to \in Rows /\ to.state = "CANCELLED" /\ to.pause_reason = "none" /\ to.next = None
        /\ to.failures = row.failures /\ to.revision = row.revision
    BY <1>0 DEF Rows, None
  <2>2. RowFits(to)
    BY <2>1 DEF RowFits, Over
  <2>3. Request("cancel", to, Revision)
    BY <1>3 DEF Cancel
  <2> HIDE DEF to
  <2> QED BY <1>0, <1>r, <2>1, <2>2, <2>3, RequestKeeps
<1>4. ASSUME NEW d \in Definitions, Update(d) PROVE ScheduleInv'
  <2> DEFINE next == IF row.state = "ACTIVE" THEN next_after(d.cadence, now) ELSE None
  <2>1. PICK n \in Nat, r \in 1..MaxRevisions : n = next /\ r = row.revision + 1
    <3>1. d.cadence \in SUBSET (Nat \ {None})
      OBVIOUS
    <3>2. next \in Nat
      BY <1>0, <3>1, NextAfter DEF None
    <3>3. Len(revs) < MaxRevisions /\ MaxRevisions \in Nat /\ row.revision \in 1..MaxRevisions
      BY <1>0, <1>4 DEF Update, Rows
    <3>4. row.revision + 1 \in 1..MaxRevisions
      BY <1>0, <3>3
    <3> HIDE DEF next
    <3> QED BY <3>2, <3>4
  <2> DEFINE to == [row EXCEPT !.revision = r, !.next = n]
  <2>2. /\ to \in Rows /\ to.state = row.state /\ to.pause_reason = row.pause_reason
        /\ to.failures = row.failures /\ to.revision = r /\ to.next = n
    BY <1>0 DEF Rows
  <2>3. RowFits(to)
    BY <1>0, <1>4, <2>2 DEF RowFits, Update
  <2>4. Request("update", to, d)
    BY <1>4, <2>1 DEF Update
  <2>5. to.state = "ACTIVE" => n = next_after(d.cadence, now)
    BY <2>1, <2>2
  <2>6. to.revision = row.revision + 1
    BY <2>1, <2>2
  <2> HIDE DEF to
  <2> QED BY <2>2, <2>3, <2>4, <2>5, <2>6, RequestKeeps
<1> QED BY <1>1, <1>2, <1>3, <1>4

\* replace: the request is dropped, or it writes a row that fits the row it read.
LEMMA ReplaceKeeps ==
  ASSUME ScheduleInv, Replace
  PROVE  ScheduleInv'
<1>0. /\ TypeOK /\ since \in Nat /\ owner \in Requests /\ RequestFits /\ OccurrencesInOrder
      /\ LaterRunsAreHidden /\ NextIsAhead /\ NothingIsSkippedSilently /\ CountMatchesEvents
  BY DEF ScheduleInv
<1>1. /\ owner.op # "none" /\ owner' = NoRequest
      /\ now' = now /\ occ' = occ /\ coalesced' = coalesced /\ log' = log /\ requests' = requests
  BY DEF Replace
<1>2. owner' \in Requests /\ RequestFits'
  <2>1. owner'.op = "none"
    BY <1>1 DEF NoRequest
  <2>2. owner' \in Requests
    BY <1>1 DEF NoRequest, Requests
  <2> QED BY <2>1, <2>2 DEF RequestFits
<1>3. OccurrencesInOrder' /\ LaterRunsAreHidden'
  BY <1>0, <1>1 DEF OccurrencesInOrder, LaterRunsAreHidden, Hides, Materialized, Ids, Scheduled
<1>4. CASE ~UnchangedSinceRead
  <2>1. row' = row /\ revs' = revs /\ since' = since
    BY <1>4 DEF Replace
  <2>2. Cadence' = Cadence
    BY <2>1 DEF Cadence, Revision
  <2>3. TypeOK' /\ CountMatchesEvents'
    BY <1>0, <1>1, <2>1 DEF TypeOK, CountMatchesEvents
  <2>4. NextIsAhead' /\ NothingIsSkippedSilently'
    BY <1>0, <1>1, <2>1, <2>2 DEF NextIsAhead, NothingIsSkippedSilently, Ids, Scheduled
  <2> QED BY <1>0, <1>2, <1>3, <2>1, <2>3, <2>4 DEF ScheduleInv
<1>5. CASE UnchangedSinceRead
  <2>1. /\ ~owner.stale
        /\ row' = owner.to
        /\ revs' = IF owner.op = "update" THEN Append(revs, owner.def) ELSE revs
        /\ since' = IF owner.op \in {"resume", "update"} THEN owner.at ELSE since
    BY <1>5 DEF Replace, UnchangedSinceRead
  <2>2. /\ owner.at <= now /\ owner.at \in Nat
        /\ owner.to \in Rows /\ owner.def \in Definitions /\ RowFits(owner.to)
        /\ DecidedBy(owner.at)
        /\ owner.to.failures = row.failures
        /\ owner.to.revision = row.revision + (IF owner.op = "update" THEN 1 ELSE 0)
        /\ owner.to.state = "ACTIVE" /\ owner.to.next # None =>
             /\ owner.op \in {"resume", "update"}
             /\ owner.to.next =
                  next_after((IF owner.op = "update" THEN owner.def ELSE Revision).cadence, owner.at)
    BY <1>0, <1>1, <2>1 DEF RequestFits, Requests
  <2>3. revs \in Seq(Definitions) /\ row.revision = Len(revs) /\ Len(revs) \in Nat
    BY <1>0 DEF TypeOK
  <2>4. revs' \in Seq(Definitions) /\ row'.revision = Len(revs')
        /\ revs'[row'.revision] = IF owner.op = "update" THEN owner.def ELSE Revision
    <3>1. CASE owner.op = "update"
      BY <3>1, <2>1, <2>2, <2>3
    <3>2. CASE owner.op # "update"
      BY <3>2, <2>1, <2>2, <2>3 DEF Revision
    <3> QED BY <3>1, <3>2
  <2>5. TypeOK' /\ since' \in Nat
    BY <1>0, <1>1, <2>1, <2>2, <2>4 DEF TypeOK, RowFits
  <2>6. CountMatchesEvents'
    BY <1>0, <1>1, <2>1, <2>2 DEF CountMatchesEvents
  <2>7. Cadence' = (IF owner.op = "update" THEN owner.def ELSE Revision).cadence
    BY <2>4 DEF Cadence, Revision
  <2>8. row'.state = "ACTIVE" /\ row'.next # None =>
          /\ since' = owner.at /\ row'.next \in Nat /\ row'.next > owner.at
          /\ \A m \in Cadence' : m > owner.at => row'.next <= m
    <3>1. PICK C \in SUBSET (Nat \ {None}), t \in Nat : C = Cadence' /\ t = owner.at
      <4>1. Cadence' \in SUBSET (Nat \ {None})
        BY <1>0, <2>2, <2>7, CadenceIsSet
      <4> QED BY <4>1, <2>2
    <3>2. /\ next_after(C, t) \in Nat
          /\ next_after(C, t) # None => next_after(C, t) > t
          /\ \A m \in C : m > t => next_after(C, t) <= m
      BY NextAfter
    <3> QED BY <2>1, <2>2, <2>7, <3>1, <3>2
  <2>9. NextIsAhead'
    <3> SUFFICES ASSUME row'.state = "ACTIVE", row'.next # None
                 PROVE  since' < row'.next
                        /\ \A i \in Ids' : Scheduled(i)' => occ'[i].nominal < row'.next
      BY DEF NextIsAhead
    <3>1. \A i \in Ids : Scheduled(i) => occ[i].nominal <= owner.at /\ occ[i].nominal \in Nat
      BY <1>0, <2>2, IdsAreNumbers DEF DecidedBy
    <3>2. \A i \in Ids : Scheduled(i) => occ[i].nominal < row'.next
      BY <2>2, <2>8, <3>1
    <3> QED BY <1>1, <2>2, <2>8, <3>2 DEF Ids, Scheduled
  <2>10. NothingIsSkippedSilently'
    <3> SUFFICES ASSUME row'.state = "ACTIVE", row'.next # None,
                        NEW m \in Cadence', since' < m, m < row'.next
                 PROVE  FALSE
      BY DEF NothingIsSkippedSilently
    <3>1. m \in Nat
      BY <1>0, <2>2, <2>7, CadenceIsSet
    <3> QED BY <2>2, <2>8, <3>1
  <2> QED BY <1>2, <1>3, <2>5, <2>6, <2>9, <2>10 DEF ScheduleInv
<1> QED BY <1>4, <1>5

-----------------------------------------------------------------------------
(* The theorems *)

\* create
LEMMA InitFits == Init => ScheduleInv
<1> SUFFICES ASSUME Init PROVE ScheduleInv
  OBVIOUS
<1>1. PICK d \in Definitions :
        /\ revs = <<d>> /\ next_after(d.cadence, 0) # None
        /\ row = [state |-> "ACTIVE", pause_reason |-> "none", revision |-> 1,
                  next |-> next_after(d.cadence, 0), failures |-> 0]
  BY DEF Init
<1>2. /\ now = 1 /\ occ = <<>> /\ coalesced = {} /\ log = <<>> /\ owner = NoRequest
      /\ since = 0 /\ requests = 0
  BY DEF Init
<1>3. MaxTime \in Nat \ {0} /\ MaxRevisions \in Nat \ {0} /\ MaxRequests \in Nat
  OBVIOUS
<1>4. d.cadence \in SUBSET (Nat \ {None})
  OBVIOUS
<1>5. PICK n \in Nat : n = next_after(d.cadence, 0) /\ n > 0 /\ \A m \in d.cadence : m > 0 => n <= m
  BY <1>1, <1>4, NextAfter
<1>6. /\ row.state = "ACTIVE" /\ row.pause_reason = "none" /\ row.revision = 1
      /\ row.next = n /\ row.failures = 0 /\ row \in Rows
  BY <1>1, <1>3, <1>5 DEF Rows
<1>7. Ids = {}
  BY <1>2 DEF Ids
<1>8. TypeOK
  BY <1>1, <1>2, <1>3, <1>6 DEF TypeOK, Over
<1>9. owner \in Requests /\ RequestFits
  BY <1>2 DEF NoRequest, Requests, RequestFits
<1>10. OccurrencesInOrder /\ LaterRunsAreHidden
  BY <1>7 DEF OccurrencesInOrder, LaterRunsAreHidden
<1>11. Cadence = d.cadence
  BY <1>1, <1>6 DEF Cadence, Revision
<1>12. NextIsAhead /\ NothingIsSkippedSilently
  BY <1>2, <1>4, <1>5, <1>6, <1>7, <1>11 DEF NextIsAhead, NothingIsSkippedSilently
<1>13. CountMatchesEvents
  <2>1. {i \in DOMAIN log : log[i] = "ok"} = {} /\ Len(log) = 0
    BY <1>2
  <2> QED BY <1>6, <2>1 DEF CountMatchesEvents, LastOf, None
<1> QED BY <1>2, <1>8, <1>9, <1>10, <1>12, <1>13 DEF ScheduleInv

\* The decisions of the scheduler: SkipOverlap, Miss, Refuse and Fire.
LEMMA MaterializeDecides ==
  ASSUME NEW t, Materialize(t)
  PROVE  \E d \in {"MATERIALIZED", "MISSED", "SKIPPED_OVERLAP", "DENIED"}, failed \in BOOLEAN :
           Decide(t, d, failed) /\ (d = "MATERIALIZED" => ~InFlight)
BY DEF Materialize, SkipOverlap, Miss, Refuse, Fire

\* Occurrences that do not change are kept.
LEMMA OccurrencesAreUnchanged ==
  ASSUME TypeOK, occ' = occ PROVE OccurrencesKept /\ occ' \in Seq(Occurrences)
BY DEF OccurrencesKept, Keeps, TypeOK

\* The invariant holds, action by action.
LEMMA ScheduleInvHolds == Spec => []ScheduleInv
<1>1. ScheduleInv /\ [Next]_vars => ScheduleInv'
  <2> SUFFICES ASSUME ScheduleInv, [Next]_vars PROVE ScheduleInv'
    OBVIOUS
  <2>0. TypeOK /\ now \in 1..MaxTime /\ MaxTime \in Nat /\ now \in Nat
    BY CadenceIsSet DEF ScheduleInv, TypeOK
  <2>1. ASSUME NEW t \in Readings, Materialize(t) PROVE ScheduleInv'
    BY <2>1, MaterializeDecides, DecideKeeps
  <2>2. ASSUME NEW t \in Readings, AdmissionBusy(t) PROVE ScheduleInv'
    <3>1. /\ row' = row /\ revs' = revs /\ log' = log /\ owner' = owner /\ since' = since
          /\ requests' = requests /\ coalesced \subseteq coalesced' /\ now' = now /\ occ' = occ
      BY <2>2 DEF AdmissionBusy
    <3> QED BY <2>0, <3>1, OccurrencesAreUnchanged, QuietKeeps
  <2>3. ASSUME NEW i \in Ids, RunSteps(i) PROVE ScheduleInv'
    BY <2>3, RunsKeep, AccountKeeps DEF RunSteps
  <2>4. CASE Pause \/ Resume \/ Cancel \/ \E d \in Definitions : Update(d)
    BY <2>4, OwnerKeeps
  <2>5. ASSUME NEW t \in Readings, RefreshFeed(t) \/ \E k \in Keys : RunNow(t, k)
        PROVE  ScheduleInv'
    <3>1. PICK k \in Keys \cup {Refresh} : ~InFlight /\ StartManual(t, k)
      BY <2>5 DEF RefreshFeed, RunNow
    <3> QED BY <3>1, ManualKeeps
  <2>6. CASE Replace
    BY <2>6, ReplaceKeeps
  <2>7. CASE Tick
    <3>1. /\ row' = row /\ revs' = revs /\ log' = log /\ owner' = owner /\ since' = since
          /\ requests' = requests /\ coalesced' = coalesced /\ now' = now + 1 /\ occ' = occ
          /\ now < MaxTime
      BY <2>7 DEF Tick
    <3>2. now' \in 1..MaxTime /\ now' >= now
      BY <2>0, <3>1
    <3> QED BY <2>0, <3>1, <3>2, OccurrencesAreUnchanged, QuietKeeps
  <2>8. CASE UNCHANGED vars
    <3>1. /\ row' = row /\ revs' = revs /\ log' = log /\ owner' = owner /\ since' = since
          /\ requests' = requests /\ coalesced' = coalesced /\ now' = now /\ occ' = occ
      BY <2>8 DEF vars
    <3> QED BY <2>0, <3>1, OccurrencesAreUnchanged, QuietKeeps
  <2> QED BY <2>1, <2>2, <2>3, <2>4, <2>5, <2>6, <2>7, <2>8 DEF Next, OwnerActs
<1> QED BY <1>1, InitFits, PTL DEF Spec

\* The variables keep their types; a paused row has a reason and a schedule that
\* is over has no next firing.  (schedule_service, materializer, accounting.)
THEOREM ScheduleTypeCorrect == Spec => []TypeOK
BY ScheduleInvHolds, PTL DEF ScheduleInv

\* However the owner's unlocked replacements interleave with the scheduler and the
\* accountant, the failure count of the row is what the process events say.
\* (replace, advance, account.)
THEOREM ScheduleCountMatches == Spec => []CountMatchesEvents
BY ScheduleInvHolds, PTL DEF ScheduleInv

\* Two runs of a schedule go on at the same time only behind a run for a later
\* instant, started before the older of them, one of the two on demand: whatever
\* readings of the clock the scheduler and the requests hold when they get the lock.
\* (latest_materialized, materialize_manual)
THEOREM ScheduleOverlaps == Spec => []OverlapNeedsHiddenRun
<1>1. ScheduleInv => OverlapNeedsHiddenRun
  BY DEF ScheduleInv, OverlapNeedsHiddenRun, LaterRunsAreHidden, OccurrencesInOrder
<1> QED BY <1>1, ScheduleInvHolds, PTL

\* No instant of the running cadence that the schedule has left behind is without
\* an occurrence or a misfires event.  (_append_coalesced_misfires.)
THEOREM ScheduleSkipsNothing == Spec => []NothingIsSkippedSilently
BY ScheduleInvHolds, PTL DEF ScheduleInv

\* A scheduled occurrence that is inserted is of an instant after the last resume
\* or update.  (resume, account, materialize.)
THEOREM ScheduleNoBackfill == Spec => NoBackfill
<1> DEFINE A == \A i \in DOMAIN occ' \ DOMAIN occ : occ'[i].key = NoKey => occ'[i].nominal > since
<1>1. ScheduleInv /\ [Next]_vars => [A]_vars
  <2> SUFFICES ASSUME ScheduleInv, Next PROVE A
    OBVIOUS
  <2>0. TypeOK /\ since \in Nat
    BY DEF ScheduleInv
  <2>1. ASSUME NEW t \in Readings, Materialize(t) PROVE A
    <3>1. PICK d \in {"MATERIALIZED", "MISSED", "SKIPPED_OVERLAP", "DENIED"}, failed \in BOOLEAN :
            Decide(t, d, failed)
      BY <2>1, MaterializeDecides
    <3>2. Due(t) /\ occ' = Append(occ, Occurrence(t, Nominal(t), NoKey, d))
      BY <3>1 DEF Decide
    <3>3. Nominal(t) \in Nat /\ since < Nominal(t)
      BY <3>2, DueInstant
    <3>4. PICK o \in Occurrences : o = Occurrence(t, Nominal(t), NoKey, d) /\ o.nominal = Nominal(t)
      BY <2>0, <3>3, OccurrenceIsTyped
    <3>5. DOMAIN occ' = DOMAIN occ \cup {Len(occ) + 1} /\ occ'[Len(occ) + 1] = o
      BY <2>0, <3>2, <3>4, Inserted DEF Ids
    <3> QED BY <2>0, <3>3, <3>4, <3>5
  <2>2. ASSUME NEW t \in Readings, RefreshFeed(t) \/ \E k \in Keys : RunNow(t, k)
        PROVE  A
    <3>1. PICK k \in Keys \cup {Refresh} : StartManual(t, k)
      BY <2>2 DEF RefreshFeed, RunNow
    <3>2. k # NoKey /\ t \in Nat
      BY <2>0, ReadingIsPast DEF NoKey, Refresh
    <3>3. PICK o \in Occurrences : o = Occurrence(t, t, k, "MATERIALIZED") /\ o.key = k
      BY <2>0, <3>2, OccurrenceIsTyped
    <3>4. DOMAIN occ' = DOMAIN occ \cup {Len(occ) + 1} /\ occ'[Len(occ) + 1] = o
      BY <2>0, <3>1, <3>3, Inserted DEF Ids, StartManual
    <3> QED BY <3>2, <3>3, <3>4
  <2>3. ASSUME NEW i \in Ids, RunSteps(i) PROVE A
    <3>1. DOMAIN occ' = DOMAIN occ
      BY <2>3, <2>0 DEF RunSteps, RunEnds, RunEndsUnhooked, HookIsLost, Account, TypeOK
    <3> QED BY <3>1
  <2>4. CASE Pause \/ Resume \/ Cancel \/ (\E d \in Definitions : Update(d)) \/ Replace
             \/ (\E t \in Readings : AdmissionBusy(t)) \/ Tick
    <3>1. occ' = occ
      BY <2>4 DEF Pause, Resume, Cancel, Update, Request, Replace, AdmissionBusy, Tick
    <3> QED BY <3>1
  <2> QED BY <2>1, <2>2, <2>3, <2>4 DEF Next, OwnerActs
<1> QED BY <1>1, ScheduleInvHolds, PTL DEF Spec, NoBackfill
=============================================================================
