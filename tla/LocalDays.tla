----------------------------- MODULE LocalDays -----------------------------
(***************************************************************************)
(* The worker's calendar: an instant belongs to a local day, and a daily    *)
(* job runs once the time of day is past its boundary (00:10 for the daily *)
(* figures, 00:20 for the video catalogue).  A day is DayTicks ticks long.  *)
(***************************************************************************)
EXTENDS Integers, FiniteSetTheorems, TLAPS

CONSTANTS
    NULL,       \* an absent row, figure or instant
    DayTicks,   \* ticks in a day
    Boundary,   \* the first tick of a day at which the daily job may run
    StartTime,  \* when the worker is first deployed
    MaxTime     \* bound on the clock

ASSUME DaysAssumption ==
    /\ NULL \notin Int
    /\ DayTicks \in Nat \ {0}
    /\ Boundary \in 0..DayTicks - 1
    /\ StartTime \in Nat
    /\ MaxTime \in Nat
    /\ StartTime <= MaxTime

Times == StartTime..MaxTime

\* localCalendarDate.
Day(t) == t \div DayTicks

Days == 0..MaxTime

\* isPastDailyBoundary.
IsPastBoundary(t) == t % DayTicks >= Boundary

\* previousCalendarDate.
PreviousDay(d) == d - 1

----------------------------------------------------------------------------
\* What the proofs about the two daily jobs share.

\* The day of an instant is a natural number no larger than the instant.
LEMMA DayType ==
    ASSUME NEW t \in Times
    PROVE  t \in Nat /\ Day(t) \in Days /\ Day(t) \in Nat
<1>1. t \in Nat /\ t <= MaxTime
    BY DaysAssumption DEF Times
<1>2. DayTicks \in Nat \ {0}
    BY DaysAssumption
<1>3. ASSUME NEW u \in Nat, NEW k \in Nat \ {0}
      PROVE  u \div k \in 0..u
    BY SMTT(20)
<1>4. t \div DayTicks \in 0..t
    BY <1>1, <1>2, <1>3
<1> QED
    BY <1>1, <1>4, DaysAssumption DEF Day, Days

\* Later instants belong to no earlier day.
LEMMA DayMonotone ==
    ASSUME NEW t \in Times, NEW u \in Times, t <= u
    PROVE  Day(t) <= Day(u)
<1>1. t \in Nat /\ u \in Nat
    BY DaysAssumption DEF Times
<1>2. DayTicks \in Nat \ {0}
    BY DaysAssumption
<1>3. ASSUME NEW a \in Nat, NEW b \in Nat, a <= b, NEW k \in Nat \ {0}
      PROVE  a \div k <= b \div k
    BY <1>3, SMTT(30)
<1> QED
    BY <1>1, <1>2, <1>3 DEF Day

----------------------------------------------------------------------------
\* A finite set of numbers has a least one.
LEMMA LeastMember ==
    ASSUME NEW S, S \subseteq Int, IsFiniteSet(S), S # {}
    PROVE  \E x \in S : \A y \in S : x <= y
<1> DEFINE below(x) == {y \in S : y <= x}
           F == {below(x) : x \in S}
<1>1. F \subseteq FiniteSubsetsOf(S)
    <2>1. ASSUME NEW x \in S PROVE below(x) \in SUBSET S /\ IsFiniteSet(below(x))
        <3>1. below(x) \in SUBSET S
            OBVIOUS
        <3> QED
            BY <3>1, FS_Subset
    <2> QED
        BY <2>1 DEF FiniteSubsetsOf
<1>2. F # {}
    OBVIOUS
<1>3. PICK U \in F : \A V \in F : ~(<<V, U>> \in StrictSubsetOrdering(S))
    BY <1>1, <1>2, FS_StrictSubsetOrderingWellFounded, WFMin
<1>4. PICK x \in S : U = below(x)
    BY <1>3
<1>5. ASSUME NEW y \in S PROVE x <= y
    <2>1. SUFFICES ASSUME y < x PROVE FALSE
        OBVIOUS
    <2>2. below(y) \subseteq below(x) /\ x \in below(x) /\ x \notin below(y)
        <3>1. x \in Int /\ y \in Int /\ \A z \in S : z \in Int
            OBVIOUS
        <3>2. ASSUME NEW z \in below(y) PROVE z \in below(x)
            BY <2>1, <3>1
        <3>3. x <= x /\ ~(x <= y)
            BY <2>1, <3>1
        <3> QED
            BY <3>2, <3>3, Zenon
    <2>3. <<below(y), below(x)>> \in StrictSubsetOrdering(S)
        BY <2>2 DEF StrictSubsetOrdering
    <2> QED
        BY <1>3, <1>4, <2>3
<1> QED
    BY <1>5
=============================================================================
