--------------------------- MODULE LogListenerProofs ---------------------------
(***************************************************************************)
(* The alert listener skips nothing and first logs in order. Both rest on  *)
(* one fact: wherever the container, its committed offset or a thread      *)
(* stands, current owner or not, everything before is done.                *)
(***************************************************************************)
EXTENDS LogListener, RetryTopicProofs

\* Only poison pills are forwarded, and those to the DLT.
RetryTopicsEmpty == \A l \in Levels : l # 0 => log[l] = <<>>

DltHasPoison ==
    /\ Published(Dlt) \subseteq PoisonPills
    /\ \A c \in Consumers : /\ consumer[c].pc = "fatal" => RecordOf(c) \in PoisonPills
                            /\ consumer[c].pc = "log" => RecordOf(c) \notin PoisonPills

Shape ==
    /\ LaneInv(PC)
    /\ logged \in Seq(Records)
    /\ RetryTopicsEmpty

\* The record at offset i needs nothing more.
Done(i) == LoggedBy(i, Len(logged)) \/ log[0][i] \in Published(Dlt)

Covered(n) ==
    /\ n \in Nat \ {0} /\ n <= Len(log[0]) + 1
    /\ \A i \in 1 .. n - 1 : Done(i)

CoveredInv ==
    /\ Covered(pos[0])
    /\ Covered(committed[0])
    /\ \A c \in Consumers : Busy(c) => Covered(consumer[c].offset)

\* Records are published once, and only those are logged that can be read.
Distinct ==
    /\ \A i, j \in DOMAIN log[0] : i # j => log[0][i] # log[0][j]
    /\ \A n \in DOMAIN logged : logged[n] \in Published(0) \ PoisonPills

LInv == Shape /\ DltHasPoison /\ CoveredInv /\ Distinct /\ FirstLinesInOrder

-----------------------------------------------------------------------------
\* A record is only ever added to the topic, a line to the log.
LogGrows ==
    /\ Grows
    /\ \A m \in DOMAIN logged : m \in DOMAIN logged' /\ logged'[m] = logged[m]

\* A thread in the listener is at a record of the main topic.
LEMMA AtMainTopic ==
    ASSUME Shape, NEW c \in Consumers, Busy(c)
    PROVE  /\ consumer[c].level = 0
           /\ consumer[c].offset \in DOMAIN log[0]
           /\ consumer[c].offset \in Nat \ {0}
           /\ consumer[c].pc \in PC
           /\ RecordOf(c) = log[0][consumer[c].offset]
           /\ RecordOf(c) \in Records
<1>1. /\ consumer[c] \in Running(PC)
      /\ consumer[c].level \in Levels
      /\ consumer[c].offset \in DOMAIN log[consumer[c].level]
      /\ RecordOf(c) \in Records
  BY BusyThread DEF Shape
<1>2. consumer[c].level = 0
  BY <1>1 DEF Shape, RetryTopicsEmpty
<1> QED
  BY <1>1, <1>2 DEF Running, RecordOf

LEMMA MainTopic ==
    ASSUME Shape
    PROVE  /\ 0 \in Levels /\ 0 \in Topics /\ Dlt \in Topics
           /\ Dlt \notin Levels
           /\ log \in [Topics -> Seq(Records)]
           /\ log[0] \in Seq(Records) /\ log[Dlt] \in Seq(Records)
           /\ Len(log[0]) \in Nat /\ DOMAIN log[0] = 1 .. Len(log[0])
           /\ Len(logged) \in Nat /\ DOMAIN logged = 1 .. Len(logged)
           /\ pos \in [Levels -> Nat \ {0}] /\ committed \in [Levels -> Nat \ {0}]
<1>1. 0 \in Levels /\ 0 \in Topics /\ Dlt \in Topics
  BY LevelsAreTopics
<1>2. Dlt \notin Levels
  BY AttemptsAssumption DEF Dlt, Levels
<1>3. log \in [Topics -> Seq(Records)]
  BY DEF Shape, LaneInv, LaneTypeOK
<1>4. pos \in [Levels -> Nat \ {0}] /\ committed \in [Levels -> Nat \ {0}]
  BY DEF Shape, LaneInv, LaneTypeOK
<1> QED
  BY <1>1, <1>2, <1>3, <1>4 DEF Shape

LEMMA DoneStays ==
    ASSUME Shape, Shape', LogGrows, NEW i \in DOMAIN log[0], Done(i)
    PROVE  Done(i)'
<1>1. log'[0][i] = log[0][i]
  BY MainTopic DEF LogGrows, Grows
<1>2. CASE LoggedBy(i, Len(logged))
  <2>1. PICK m \in DOMAIN logged : logged[m] = log[0][i]
    BY <1>2 DEF LoggedBy
  <2>2. m \in DOMAIN logged' /\ logged'[m] = log'[0][i]
    BY <1>1, <2>1 DEF LogGrows
  <2>3. m <= Len(logged')
    BY <2>2 DEF Shape
  <2> QED
    BY <2>2, <2>3 DEF Done, LoggedBy
<1>3. CASE log[0][i] \in Published(Dlt)
  <2>1. PICK k \in DOMAIN log[Dlt] : log[Dlt][k] = log[0][i]
    BY <1>3 DEF Published
  <2>2. k \in DOMAIN log'[Dlt] /\ log'[Dlt][k] = log'[0][i]
    BY <1>1, <2>1, MainTopic DEF LogGrows, Grows
  <2> QED
    BY <2>2 DEF Done, Published
<1> QED
  BY <1>2, <1>3 DEF Done

LEMMA CoveredStays ==
    ASSUME Shape, Shape', LogGrows, NEW n, Covered(n)
    PROVE  Covered(n)'
<1>1. n \in Nat \ {0} /\ n <= Len(log[0]) + 1
  BY DEF Covered
<1>0. log'[0] \in Seq(Records)
  BY MainTopic DEF Shape, LaneInv, LaneTypeOK
<1>2. Len(log[0]) <= Len(log'[0])
  <2>1. CASE Len(log[0]) = 0
    BY <1>0, <2>1
  <2>2. CASE Len(log[0]) # 0
    <3>1. Len(log[0]) \in DOMAIN log[0]
      BY <2>2, MainTopic
    <3>2. Len(log[0]) \in DOMAIN log'[0]
      BY <3>1, MainTopic DEF LogGrows, Grows
    <3> QED
      BY <1>0, <3>2
  <2> QED
    BY <2>1, <2>2
<1>3. ASSUME NEW i \in 1 .. n - 1 PROVE Done(i)'
  BY <1>1, DoneStays, MainTopic DEF Covered
<1> QED
  BY <1>0, <1>1, <1>2, <1>3, MainTopic DEF Covered

-----------------------------------------------------------------------------
(* The shape, and that topics and log only grow.                           *)

LEMMA ShapeInit == Init => Shape
<1>1. Init => LaneInv(PC)
  BY LaneStarts DEF Init
<1>2. Init => RetryTopicsEmpty
  BY LevelsAreTopics DEF Init, LaneInit, RetryTopicsEmpty
<1> QED
  BY <1>1, <1>2 DEF Init, Shape

\* Listener steps that leave the log file alone.
LEMMA QuietKeepsShape ==
    ASSUME Shape, LaneInv(PC)', Grows, logged' = logged,
           \A l \in Levels : l # 0 => log'[l] = log[l]
    PROVE  Shape' /\ LogGrows
BY DEF Shape, RetryTopicsEmpty, LogGrows

LEMMA ShapeNext ==
    ASSUME Shape, [Next]_vars
    PROVE  Shape' /\ LogGrows
<1>0. LaneInv(PC) /\ "next" \in PC /\ "log" \in PC /\ "fatal" \in PC
  BY DEF Shape, PC
<1>1. ASSUME NEW r \in Records, Arrive(r) PROVE Shape' /\ LogGrows
  <2>1. LaneInv(PC)' /\ Grows
    BY <1>0, <1>1, PublishKeepsLane DEF Arrive
  <2>2. \A l \in Levels : l # 0 => log'[l] = log[l]
    BY <1>1, MainTopic, LevelsAreTopics DEF Arrive, Publish
  <2> QED
    BY <1>1, <2>1, <2>2, QuietKeepsShape DEF Arrive
<1>2. ASSUME NEW c \in Consumers, NEW l \in Levels, Poll(c, l) PROVE Shape' /\ LogGrows
  <2>1. FirstStep(log[l][pos[l]]) \in PC
    BY DEF FirstStep, PC
  <2>2. LaneInv(PC)' /\ Grows
    BY <1>0, <1>2, <2>1, DeliverKeepsLane DEF Poll
  <2> QED
    BY <1>2, <2>2, QuietKeepsShape DEF Poll, Deliver
<1>3. ASSUME NEW c \in Consumers, ListenerStep(c) PROVE Shape' /\ LogGrows
  <2>0. Busy(c)
    BY <1>3 DEF ListenerStep, Resume, Log, Recover, RecoverFails, Busy, Idle
  <2>1. CASE Resume(c)
    <3>1. FirstStep(RecordOf(c)) \in PC
      BY DEF FirstStep, PC
    <3>2. LaneInv(PC)' /\ Grows
      BY <1>0, <2>0, <2>1, <3>1, GotoKeepsLane DEF Resume
    <3> QED
      BY <2>1, <3>2, QuietKeepsShape DEF Resume, Goto
  <2>2. CASE Log(c)
    <3>1. LaneInv(PC)' /\ Grows
      BY <1>0, <2>0, <2>2, FinishKeepsLane DEF Log
    <3>2. RecordOf(c) \in Records
      BY <2>0, AtMainTopic
    <3>3. /\ logged' \in Seq(Records)
          /\ \A m \in DOMAIN logged : m \in DOMAIN logged' /\ logged'[m] = logged[m]
      BY <2>2, <3>2 DEF Log, Shape
    <3> QED
      BY <2>2, <3>1, <3>3 DEF Log, Finish, Shape, RetryTopicsEmpty, LogGrows
  <2>3. CASE Recover(c)
    <3>1. LaneInv(PC)' /\ Grows
      BY <1>0, <2>0, <2>3, ForwardKeepsLane, MainTopic DEF Recover
    <3>2. \A l \in Levels : l # 0 => log'[l] = log[l]
      BY <2>3, MainTopic, LevelsAreTopics DEF Recover, Forward
    <3> QED
      BY <2>3, <3>1, <3>2, QuietKeepsShape DEF Recover
  <2>4. CASE RecoverFails(c)
    <3>1. LaneInv(PC)' /\ Grows
      BY <1>0, <2>0, <2>4, SeekBackKeepsLane, ForwardUnconfirmedKeepsLane, MainTopic
         DEF RecoverFails
    <3>2. \A l \in Levels : l # 0 => log'[l] = log[l]
      BY <2>4, MainTopic, LevelsAreTopics DEF RecoverFails, SeekBack, ForwardUnconfirmed
    <3> QED
      BY <2>4, <3>1, <3>2, QuietKeepsShape DEF RecoverFails
  <2> QED
    BY <1>3, <2>1, <2>2, <2>3, <2>4 DEF ListenerStep
<1>4. ASSUME NEW l \in Levels, Commit(l) \/ Rebalance(l) PROVE Shape' /\ LogGrows
  <2>1. LaneInv(PC)' /\ Grows
    BY <1>0, <1>4, CommitOffsetKeepsLane, ReassignKeepsLane DEF Commit, Rebalance
  <2> QED
    BY <1>4, <2>1, QuietKeepsShape DEF Commit, CommitOffset, Rebalance, Reassign
<1>5. CASE Crash
  <2>1. LaneInv(PC)' /\ Grows
    BY <1>0, <1>5, RestartKeepsLane DEF Crash
  <2> QED
    BY <1>5, <2>1, QuietKeepsShape DEF Crash, Restart
<1>6. CASE UNCHANGED vars
  <2>1. LaneInv(PC)' /\ Grows
    BY <1>0, <1>6, LaneStutters DEF vars
  <2> QED
    BY <1>6, <2>1, QuietKeepsShape DEF vars, laneVars
<1> QED
  BY <1>1, <1>2, <1>3, <1>4, <1>5, <1>6 DEF Next

-----------------------------------------------------------------------------
(* Where threads and offsets may go in a step.                             *)

LEMMA LeavingPlaces ==
    ASSUME Shape, NEW c \in Consumers, Busy(c), Leave(c)
    PROVE  /\ \A d \in Consumers \ {c} : consumer'[d] = consumer[d]
           /\ \/ consumer'[c] = Idle
              \/ /\ consumer'[c] = NextInBatch(c)
                 /\ consumer[c].offset < Len(log[0])
           /\ pos'[0] \in {pos[0], consumer[c].offset + 1}
<1>1. consumer[c].level = 0
  BY AtMainTopic
<1>2. consumer \in [Consumers -> Running(PC) \cup {Idle}]
  BY DEF Shape, LaneInv, LaneTypeOK
<1>3. \/ consumer' = [consumer EXCEPT ![c] = Idle]
      \/ /\ consumer' = [consumer EXCEPT ![c] = NextInBatch(c)]
         /\ consumer[c].offset < Len(log[0])
  BY <1>1 DEF Leave
<1>4. pos' = pos \/ pos' = [pos EXCEPT ![0] = consumer[c].offset + 1]
  BY <1>1 DEF Leave
<1> QED
  BY <1>2, <1>3, <1>4, MainTopic

\* Thread c's record is done by the step, and n is the place after it.
Passes(c, n) ==
    \E o \in DOMAIN log[0] : Busy(c) /\ o = consumer[c].offset /\ Done(o)' /\ n = o + 1

\* A thread that is busy after the step is at its record still, has been given
\* the container's next, or is at the record after one that is done.
NewPlace(c) ==
    LET after == consumer'[c].offset IN
    \/ Busy(c) /\ after = consumer[c].offset
    \/ after = pos[0] /\ after <= Len(log[0])
    \/ Passes(c, after)

NewPosition ==
    \/ pos'[0] \in {pos[0], committed[0]}
    \/ \E c \in Consumers : Passes(c, pos'[0])

Places ==
    /\ NewPosition
    /\ committed'[0] \in {committed[0], pos[0]}
    /\ \A c \in Consumers : Busy(c)' => NewPlace(c)

LEMMA SteadyPlaces ==
    ASSUME Shape, UNCHANGED <<pos, committed, consumer>>
    PROVE  Places
BY DEF Places, NewPosition, NewPlace, Busy

\* A step of thread c.
LEMMA LeavingIsPlaces ==
    ASSUME Shape, NEW c \in Consumers, Busy(c), Leave(c), committed' = committed,
           NEW o \in DOMAIN log[0], o = consumer[c].offset, Done(o)'
    PROVE  Places
<1>1. /\ \A d \in Consumers \ {c} : consumer'[d] = consumer[d]
      /\ \/ consumer'[c] = Idle
         \/ consumer'[c] = NextInBatch(c)
      /\ pos'[0] \in {pos[0], consumer[c].offset + 1}
  BY LeavingPlaces
<1>2. NewPosition
  BY <1>1 DEF NewPosition, Passes
<1>3. ASSUME NEW d \in Consumers, Busy(d)' PROVE NewPlace(d)
  <2>1. CASE d # c
    BY <1>1, <1>3, <2>1 DEF NewPlace, Busy
  <2>2. CASE d = c
    BY <1>1, <1>3, <2>2 DEF NewPlace, Passes, Busy, NextInBatch
  <2> QED
    BY <2>1, <2>2
<1> QED
  BY <1>2, <1>3 DEF Places

LEMMA StepPlaces ==
    ASSUME Shape, Shape', [Next]_vars
    PROVE  Places
<1>1. ASSUME NEW r \in Records, Arrive(r) PROVE Places
  BY <1>1, SteadyPlaces DEF Arrive, Publish
<1>2. ASSUME NEW c \in Consumers, NEW l \in Levels, Poll(c, l) PROVE Places
  <2>1. l = 0 /\ pos[0] <= Len(log[0])
    BY <1>2 DEF Poll, HasNext, Shape, RetryTopicsEmpty, LaneInv, LaneTypeOK
  <2>2. /\ \A d \in Consumers \ {c} : consumer'[d] = consumer[d]
        /\ consumer'[c].offset = pos[0]
        /\ UNCHANGED <<pos, committed>>
    BY <1>2, <2>1 DEF Poll, Deliver, Shape, LaneInv, LaneTypeOK
  <2> QED
    BY <2>1, <2>2 DEF Places, NewPosition, NewPlace, Busy
<1>3. ASSUME NEW c \in Consumers, ListenerStep(c) PROVE Places
  <2>0. Busy(c)
    BY <1>3 DEF ListenerStep, Resume, Log, Recover, RecoverFails, Busy, Idle
  <2>1. /\ consumer[c].offset \in DOMAIN log[0]
        /\ RecordOf(c) = log[0][consumer[c].offset]
        /\ consumer \in [Consumers -> Running(PC) \cup {Idle}]
    BY <2>0, AtMainTopic DEF Shape, LaneInv, LaneTypeOK
  <2>2. CASE Resume(c)
    <3>1. /\ \A d \in Consumers : consumer'[d].offset = consumer[d].offset
          /\ UNCHANGED <<pos, committed>>
      BY <2>0, <2>1, <2>2, BusyThread DEF Resume, Goto, Shape, Running
    <3>2. \A d \in Consumers \ {c} : consumer'[d] = consumer[d]
      BY <2>1, <2>2 DEF Resume, Goto
    <3> QED
      BY <2>0, <3>1, <3>2 DEF Places, NewPosition, NewPlace, Busy
  <2>3. CASE Log(c)
    <3>1. /\ log' = log /\ Leave(c) /\ committed' = committed
          /\ logged' = Append(logged, RecordOf(c))
      BY <2>3 DEF Log, Finish
    <3>2. Len(logged') \in DOMAIN logged' /\ logged'[Len(logged')] = RecordOf(c)
      BY <3>1 DEF Shape
    <3>3. PICK o \in DOMAIN log[0] : o = consumer[c].offset
      BY <2>1
    <3>4. logged'[Len(logged')] = log'[0][o] /\ Len(logged') <= Len(logged')
      BY <2>1, <3>1, <3>2, <3>3 DEF Shape
    <3>5. Done(o)'
      BY <3>2, <3>4 DEF Done, LoggedBy
    <3> QED
      BY <2>0, <3>1, <3>3, <3>5, LeavingIsPlaces
  <2>4. CASE Recover(c)
    <3>1. /\ log' = [log EXCEPT ![Dlt] = Append(@, RecordOf(c))]
          /\ Leave(c) /\ committed' = committed
      BY <2>4 DEF Recover, Forward
    <3>2. /\ Len(log'[Dlt]) \in DOMAIN log'[Dlt]
          /\ log'[Dlt][Len(log'[Dlt])] = RecordOf(c)
          /\ log'[0] = log[0]
      BY <2>0, <3>1, MainTopic, AtMainTopic
    <3>3. PICK o \in DOMAIN log[0] : o = consumer[c].offset
      BY <2>1
    <3>4. log'[Dlt][Len(log'[Dlt])] = log'[0][o]
      BY <2>1, <3>2, <3>3
    <3>5. Done(o)'
      BY <3>2, <3>4 DEF Done, Published
    <3> QED
      BY <2>0, <3>1, <3>3, <3>5, LeavingIsPlaces
  <2>5. CASE RecoverFails(c)
    <3>1. /\ \A d \in Consumers \ {c} : consumer'[d] = consumer[d]
          /\ consumer'[c] = Idle
          /\ UNCHANGED <<pos, committed>>
      BY <2>1, <2>5 DEF RecoverFails, SeekBack, ForwardUnconfirmed
    <3> QED
      BY <3>1 DEF Places, NewPosition, NewPlace, Busy
  <2> QED
    BY <1>3, <2>2, <2>3, <2>4, <2>5 DEF ListenerStep
<1>4. ASSUME NEW l \in Levels, Commit(l) PROVE Places
  <2>1. committed'[0] \in {committed[0], pos[0]} /\ UNCHANGED <<pos, consumer>>
    BY <1>4, MainTopic DEF Commit, CommitOffset
  <2> QED
    BY <2>1 DEF Places, NewPosition, NewPlace, Busy
<1>5. ASSUME NEW l \in Levels, Rebalance(l) PROVE Places
  <2>1. /\ pos'[0] \in {pos[0], committed[0]} /\ committed' = committed
        /\ \A c \in Consumers :
              \/ consumer'[c] = consumer[c]
              \/ Busy(c) /\ consumer'[c] = [consumer[c] EXCEPT !.owns = FALSE]
    BY <1>5, MainTopic DEF Rebalance, Reassign
  <2>2. ASSUME NEW c \in Consumers, Busy(c)' PROVE NewPlace(c)
    BY <2>1, <2>2, BusyThread DEF NewPlace, Busy, Shape, Running
  <2> QED
    BY <2>1, <2>2 DEF Places, NewPosition
<1>6. CASE Crash
  <2>1. /\ pos'[0] = committed[0] /\ committed' = committed
        /\ \A c \in Consumers : consumer'[c] = Idle
    BY <1>6 DEF Crash, Restart
  <2> QED
    BY <2>1 DEF Places, NewPosition, Busy
<1>7. CASE UNCHANGED vars
  BY <1>7, SteadyPlaces DEF vars, laneVars
<1> QED
  BY <1>1, <1>2, <1>3, <1>4, <1>5, <1>6, <1>7 DEF Next

\* What is covered stays covered, and the record after a done one is next.
LEMMA CoveredGoesOn ==
    ASSUME Shape, Shape', LogGrows, NEW n \in DOMAIN log[0], Covered(n), Done(n)'
    PROVE  Covered(n + 1)'
<1>1. Covered(n)'
  BY CoveredStays
<1>2. n \in DOMAIN log'[0] /\ log'[0] \in Seq(Records)
  BY MainTopic DEF LogGrows, Grows, Shape, LaneInv, LaneTypeOK
<1> QED
  BY <1>1, <1>2 DEF Covered

LEMMA CoveredNext ==
    ASSUME Shape, Shape', LogGrows, CoveredInv, Places
    PROVE  CoveredInv'
<1>1. ASSUME NEW n, Covered(n) PROVE Covered(n)'
  BY <1>1, CoveredStays
<1>2. ASSUME NEW c \in Consumers, NEW n, Passes(c, n) PROVE Covered(n)'
  <2>1. PICK o \in DOMAIN log[0] : Busy(c) /\ o = consumer[c].offset /\ Done(o)' /\ n = o + 1
    BY <1>2 DEF Passes
  <2>2. Covered(o)
    BY <2>1 DEF CoveredInv
  <2>3. Covered(o + 1)'
    BY <2>1, <2>2, CoveredGoesOn
  <2> QED
    BY <2>1, <2>3
<1>3. \E n : n = pos'[0] /\ Covered(n)'
  BY <1>1, <1>2 DEF Places, NewPosition, CoveredInv
<1>4. \E n : n = committed'[0] /\ Covered(n)'
  BY <1>1 DEF Places, CoveredInv
<1>5. ASSUME NEW c \in Consumers, Busy(c)'
      PROVE  \E n : n = consumer'[c].offset /\ Covered(n)'
  BY <1>1, <1>2, <1>5 DEF Places, NewPlace, CoveredInv
<1> QED
  BY <1>3, <1>4, <1>5 DEF CoveredInv

\* The type invariant of the listener, and what rests on it alone.
SkipInv == Shape /\ CoveredInv

LEMMA SkipInvInit == Init => SkipInv
<1> SUFFICES ASSUME Init PROVE CoveredInv
  BY ShapeInit DEF SkipInv
<1>1. 0 \in Levels /\ 0 \in Topics
  BY LevelsAreTopics
<1>2. log[0] = <<>> /\ pos[0] = 1 /\ committed[0] = 1 /\ \A c \in Consumers : ~Busy(c)
  BY <1>1 DEF Init, LaneInit, Busy
<1> QED
  BY <1>2 DEF CoveredInv, Covered

LEMMA SkipInvNext == SkipInv /\ [Next]_vars => SkipInv'
BY ShapeNext, StepPlaces, CoveredNext DEF SkipInv

LEMMA SkipInvAlways == Spec => []SkipInv
BY SkipInvInit, SkipInvNext, PTL DEF Spec

\* The listener's state keeps its shape, and a thread is at a record that exists.
THEOREM ListenerTypeCorrect == Spec => []TypeOK
<1>1. SkipInv => TypeOK
  BY DEF SkipInv, Shape, TypeOK, LaneInv
<1> QED
  BY <1>1, SkipInvAlways, PTL

\* What the listener has gone past or committed is logged or in the DLT, for any
\* records, threads and numbers of crashes, rebalances and failing forwards.
THEOREM ListenerSkipsNothing == Spec => []NothingSkipped
<1>1. SkipInv => NothingSkipped
  <2> SUFFICES ASSUME SkipInv, NEW i \in DOMAIN log[0], i < pos[0] \/ i < committed[0]
               PROVE  Done(i)
    BY DEF NothingSkipped, Done
  <2>1. i \in Nat \ {0} /\ pos[0] \in Nat /\ committed[0] \in Nat
    BY MainTopic DEF SkipInv
  <2> QED
    BY <2>1 DEF SkipInv, CoveredInv, Covered
<1> QED
  BY <1>1, SkipInvAlways, PTL

-----------------------------------------------------------------------------
(* The order of first lines.                                               *)

LEMMA ThreadsAreSorted ==
    ASSUME Shape, Shape', DltHasPoison, [Next]_vars
    PROVE  DltHasPoison'
<1> DEFINE Sorted(c) == /\ consumer[c].pc = "fatal" => RecordOf(c) \in PoisonPills
                        /\ consumer[c].pc = "log" => RecordOf(c) \notin PoisonPills
<1>0. /\ LogGrows
      /\ \A c \in Consumers : Sorted(c)
      /\ 0 \in Topics /\ Dlt \in Topics /\ Dlt # 0 /\ 0 \in Levels
  BY ShapeNext, MainTopic DEF DltHasPoison
<1>1. ASSUME NEW c \in Consumers, consumer'[c] = consumer[c]
      PROVE  Sorted(c)'
  <2>1. CASE Busy(c)
    <3>1. RecordOf(c)' = RecordOf(c)
      BY <1>0, <1>1, <2>1, GrowthKeepsRecords DEF Shape, LogGrows
    <3> QED
      BY <1>0, <1>1, <3>1
  <2>2. CASE ~Busy(c)
    BY <1>1, <2>2 DEF Busy, Idle
  <2> QED
    BY <2>1, <2>2
<1>2. ASSUME NEW c \in Consumers, consumer'[c].pc \in {"idle", "next"}
      PROVE  Sorted(c)'
  BY <1>2
<1>3. ASSUME NEW c \in Consumers, ListenerStep(c) \/ \E l \in Levels : Poll(c, l)
      PROVE  \A d \in Consumers : Sorted(d)'
  <2>1. consumer \in [Consumers -> Running(PC) \cup {Idle}]
    BY DEF Shape, LaneInv, LaneTypeOK
  <2>2. \A d \in Consumers \ {c} : consumer'[d] = consumer[d]
    BY <1>3, <2>1 DEF ListenerStep, Resume, Log, Recover, RecoverFails, Goto, Finish, Forward,
                      SeekBack, ForwardUnconfirmed, Leave, Poll, Deliver
  <2>3. Sorted(c)'
    <3>1. ASSUME NEW l \in Levels, Poll(c, l) PROVE Sorted(c)'
      <4>1. /\ consumer'[c].pc = FirstStep(log[l][pos[l]])
            /\ consumer'[c].level = l /\ consumer'[c].offset = pos[l] /\ log' = log
        BY <2>1, <3>1 DEF Poll, Deliver
      <4> QED
        BY <4>1 DEF RecordOf, FirstStep
    <3>2. CASE Resume(c)
      <4>1. Busy(c) /\ LaneInv(PC) /\ FirstStep(RecordOf(c)) \in PC
        BY <3>2 DEF Resume, Busy, Idle, Shape, FirstStep, PC
      <4>2. consumer'[c].pc = FirstStep(RecordOf(c)) /\ RecordOf(c)' = RecordOf(c)
        BY <3>2, <4>1, GotoKeepsLane DEF Resume
      <4> QED
        BY <4>2 DEF FirstStep
    <3>3. CASE Log(c) \/ Recover(c) \/ RecoverFails(c)
      <4>1. consumer'[c].pc \in {"idle", "next"}
        BY <2>1, <3>3 DEF Log, Recover, RecoverFails, Finish, Forward, SeekBack,
                          ForwardUnconfirmed, Leave, NextInBatch, Idle
      <4> QED
        BY <1>2, <4>1
    <3> QED
      BY <1>3, <3>1, <3>2, <3>3 DEF ListenerStep
  <2> QED
    BY <1>1, <2>2, <2>3
<1>4. \A c \in Consumers : Sorted(c)'
  <2>1. ASSUME NEW r \in Records, Arrive(r) PROVE \A c \in Consumers : Sorted(c)'
    BY <1>1, <2>1 DEF Arrive, Publish
  <2>2. ASSUME NEW l \in Levels, Commit(l) PROVE \A c \in Consumers : Sorted(c)'
    BY <1>1, <2>2 DEF Commit, CommitOffset
  <2>3. ASSUME NEW l \in Levels, Rebalance(l) PROVE \A c \in Consumers : Sorted(c)'
    BY <1>0, <2>3, ReassignKeepsLane DEF Rebalance, Shape
  <2>4. CASE Crash
    BY <1>2, <2>4 DEF Crash, Restart, Idle
  <2>5. CASE UNCHANGED vars
    BY <1>1, <2>5 DEF vars, laneVars
  <2> QED
    BY <1>3, <2>1, <2>2, <2>3, <2>4, <2>5 DEF Next
<1>5. Published(Dlt)' \subseteq PoisonPills
  <2>1. CASE log'[Dlt] = log[Dlt]
    BY <2>1 DEF DltHasPoison, Published
  <2>2. ASSUME NEW c \in Consumers, consumer[c].pc = "fatal",
               Forward(c, Dlt) \/ ForwardUnconfirmed(c, Dlt)
        PROVE  Published(Dlt)' \subseteq PoisonPills
    <3>1. RecordOf(c) \in PoisonPills
      BY <2>2 DEF DltHasPoison
    <3>2. log'[Dlt] = Append(log[Dlt], RecordOf(c)) /\ log[Dlt] \in Seq(Records)
      BY <2>2, MainTopic DEF Forward, ForwardUnconfirmed
    <3>3. Published(Dlt)' = Published(Dlt) \cup {RecordOf(c)}
      BY <3>2 DEF Published
    <3> QED
      BY <3>1, <3>3 DEF DltHasPoison
  <2>3. \/ log'[Dlt] = log[Dlt]
        \/ \E c \in Consumers : /\ consumer[c].pc = "fatal"
                               /\ (Forward(c, Dlt) \/ ForwardUnconfirmed(c, Dlt))
    BY <1>0, MainTopic
       DEF Next, Arrive, Publish, Poll, Deliver, ListenerStep, Resume, Goto, Log, Finish,
           Recover, RecoverFails, SeekBack, Commit, CommitOffset, Rebalance, Reassign, Crash, Restart,
           vars, laneVars
  <2> QED
    BY <2>1, <2>2, <2>3
<1> QED
  BY <1>4, <1>5 DEF DltHasPoison

\* Only an arriving record is added to the main topic, only the handler writes
\* to the log.
LEMMA MainTopicStep ==
    ASSUME Shape, [Next]_vars
    PROVE  \/ log'[0] = log[0] /\ logged' = logged
           \/ \E r \in Records : /\ r \notin Published(0)
                                 /\ log'[0] = Append(log[0], r)
                                 /\ logged' = logged
           \/ \E c \in Consumers : /\ Busy(c) /\ consumer[c].pc = "log"
                                   /\ log'[0] = log[0]
                                   /\ logged' = Append(logged, RecordOf(c))
<1>1. ASSUME NEW r \in Records, Arrive(r)
      PROVE  r \notin Published(0) /\ log'[0] = Append(log[0], r) /\ logged' = logged
  BY <1>1, MainTopic DEF Arrive, Publish
<1>2. ASSUME NEW c \in Consumers, Log(c)
      PROVE  /\ Busy(c) /\ consumer[c].pc = "log"
             /\ log'[0] = log[0] /\ logged' = Append(logged, RecordOf(c))
  BY <1>2 DEF Log, Finish, Busy, Idle
<1>3. ASSUME NEW c \in Consumers, Recover(c) \/ RecoverFails(c)
      PROVE  log'[0] = log[0] /\ logged' = logged
  BY <1>3, MainTopic DEF Recover, RecoverFails, Forward, ForwardUnconfirmed, SeekBack
<1> QED
  BY <1>1, <1>2, <1>3
     DEF Next, Poll, Deliver, ListenerStep, Resume, Goto, Commit, CommitOffset,
         Rebalance, Reassign, Crash, Restart, vars, laneVars

LEMMA DistinctNext ==
    ASSUME Shape, Shape', DltHasPoison, Distinct, [Next]_vars
    PROVE  Distinct'
<1>0. log[0] \in Seq(Records) /\ logged \in Seq(Records)
  BY MainTopic DEF Shape
<1>1. CASE log'[0] = log[0] /\ logged' = logged
  BY <1>1 DEF Distinct, Published
<1>2. ASSUME NEW r \in Records, r \notin Published(0), log'[0] = Append(log[0], r),
             logged' = logged
      PROVE  Distinct'
  <2>1. /\ DOMAIN log'[0] = 1 .. Len(log[0]) + 1
        /\ \A i \in DOMAIN log[0] : i \in DOMAIN log'[0] /\ log'[0][i] = log[0][i]
        /\ log'[0][Len(log[0]) + 1] = r
        /\ DOMAIN log[0] = 1 .. Len(log[0]) /\ Len(log[0]) \in Nat
    BY <1>0, <1>2
  <2>2. \A i \in DOMAIN log[0] : log[0][i] # r
    BY <1>2 DEF Published
  <2>3. ASSUME NEW i \in DOMAIN log'[0], NEW j \in DOMAIN log'[0], i # j
        PROVE  log'[0][i] # log'[0][j]
    <3>1. CASE i \in DOMAIN log[0] /\ j \in DOMAIN log[0]
      BY <2>1, <2>3, <3>1 DEF Distinct
    <3>2. CASE i = Len(log[0]) + 1
      BY <2>1, <2>2, <2>3, <3>2
    <3>3. CASE j = Len(log[0]) + 1
      BY <2>1, <2>2, <2>3, <3>3
    <3> QED
      BY <2>1, <3>1, <3>2, <3>3
  <2>4. \A n \in DOMAIN logged' : logged'[n] \in Published(0)' \ PoisonPills
    BY <1>2, <2>1 DEF Distinct, Published
  <2> QED
    BY <2>3, <2>4 DEF Distinct
<1>3. ASSUME NEW c \in Consumers, Busy(c), consumer[c].pc = "log", log'[0] = log[0],
             logged' = Append(logged, RecordOf(c))
      PROVE  Distinct'
  <2>1. RecordOf(c) \in Published(0) \ PoisonPills /\ RecordOf(c) \in Records
    BY <1>3, AtMainTopic DEF Published, DltHasPoison
  <2>2. /\ \A n \in DOMAIN logged' : n \in DOMAIN logged \/ n = Len(logged) + 1
        /\ \A n \in DOMAIN logged : logged'[n] = logged[n]
        /\ logged'[Len(logged) + 1] = RecordOf(c)
    BY <1>0, <1>3, <2>1
  <2>3. \A n \in DOMAIN logged' : logged'[n] \in Published(0)' \ PoisonPills
    BY <1>3, <2>1, <2>2 DEF Distinct, Published
  <2> QED
    BY <1>3, <2>3 DEF Distinct
<1> QED
  BY <1>1, <1>2, <1>3, MainTopicStep

\* The line a thread writes follows those of all earlier records.
LEMMA OrderNext ==
    ASSUME LInv, Shape', [Next]_vars
    PROVE  FirstLinesInOrder'
<1>0. /\ Shape /\ DltHasPoison /\ CoveredInv /\ Distinct /\ FirstLinesInOrder
      /\ log[0] \in Seq(Records) /\ logged \in Seq(Records)
      /\ DOMAIN log[0] = 1 .. Len(log[0]) /\ Len(log[0]) \in Nat
      /\ DOMAIN logged = 1 .. Len(logged) /\ Len(logged) \in Nat
  BY MainTopic DEF LInv, Shape
<1>1. CASE log'[0] = log[0] /\ logged' = logged
  BY <1>0, <1>1 DEF FirstLinesInOrder, LoggedBy
<1>2. ASSUME NEW r \in Records, r \notin Published(0), log'[0] = Append(log[0], r),
             logged' = logged
      PROVE  FirstLinesInOrder'
  <2>1. /\ \A i \in DOMAIN log'[0] : i \in DOMAIN log[0] \/ i = Len(log[0]) + 1
        /\ \A i \in DOMAIN log[0] : log'[0][i] = log[0][i]
        /\ log'[0][Len(log[0]) + 1] = r
    BY <1>0, <1>2
  <2> SUFFICES ASSUME NEW n \in DOMAIN logged, NEW j \in DOMAIN log'[0],
                      log'[0][j] = logged[n], NEW i \in 1 .. j - 1
               PROVE  LoggedBy(i, n)' \/ log'[0][i] \in PoisonPills
    BY <1>2 DEF FirstLinesInOrder
  <2>2. j \in DOMAIN log[0]
    BY <1>0, <1>2, <2>1 DEF Distinct
  <2>3. i \in DOMAIN log[0] /\ log[0][j] = logged[n]
    BY <1>0, <2>1, <2>2
  <2>4. LoggedBy(i, n) \/ log[0][i] \in PoisonPills
    BY <1>0, <2>2, <2>3 DEF FirstLinesInOrder
  <2> QED
    BY <1>2, <2>1, <2>3, <2>4 DEF LoggedBy
<1>3. ASSUME NEW c \in Consumers, Busy(c), log'[0] = log[0],
             logged' = Append(logged, RecordOf(c))
      PROVE  FirstLinesInOrder'
  <2>1. /\ \A n \in DOMAIN logged' : n \in DOMAIN logged \/ n = Len(logged) + 1
        /\ \A n \in DOMAIN logged : n \in DOMAIN logged' /\ logged'[n] = logged[n]
        /\ logged'[Len(logged) + 1] = RecordOf(c)
    BY <1>0, <1>3, AtMainTopic
  <2> SUFFICES ASSUME NEW n \in DOMAIN logged', NEW j \in DOMAIN log[0],
                      log[0][j] = logged'[n], NEW i \in 1 .. j - 1
               PROVE  LoggedBy(i, n)' \/ log[0][i] \in PoisonPills
    BY <1>3 DEF FirstLinesInOrder
  <2>2. CASE n \in DOMAIN logged
    <3>1. LoggedBy(i, n) \/ log[0][i] \in PoisonPills
      BY <1>0, <2>1, <2>2 DEF FirstLinesInOrder
    <3> QED
      BY <1>3, <2>1, <3>1 DEF LoggedBy
  <2>3. CASE n = Len(logged) + 1
    <3>1. PICK o \in DOMAIN log[0] : o = consumer[c].offset /\ RecordOf(c) = log[0][o]
      BY <1>0, <1>3, AtMainTopic
    <3>2. j = o
      BY <1>0, <2>1, <2>3, <3>1 DEF Distinct
    <3>3. Covered(o)
      BY <1>0, <1>3, <3>1 DEF CoveredInv
    <3>4. Done(i)
      BY <3>2, <3>3 DEF Covered
    <3>5. CASE LoggedBy(i, Len(logged))
      <4>1. PICK m \in DOMAIN logged : logged[m] = log[0][i]
        BY <3>5 DEF LoggedBy
      <4>2. m <= n /\ m \in DOMAIN logged' /\ logged'[m] = log'[0][i]
        BY <1>0, <1>3, <2>1, <2>3, <4>1
      <4> QED
        BY <4>2 DEF LoggedBy
    <3>6. CASE log[0][i] \in Published(Dlt)
      BY <1>0, <3>6 DEF DltHasPoison
    <3> QED
      BY <3>4, <3>5, <3>6 DEF Done
  <2> QED
    BY <2>1, <2>2, <2>3
<1> QED
  BY <1>0, <1>1, <1>2, <1>3, MainTopicStep

LEMMA LInvInit == Init => LInv
<1> SUFFICES ASSUME Init PROVE LInv
  OBVIOUS
<1>1. Shape /\ CoveredInv
  BY SkipInvInit DEF SkipInv
<1>2. log[0] = <<>> /\ log[Dlt] = <<>> /\ logged = <<>>
      /\ \A c \in Consumers : consumer[c].pc = "idle"
  BY <1>1, MainTopic DEF Init, LaneInit, Idle
<1> QED
  BY <1>1, <1>2 DEF LInv, DltHasPoison, Distinct, FirstLinesInOrder, Published

LEMMA LInvNext == LInv /\ [Next]_vars => LInv'
<1> SUFFICES ASSUME LInv, [Next]_vars PROVE LInv'
  OBVIOUS
<1>1. Shape' /\ CoveredInv'
  BY SkipInvNext DEF LInv, SkipInv
<1>2. DltHasPoison'
  BY <1>1, ThreadsAreSorted DEF LInv
<1>3. Distinct' /\ FirstLinesInOrder'
  BY <1>1, DistinctNext, OrderNext DEF LInv
<1> QED
  BY <1>1, <1>2, <1>3 DEF LInv

LEMMA LInvAlways == Spec => []LInv
BY LInvInit, LInvNext, PTL DEF Spec

\* First lines are in the order of the alerts, for any records, threads and
\* faults: a line is written for a place before which everything is done, and
\* what is done without a line is a poison pill.
THEOREM FirstLinesStayInOrder == Spec => []FirstLinesInOrder
<1>1. LInv => FirstLinesInOrder
  BY DEF LInv
<1> QED
  BY <1>1, LInvAlways, PTL
=============================================================================
