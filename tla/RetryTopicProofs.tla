--------------------------- MODULE RetryTopicProofs ---------------------------
(***************************************************************************)
(* What the operations of a lane preserve, whatever the listener does with *)
(* them: the types, and that a busy thread stands at a record that exists. *)
(***************************************************************************)
EXTENDS RetryTopic, TLAPS

\* A thread in the listener has a record.
InLog == \A c \in Consumers : Busy(c) => consumer[c].offset \in DOMAIN log[consumer[c].level]

LaneInv(PC) == LaneTypeOK(PC) /\ InLog

\* A topic is only ever appended to, so that a thread keeps its record.
Grows == \A t \in Topics : \A k \in DOMAIN log[t] :
            k \in DOMAIN log'[t] /\ log'[t][k] = log[t][k]

\* The levels are the topics that have a listener; the DLT has none.
LEMMA LevelsAreTopics ==
    /\ Levels \subseteq Topics
    /\ 0 \in Levels
    /\ Dlt \in Topics
    /\ \A l \in Levels : l + 1 \in Topics
  BY AttemptsAssumption DEF Levels, Topics, Dlt

\* A busy thread runs the listener, at a level, with a record of the lane.
LEMMA BusyThread ==
    ASSUME NEW PC, LaneInv(PC), NEW c \in Consumers, Busy(c)
    PROVE  /\ consumer[c] \in Running(PC)
           /\ consumer[c].level \in Levels
           /\ consumer[c].offset \in DOMAIN log[consumer[c].level]
           /\ RecordOf(c) \in Records
  <1>1. consumer[c] \in Running(PC)
    BY DEF LaneInv, LaneTypeOK, Busy
  <1>2. consumer[c].level \in Levels
    BY <1>1 DEF Running
  <1>3. consumer[c].offset \in DOMAIN log[consumer[c].level]
    BY DEF LaneInv, InLog
  <1>4. log[consumer[c].level] \in Seq(Records)
    BY <1>2, LevelsAreTopics DEF LaneInv, LaneTypeOK
  <1> QED
    BY <1>1, <1>2, <1>3, <1>4 DEF RecordOf

\* Appending one record to one topic.
LEMMA AppendGrows ==
    ASSUME NEW r \in Records, NEW t \in Topics, log \in [Topics -> Seq(Records)],
           log' = [log EXCEPT ![t] = Append(@, r)]
    PROVE  log' \in [Topics -> Seq(Records)] /\ Grows
  BY DEF Grows

\* A step that touches no thread but may append keeps threads at their records.
LEMMA GrowthKeepsRecords ==
    ASSUME NEW PC, LaneInv(PC), Grows,
           NEW c \in Consumers, Busy(c),
           consumer'[c].level = consumer[c].level,
           consumer'[c].offset = consumer[c].offset
    PROVE  /\ consumer'[c].offset \in DOMAIN log'[consumer'[c].level]
           /\ RecordOf(c)' = RecordOf(c)
  BY BusyThread, LevelsAreTopics DEF Grows, RecordOf

LEMMA PublishKeepsLane ==
    ASSUME NEW PC, LaneInv(PC), NEW r \in Records, Publish(r)
    PROVE  LaneInv(PC)' /\ Grows
  <1>1. log' \in [Topics -> Seq(Records)] /\ Grows
    BY AppendGrows, LevelsAreTopics DEF LaneInv, LaneTypeOK, Publish
  <1>2. LaneTypeOK(PC)'
    BY <1>1 DEF LaneInv, LaneTypeOK, Publish
  <1>3. InLog'
    BY <1>1, GrowthKeepsRecords DEF InLog, Busy, Publish
  <1> QED
    BY <1>1, <1>2, <1>3 DEF LaneInv

LEMMA DeliverKeepsLane ==
    ASSUME NEW PC, LaneInv(PC), NEW c \in Consumers, NEW l \in Levels, NEW start \in PC,
           Deliver(c, l, start)
    PROVE  /\ LaneInv(PC)'
           /\ Grows
           /\ consumer'[c].pc = start
           /\ \A d \in Consumers \ {c} : consumer'[d] = consumer[d]
  <1> DEFINE entry == [pc |-> start, level |-> l, offset |-> pos[l], owns |-> TRUE]
  <1>1. consumer' = [consumer EXCEPT ![c] = entry] /\ UNCHANGED <<log, pos, committed>>
    BY DEF Deliver
  <1>2. entry \in Running(PC)
    BY DEF LaneInv, LaneTypeOK, Running
  <1>3. pos[l] \in DOMAIN log[l]
    BY LevelsAreTopics DEF Deliver, HasNext, LaneInv, LaneTypeOK
  <1>4. LaneTypeOK(PC)'
    BY <1>1, <1>2 DEF LaneInv, LaneTypeOK
  <1>5. consumer'[c] = entry /\ \A d \in Consumers \ {c} : consumer'[d] = consumer[d]
    BY <1>1 DEF LaneInv, LaneTypeOK
  <1>6. InLog'
    BY <1>1, <1>3, <1>5 DEF InLog, Busy, LaneInv
  <1>7. Grows
    BY <1>1 DEF Grows
  <1> QED
    BY <1>4, <1>5, <1>6, <1>7 DEF LaneInv

LEMMA GotoKeepsLane ==
    ASSUME NEW PC, LaneInv(PC), NEW c \in Consumers, Busy(c), NEW pc \in PC, Goto(c, pc)
    PROVE  /\ LaneInv(PC)'
           /\ Grows
           /\ consumer'[c].pc = pc
           /\ RecordOf(c)' = RecordOf(c)
           /\ \A d \in Consumers \ {c} : consumer'[d] = consumer[d]
  <1>1. consumer[c] \in Running(PC)
    BY BusyThread
  <1>2. consumer' = [consumer EXCEPT ![c] = [consumer[c] EXCEPT !.pc = pc]]
        /\ UNCHANGED <<log, pos, committed>>
    BY DEF Goto
  <1>3. consumer'[c] = [consumer[c] EXCEPT !.pc = pc]
        /\ \A d \in Consumers \ {c} : consumer'[d] = consumer[d]
    BY <1>2 DEF LaneInv, LaneTypeOK
  <1>4. consumer'[c] \in Running(PC) /\ consumer'[c].pc = pc
        /\ consumer'[c].level = consumer[c].level /\ consumer'[c].offset = consumer[c].offset
    BY <1>1, <1>3 DEF Running
  <1>5. LaneTypeOK(PC)'
    BY <1>2, <1>3, <1>4 DEF LaneInv, LaneTypeOK
  <1>6. InLog'
    BY <1>2, <1>3, <1>4 DEF InLog, Busy, LaneInv
  <1>7. Grows /\ RecordOf(c)' = RecordOf(c)
    BY <1>2, <1>4 DEF Grows, RecordOf
  <1> QED
    BY <1>3, <1>4, <1>5, <1>6, <1>7 DEF LaneInv

\* Leaving the record: Finish, Forward, SeekBack and ForwardUnconfirmed differ
\* in log and pos, and in whether a thread that lost its partition goes on with its batch.
LEMMA IdlingKeepsLane ==
    ASSUME NEW PC, LaneInv(PC), NEW c \in Consumers, Busy(c),
           consumer' = [consumer EXCEPT ![c] = Idle],
           \/ pos' = pos
           \/ pos' = [pos EXCEPT ![consumer[c].level] = consumer[c].offset + 1],
           committed' = committed,
           log' \in [Topics -> Seq(Records)], Grows
    PROVE  /\ LaneInv(PC)'
           /\ consumer'[c].pc \in {"idle", "next"}
           /\ \A d \in Consumers \ {c} : consumer'[d] = consumer[d]
  <1>1. consumer[c].level \in Levels /\ consumer[c].offset \in Nat
    BY BusyThread DEF Running
  <1>2. consumer'[c] = Idle /\ \A d \in Consumers \ {c} : consumer'[d] = consumer[d]
    BY DEF LaneInv, LaneTypeOK
  <1>3. pos' \in [Levels -> Nat \ {0}]
    BY <1>1 DEF LaneInv, LaneTypeOK
  <1>4. LaneTypeOK(PC)'
    BY <1>2, <1>3 DEF LaneInv, LaneTypeOK
  <1>5. InLog'
    BY <1>2, GrowthKeepsRecords DEF InLog, Busy, Idle
  <1> QED
    BY <1>2, <1>4, <1>5 DEF LaneInv, Idle

LEMMA GoingOnKeepsLane ==
    ASSUME NEW PC, "next" \in PC, LaneInv(PC), NEW c \in Consumers, Busy(c),
           consumer[c].offset < Len(log[consumer[c].level]),
           consumer' = [consumer EXCEPT ![c] = NextInBatch(c)],
           pos' = pos, committed' = committed,
           log' \in [Topics -> Seq(Records)], Grows
    PROVE  /\ LaneInv(PC)'
           /\ consumer'[c].pc \in {"idle", "next"}
           /\ \A d \in Consumers \ {c} : consumer'[d] = consumer[d]
  <1> DEFINE entry == NextInBatch(c)
  <1>1. /\ consumer[c] \in Running(PC)
        /\ consumer[c].level \in Levels /\ consumer[c].level \in Topics
        /\ consumer[c].offset \in Nat
    BY BusyThread, LevelsAreTopics DEF Running
  <1>2. /\ entry \in Running(PC) /\ entry.pc = "next"
        /\ entry.level = consumer[c].level /\ entry.offset = consumer[c].offset + 1
    BY <1>1 DEF Running, NextInBatch
  <1>3. /\ consumer' = [consumer EXCEPT ![c] = entry]
        /\ consumer \in [Consumers -> Running(PC) \cup {Idle}]
    BY DEF LaneInv, LaneTypeOK
  <1> HIDE DEF entry
  <1>4. consumer'[c] = entry /\ \A d \in Consumers \ {c} : consumer'[d] = consumer[d]
    BY <1>3
  <1>5. LaneTypeOK(PC)'
    BY <1>2, <1>3 DEF LaneInv, LaneTypeOK
  <1>6. entry.offset \in DOMAIN log[entry.level]
    BY <1>1, <1>2 DEF LaneInv, LaneTypeOK
  <1>7. entry.offset \in DOMAIN log'[entry.level]
    BY <1>1, <1>2, <1>6 DEF Grows
  <1>8. InLog'
    BY <1>4, <1>7, GrowthKeepsRecords DEF InLog, Busy
  <1> QED
    BY <1>2, <1>4, <1>5, <1>8 DEF LaneInv

LEMMA LeavingKeepsLane ==
    ASSUME NEW PC, "next" \in PC, LaneInv(PC), NEW c \in Consumers, Busy(c), Leave(c),
           committed' = committed, log' \in [Topics -> Seq(Records)], Grows
    PROVE  /\ LaneInv(PC)'
           /\ consumer'[c].pc \in {"idle", "next"}
           /\ \A d \in Consumers \ {c} : consumer'[d] = consumer[d]
  BY IdlingKeepsLane, GoingOnKeepsLane DEF Leave

LEMMA FinishKeepsLane ==
    ASSUME NEW PC, "next" \in PC, LaneInv(PC), NEW c \in Consumers, Busy(c), Finish(c)
    PROVE  /\ LaneInv(PC)'
           /\ Grows
           /\ consumer'[c].pc \in {"idle", "next"}
           /\ \A d \in Consumers \ {c} : consumer'[d] = consumer[d]
  <1>1. Grows /\ log' \in [Topics -> Seq(Records)]
    BY DEF Grows, Finish, LaneInv, LaneTypeOK
  <1> QED
    BY <1>1, LeavingKeepsLane DEF Finish

LEMMA ForwardKeepsLane ==
    ASSUME NEW PC, "next" \in PC, LaneInv(PC), NEW c \in Consumers, Busy(c),
           NEW t \in Topics, Forward(c, t)
    PROVE  /\ LaneInv(PC)'
           /\ Grows
           /\ consumer'[c].pc \in {"idle", "next"}
           /\ \A d \in Consumers \ {c} : consumer'[d] = consumer[d]
  <1>1. Grows /\ log' \in [Topics -> Seq(Records)]
    BY AppendGrows, BusyThread DEF Forward, LaneInv, LaneTypeOK
  <1> QED
    BY <1>1, LeavingKeepsLane DEF Forward

LEMMA SeekBackKeepsLane ==
    ASSUME NEW PC, LaneInv(PC), NEW c \in Consumers, Busy(c), SeekBack(c)
    PROVE  /\ LaneInv(PC)'
           /\ Grows
           /\ consumer'[c].pc \in {"idle", "next"}
           /\ \A d \in Consumers \ {c} : consumer'[d] = consumer[d]
  <1>1. Grows /\ log' \in [Topics -> Seq(Records)]
    BY DEF Grows, SeekBack, LaneInv, LaneTypeOK
  <1> QED
    BY <1>1, IdlingKeepsLane DEF SeekBack

LEMMA ForwardUnconfirmedKeepsLane ==
    ASSUME NEW PC, LaneInv(PC), NEW c \in Consumers, Busy(c),
           NEW t \in Topics, ForwardUnconfirmed(c, t)
    PROVE  /\ LaneInv(PC)'
           /\ Grows
           /\ consumer'[c].pc \in {"idle", "next"}
           /\ \A d \in Consumers \ {c} : consumer'[d] = consumer[d]
  <1>1. Grows /\ log' \in [Topics -> Seq(Records)]
    BY AppendGrows, BusyThread DEF ForwardUnconfirmed, LaneInv, LaneTypeOK
  <1> QED
    BY <1>1, IdlingKeepsLane DEF ForwardUnconfirmed

\* Committing and reassigning take no thread out of its record.
LEMMA CommitOffsetKeepsLane ==
    ASSUME NEW PC, LaneInv(PC), NEW l \in Levels, CommitOffset(l)
    PROVE  LaneInv(PC)' /\ Grows /\ consumer' = consumer
  BY DEF LaneInv, LaneTypeOK, InLog, Busy, Grows, CommitOffset

LEMMA ReassignKeepsLane ==
    ASSUME NEW PC, LaneInv(PC), NEW l \in Levels, Reassign(l)
    PROVE  /\ LaneInv(PC)'
           /\ Grows
           /\ \A c \in Consumers : /\ consumer'[c].pc = consumer[c].pc
                                   /\ RecordOf(c)' = RecordOf(c)
  <1>1. \A c \in Consumers :
           \/ consumer'[c] = consumer[c]
           \/ Busy(c) /\ consumer'[c] = [consumer[c] EXCEPT !.owns = FALSE]
    BY DEF Reassign
  <1>2. \A c \in Consumers : /\ consumer'[c].pc = consumer[c].pc
                             /\ consumer'[c].level = consumer[c].level
                             /\ consumer'[c].offset = consumer[c].offset
                             /\ consumer'[c] \in Running(PC) \cup {Idle}
                             /\ consumer'[c] # Idle => Busy(c)
    <2> SUFFICES ASSUME NEW c \in Consumers
                 PROVE  /\ consumer'[c].pc = consumer[c].pc
                        /\ consumer'[c].level = consumer[c].level
                        /\ consumer'[c].offset = consumer[c].offset
                        /\ consumer'[c] \in Running(PC) \cup {Idle}
                        /\ consumer'[c] # Idle => Busy(c)
      OBVIOUS
    <2>1. CASE consumer'[c] = consumer[c]
      BY <2>1 DEF LaneInv, LaneTypeOK, Busy
    <2>2. CASE Busy(c) /\ consumer'[c] = [consumer[c] EXCEPT !.owns = FALSE]
      BY <2>2, BusyThread DEF Running
    <2> QED
      BY <1>1, <2>1, <2>2
  <1>3. LaneTypeOK(PC)'
    <2>1. consumer' = [c \in Consumers |-> consumer'[c]]
      BY DEF Reassign
    <2>2. consumer' \in [Consumers -> Running(PC) \cup {Idle}]
      BY <1>2, <2>1
    <2> QED
      BY <2>2 DEF LaneInv, LaneTypeOK, Reassign
  <1>4. log' = log
    BY DEF Reassign
  <1> QED
    BY <1>2, <1>3, <1>4 DEF LaneInv, InLog, Busy, Grows, RecordOf

LEMMA RestartKeepsLane ==
    ASSUME NEW PC, LaneInv(PC), Restart
    PROVE  /\ LaneInv(PC)'
           /\ Grows
           /\ \A c \in Consumers : consumer'[c] = Idle
  BY DEF LaneInv, LaneTypeOK, InLog, Busy, Grows, Restart

LEMMA LaneStutters ==
    ASSUME NEW PC, LaneInv(PC), UNCHANGED laneVars
    PROVE  LaneInv(PC)' /\ Grows
  BY DEF LaneInv, LaneTypeOK, InLog, Busy, Grows, laneVars

LEMMA LaneStarts ==
    ASSUME NEW PC, LaneInit
    PROVE  LaneInv(PC)
  BY DEF LaneInit, LaneInv, LaneTypeOK, InLog, Busy
=============================================================================
