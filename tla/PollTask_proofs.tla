--------------------------- MODULE PollTask_proofs ---------------------------
(* Invariants of PollTask, proved for every choice of its constants.       *)
EXTENDS PollTask, SequenceTheorems, TLAPS

USE DEF taskVars, slowVars, uiVars, histVars, unitVars

\* What the assumptions say of the register sets.
LEMMA RegsTyped ==
  /\ FastRegs \subseteq Regs /\ SlowRegs \subseteq Regs /\ UiRegs \subseteq Regs
  /\ CfgRegs \subseteq SlowRegs
  /\ \A i \in DOMAIN SlowReads : SlowReads[i] \subseteq SlowRegs
BY ReadsAssumption DEF Regs, FastRegs, SlowRegs, CfgRegs, BlocksOf

LEMMA InitTyped == Init => TypeOK
<1> SUFFICES ASSUME Init PROVE TypeOK
  OBVIOUS
<1>1. ControlTyped
  BY SizesAssumption DEF Init, ControlTyped
<1>4. FlagsTyped
  BY Zenon DEF Init, FlagsTyped
<1>2. QueueTyped
  BY SizesAssumption DEF Init, QueueTyped
<1>3. DataTyped
  BY ValuesAssumption, BoundsAssumption DEF Init, DataTyped, ZeroOf, Budgets
<1> QED
  BY <1>1, <1>2, <1>3, <1>4 DEF TypeOK

LEMMA SpendTyped ==
  ASSUME budget \in [Budgets -> Nat], NEW b \in Budgets, Spend(b)
  PROVE  budget' \in [Budgets -> Nat]
BY DEF Spend

LEMMA UnansweredTyped ==
  ASSUME budget \in [Budgets -> Nat], Unanswered
  PROVE  budget' \in [Budgets -> Nat]
BY SpendTyped DEF Unanswered, Budgets

LEMMA NextControlTyped == ControlTyped /\ QueueTyped /\ [Next]_vars => ControlTyped'
<1> SUFFICES ASSUME ControlTyped /\ QueueTyped, [Next]_vars PROVE ControlTyped'
  OBVIOUS
<1> USE DEF ControlTyped
<1>1. CASE TaskWakes
  BY <1>1 DEF TaskWakes
<1>2. CASE PollReleased
  BY <1>2 DEF PollReleased, DropLink
<1>3. CASE PollOnLink
  BY <1>3 DEF PollOnLink
<1>4. CASE PollConnects
  BY <1>4 DEF PollConnects
<1>5. CASE ConnectFails
  BY <1>5 DEF ConnectFails, DropLink, Spend
<1>6. CASE ConnectSucceeds
  BY <1>6 DEF ConnectSucceeds, ForceOnFreshLink
<1>7. CASE TakeWrite
  BY <1>7 DEF TakeWrite
<1>8. CASE WriteConfirmed
  BY <1>8 DEF WriteConfirmed
<1>9. CASE WriteUnconfirmed
  BY <1>9 DEF WriteUnconfirmed, Unanswered, Spend
<1>10. CASE WritesDrained
  BY <1>10 DEF WritesDrained
<1>11. CASE SocAnswers
  BY <1>11 DEF SocAnswers
<1>12. CASE SocFails
  BY <1>12 DEF SocFails, Unanswered, Spend, DropLink
<1>13. CASE FastReadAnswers
  BY <1>13 DEF FastReadAnswers
<1>14. CASE FastReadFails
  BY <1>14 DEF FastReadFails, Unanswered, Spend
<1>15. CASE SlowTierStarts
  BY <1>15 DEF SlowTierStarts, SlowTierDue
<1>16. CASE SlowTierSkipped
  BY <1>16 DEF SlowTierSkipped, SlowTierDue
<1>17. CASE SlowReadAnswers
  BY <1>17 DEF SlowReadAnswers
<1>18. CASE SlowReadFails
  BY <1>18 DEF SlowReadFails, Unanswered, Spend
<1>19. CASE SlowTierEnds
  BY <1>19 DEF SlowTierEnds, ForceAgain
<1>20. CASE Publish
  BY <1>20, SizesAssumption DEF Publish
<1>21. CASE UiForcesFull
  BY <1>21 DEF UiForcesFull
<1>22. CASE UiWakesTask
  BY <1>22 DEF UiWakesTask
<1>23. CASE UiNotesPending
  BY <1>23 DEF UiNotesPending
<1>24. CASE UiSpinnerLands
  BY <1>24 DEF UiSpinnerLands
<1>25. CASE UiSpinnerTimesOut
  BY <1>25 DEF UiSpinnerTimesOut
<1>26. CASE UiQueuesWrite
  BY <1>26 DEF UiQueuesWrite, QueueTyped
<1>27. CASE UiReleases
  BY <1>27 DEF UiReleases, Spend
<1>28. CASE UiResumes
  BY <1>28 DEF UiResumes
<1>29. CASE ReleaseExpires
  BY <1>29 DEF ReleaseExpires
<1>30. CASE LinkLost
  BY <1>30 DEF LinkLost, Spend
<1>31. CASE PanelChanges
  BY <1>31 DEF PanelChanges, Spend
<1>32. CASE UNCHANGED vars
  BY <1>32 DEF vars
<1>33. CASE UnitCommits
  BY <1>33 DEF UnitCommits
<1> QED
  BY <1>1, <1>2, <1>3, <1>4, <1>5, <1>6, <1>7, <1>8, <1>9, <1>10, <1>11, <1>12, <1>13,
     <1>14, <1>15, <1>16, <1>17, <1>18, <1>19, <1>20, <1>21, <1>22, <1>23, <1>24,
     <1>25, <1>26, <1>27, <1>28, <1>29, <1>30, <1>31, <1>32,
     <1>33
  DEF Next, Task, Connects, Writes, Reads, UiCall, UiTick, UiTap, Env

LEMMA NextQueueTyped == QueueTyped /\ [Next]_vars => QueueTyped'
<1> SUFFICES ASSUME QueueTyped, [Next]_vars PROVE QueueTyped'
  OBVIOUS
<1> USE DEF QueueTyped
<1>1. CASE TaskWakes
  BY <1>1 DEF TaskWakes
<1>2. CASE PollReleased
  BY <1>2 DEF PollReleased, DropLink
<1>3. CASE PollOnLink
  BY <1>3 DEF PollOnLink
<1>4. CASE PollConnects
  BY <1>4 DEF PollConnects
<1>5. CASE ConnectFails
  BY <1>5 DEF ConnectFails, DropLink, Spend
<1>6. CASE ConnectSucceeds
  BY <1>6 DEF ConnectSucceeds, ForceOnFreshLink
<1>7. CASE TakeWrite
  BY <1>7, SizesAssumption DEF TakeWrite
<1>8. CASE WriteConfirmed
  BY <1>8 DEF WriteConfirmed
<1>9. CASE WriteUnconfirmed
  BY <1>9 DEF WriteUnconfirmed, Unanswered, Spend
<1>10. CASE WritesDrained
  BY <1>10 DEF WritesDrained
<1>11. CASE SocAnswers
  BY <1>11 DEF SocAnswers
<1>12. CASE SocFails
  BY <1>12 DEF SocFails, Unanswered, Spend, DropLink
<1>13. CASE FastReadAnswers
  BY <1>13 DEF FastReadAnswers
<1>14. CASE FastReadFails
  BY <1>14 DEF FastReadFails, Unanswered, Spend
<1>15. CASE SlowTierStarts
  BY <1>15 DEF SlowTierStarts, SlowTierDue
<1>16. CASE SlowTierSkipped
  BY <1>16 DEF SlowTierSkipped, SlowTierDue
<1>17. CASE SlowReadAnswers
  BY <1>17 DEF SlowReadAnswers
<1>18. CASE SlowReadFails
  BY <1>18 DEF SlowReadFails, Unanswered, Spend
<1>19. CASE SlowTierEnds
  BY <1>19 DEF SlowTierEnds, ForceAgain
<1>20. CASE Publish
  BY <1>20 DEF Publish, Assembled
<1>21. CASE UiForcesFull
  BY <1>21 DEF UiForcesFull
<1>22. CASE UiWakesTask
  BY <1>22 DEF UiWakesTask
<1>23. CASE UiNotesPending
  BY <1>23 DEF UiNotesPending
<1>24. CASE UiSpinnerLands
  BY <1>24 DEF UiSpinnerLands
<1>25. CASE UiSpinnerTimesOut
  BY <1>25 DEF UiSpinnerTimesOut
<1>26. CASE UiQueuesWrite
  BY <1>26, SizesAssumption DEF UiQueuesWrite, Sent
<1>27. CASE UiReleases
  BY <1>27 DEF UiReleases, Spend
<1>28. CASE UiResumes
  BY <1>28 DEF UiResumes
<1>29. CASE ReleaseExpires
  BY <1>29 DEF ReleaseExpires
<1>30. CASE LinkLost
  BY <1>30 DEF LinkLost, Spend
<1>31. CASE PanelChanges
  BY <1>31 DEF PanelChanges, Spend
<1>32. CASE UNCHANGED vars
  BY <1>32 DEF vars
<1>33. CASE UnitCommits
  BY <1>33 DEF UnitCommits
<1> QED
  BY <1>1, <1>2, <1>3, <1>4, <1>5, <1>6, <1>7, <1>8, <1>9, <1>10, <1>11, <1>12, <1>13,
     <1>14, <1>15, <1>16, <1>17, <1>18, <1>19, <1>20, <1>21, <1>22, <1>23, <1>24,
     <1>25, <1>26, <1>27, <1>28, <1>29, <1>30, <1>31, <1>32,
     <1>33
  DEF Next, Task, Connects, Writes, Reads, UiCall, UiTick, UiTap, Env

LEMMA NextFlagsTyped == FlagsTyped /\ [Next]_vars => FlagsTyped'
<1> SUFFICES ASSUME FlagsTyped, [Next]_vars PROVE FlagsTyped'
  OBVIOUS
<1> USE DEF FlagsTyped
<1>1. CASE TaskWakes
  BY <1>1, Zenon DEF TaskWakes
<1>2. CASE PollReleased
  BY <1>2, Zenon DEF PollReleased, DropLink
<1>3. CASE PollOnLink
  BY <1>3, Zenon DEF PollOnLink
<1>4. CASE PollConnects
  BY <1>4, Zenon DEF PollConnects
<1>5. CASE ConnectFails
  BY <1>5, Zenon DEF ConnectFails, DropLink, Spend
<1>6. CASE ConnectSucceeds
  BY <1>6, Zenon DEF ConnectSucceeds, ForceOnFreshLink
<1>7. CASE TakeWrite
  BY <1>7, Zenon DEF TakeWrite
<1>8. CASE WriteConfirmed
  BY <1>8, Zenon DEF WriteConfirmed
<1>9. CASE WriteUnconfirmed
  BY <1>9, Zenon DEF WriteUnconfirmed, Unanswered, Spend
<1>10. CASE WritesDrained
  BY <1>10, Zenon DEF WritesDrained
<1>11. CASE SocAnswers
  BY <1>11, Zenon DEF SocAnswers
<1>12. CASE SocFails
  BY <1>12, Zenon DEF SocFails, Unanswered, Spend, DropLink
<1>13. CASE FastReadAnswers
  BY <1>13, Zenon DEF FastReadAnswers
<1>14. CASE FastReadFails
  BY <1>14, Zenon DEF FastReadFails, Unanswered, Spend
<1>15. CASE SlowTierStarts
  BY <1>15, Zenon DEF SlowTierStarts, SlowTierDue
<1>16. CASE SlowTierSkipped
  BY <1>16, Zenon DEF SlowTierSkipped, SlowTierDue
<1>17. CASE SlowReadAnswers
  BY <1>17, Zenon DEF SlowReadAnswers
<1>18. CASE SlowReadFails
  BY <1>18, Zenon DEF SlowReadFails, Unanswered, Spend
<1>19. CASE SlowTierEnds
  BY <1>19, Zenon DEF SlowTierEnds, ForceAgain
<1>20. CASE Publish
  BY <1>20, Zenon DEF Publish, Assembled
<1>21. CASE UiForcesFull
  BY <1>21, Zenon DEF UiForcesFull
<1>22. CASE UiWakesTask
  BY <1>22, Zenon DEF UiWakesTask
<1>23. CASE UiNotesPending
  BY <1>23, Zenon DEF UiNotesPending
<1>24. CASE UiSpinnerLands
  BY <1>24, Zenon DEF UiSpinnerLands
<1>25. CASE UiSpinnerTimesOut
  BY <1>25, Zenon DEF UiSpinnerTimesOut
<1>26. CASE UiQueuesWrite
  BY <1>26, Zenon DEF UiQueuesWrite, Spend, Sent
<1>27. CASE UiReleases
  BY <1>27, Zenon DEF UiReleases, Spend
<1>28. CASE UiResumes
  BY <1>28, Zenon DEF UiResumes
<1>29. CASE ReleaseExpires
  BY <1>29, Zenon DEF ReleaseExpires
<1>30. CASE LinkLost
  BY <1>30, Zenon DEF LinkLost, Spend
<1>31. CASE PanelChanges
  BY <1>31, Zenon DEF PanelChanges, Spend
<1>32. CASE UNCHANGED vars
  BY <1>32 DEF vars
<1>33. CASE UnitCommits
  BY <1>33, Zenon DEF UnitCommits
<1> QED
  BY <1>1, <1>2, <1>3, <1>4, <1>5, <1>6, <1>7, <1>8, <1>9, <1>10, <1>11, <1>12, <1>13,
     <1>14, <1>15, <1>16, <1>17, <1>18, <1>19, <1>20, <1>21, <1>22, <1>23, <1>24,
     <1>25, <1>26, <1>27, <1>28, <1>29, <1>30, <1>31, <1>32,
     <1>33
  DEF Next, Task, Connects, Writes, Reads, UiCall, UiTick, UiTap, Env

\* A write leaves the unit's registers and waiting writes typed, the register it
\* addresses with its value or with its write waiting last, and others alone.
LEMMA TakesFacts ==
  ASSUME NEW w \in Write, dev \in [Regs -> Values], late \in [UiRegs -> Seq(Values)],
         NEW n \in 0 .. Len(late[w.reg]) + 1, Takes(w.reg, w.val, n)
  PROVE  /\ dev' \in [Regs -> Values] /\ late' \in [UiRegs -> Seq(Values)]
         /\ \A r \in UiRegs : r # w.reg => dev'[r] = dev[r] /\ late'[r] = late[r]
         /\ IF late'[w.reg] = <<>> THEN dev'[w.reg] = w.val
                                  ELSE late'[w.reg][Len(late'[w.reg])] = w.val
<1> DEFINE q == Append(late[w.reg], w.val)
           done == Len(q) - n
           left == SubSeq(q, done + 1, Len(q))
<1>1. w.reg \in UiRegs /\ w.reg \in Regs /\ w.val \in Values
  BY RegsTyped DEF Write
<1>2. late[w.reg] \in Seq(Values)
  BY <1>1
<1>3. /\ q \in Seq(Values) /\ Len(q) \in Nat \ {0} /\ q[Len(q)] = w.val
      /\ Len(q) = Len(late[w.reg]) + 1
  BY <1>1, <1>2
<1>4. done \in 0 .. Len(q) /\ n = Len(q) - done
  BY <1>3
<1>5. /\ late' = [late EXCEPT ![w.reg] = left]
      /\ dev' = IF done = 0 THEN dev ELSE [dev EXCEPT ![w.reg] = q[done]]
  BY DEF Takes
<1> HIDE DEF q, done
<1>6. /\ left \in Seq(Values) /\ Len(left) = Len(q) - done
      /\ \A i \in 1 .. Len(left) : left[i] = q[done + i]
  BY <1>3, <1>4
<1> HIDE DEF left
<1>7. late' \in [UiRegs -> Seq(Values)] /\ late'[w.reg] = left
  BY <1>1, <1>5, <1>6
<1>8. done # 0 => q[done] \in Values
  BY <1>3, <1>4
<1>9. dev' \in [Regs -> Values]
  BY <1>1, <1>5, <1>8
<1>10. CASE left = <<>>
  <2>1. done = Len(q)
    <3>1. Len(left) = 0
      BY <1>10
    <3> QED
      BY <1>3, <1>4, <1>6, <3>1
  <2>2. dev'[w.reg] = w.val
    BY <1>1, <1>3, <1>5, <2>1
  <2> QED
    BY <1>1, <1>5, <1>7, <1>9, <1>10, <2>2, RegsTyped
<1>11. CASE left # <<>>
  <2>1. Len(left) \in Nat \ {0}
    BY <1>6, <1>11
  <2>2. left[Len(left)] = q[Len(q)]
    <3>1. Len(left) \in 1 .. Len(left) /\ done + Len(left) = Len(q)
      BY <1>3, <1>4, <1>6, <2>1
    <3>2. left[Len(left)] = q[done + Len(left)]
      BY <1>6, <3>1
    <3> QED
      BY <3>1, <3>2
  <2> QED
    BY <1>1, <1>3, <1>5, <1>7, <1>9, <1>11, <2>2, RegsTyped
<1> QED
  BY <1>10, <1>11

LEMMA WantTyped ==
  ASSUME want \in [UiRegs -> SUBSET Values], NEW w \in Write,
         want' = [want EXCEPT ![w.reg] = {w.val}] \/ UNCHANGED want
  PROVE  want' \in [UiRegs -> SUBSET Values]
BY DEF Write

LEMMA CommitTyped ==
  ASSUME dev \in [Regs -> Values], late \in [UiRegs -> Seq(Values)], UnitCommits
  PROVE  dev' \in [Regs -> Values] /\ late' \in [UiRegs -> Seq(Values)]
<1>1. PICK r \in UiRegs :
        /\ late[r] # <<>>
        /\ dev' = [dev EXCEPT ![r] = Head(late[r])]
        /\ late' = [late EXCEPT ![r] = Tail(late[r])]
  BY DEF UnitCommits
<1>2. Head(late[r]) \in Values /\ Tail(late[r]) \in Seq(Values)
  BY <1>1
<1> QED
  BY <1>1, <1>2, RegsTyped

LEMMA NextDataTyped == QueueTyped /\ DataTyped /\ [Next]_vars => DataTyped'
<1> SUFFICES ASSUME QueueTyped /\ DataTyped, [Next]_vars PROVE DataTyped'
  OBVIOUS
<1> USE DEF DataTyped
<1>1. CASE TaskWakes
  BY <1>1 DEF TaskWakes
<1>2. CASE PollReleased
  BY <1>2 DEF PollReleased, DropLink
<1>3. CASE PollOnLink
  BY <1>3 DEF PollOnLink
<1>4. CASE PollConnects
  BY <1>4 DEF PollConnects
<1>5. CASE ConnectFails
  BY <1>5, SpendTyped DEF ConnectFails, Budgets
<1>6. CASE ConnectSucceeds
  BY <1>6 DEF ConnectSucceeds, ForceOnFreshLink
<1>7. CASE TakeWrite
  BY <1>7 DEF TakeWrite
<1>8. CASE WriteConfirmed
  <2>1. pw \in Write
    BY <1>8 DEF WriteConfirmed, QueueTyped
  <2>2. dev' \in [Regs -> Values] /\ late' \in [UiRegs -> Seq(Values)]
    BY <1>8, <2>1, TakesFacts DEF WriteConfirmed
  <2>3. unshown' \in SUBSET SlowRegs
    BY <1>8 DEF WriteConfirmed
  <2> QED
    BY <1>8, <2>2, <2>3 DEF WriteConfirmed
<1>9. CASE WriteUnconfirmed
  <2>1. pw \in Write /\ pw.reg \in UiRegs /\ pw.val \in Values
    BY <1>9 DEF WriteUnconfirmed, QueueTyped, Write
  <2>2. dev' \in [Regs -> Values] /\ late' \in [UiRegs -> Seq(Values)]
    BY <1>9, <2>1, TakesFacts DEF WriteUnconfirmed
  <2>3. want' \in [UiRegs -> SUBSET Values]
    BY <1>9, <2>1 DEF WriteUnconfirmed
  <2>4. budget' \in [Budgets -> Nat]
    BY <1>9, UnansweredTyped DEF WriteUnconfirmed
  <2> QED
    BY <1>9, <2>2, <2>3, <2>4 DEF WriteUnconfirmed
<1>10. CASE WritesDrained
  BY <1>10 DEF WritesDrained
<1>11. CASE SocAnswers
  BY <1>11 DEF SocAnswers
<1>12. CASE SocFails
  BY <1>12, UnansweredTyped DEF SocFails
<1>13. CASE FastReadAnswers
  <2>1. tmp' \in [FastRegs -> Values]
    BY <1>13, RegsTyped DEF FastReadAnswers
  <2> QED
    BY <1>13, <2>1 DEF FastReadAnswers
<1>14. CASE FastReadFails
  BY <1>14, UnansweredTyped DEF FastReadFails
<1>15. CASE SlowTierStarts
  BY <1>15 DEF SlowTierStarts, SlowTierDue
<1>16. CASE SlowTierSkipped
  BY <1>16 DEF SlowTierSkipped, SlowTierDue
<1>17. CASE SlowReadAnswers
  <2>1. slow' \in [SlowRegs -> Values]
    BY <1>17, RegsTyped DEF SlowReadAnswers, Cached
  <2>2. unshown' \in SUBSET SlowRegs
    BY <1>17 DEF SlowReadAnswers
  <2> QED
    BY <1>17, <2>1, <2>2 DEF SlowReadAnswers
<1>18. CASE SlowReadFails
  BY <1>18, UnansweredTyped DEF SlowReadFails
<1>19. CASE SlowTierEnds
  BY <1>19 DEF SlowTierEnds, ForceAgain
<1>20. CASE Publish
  <2>1. Assembled \in [Regs -> Values]
    BY DEF Assembled, Regs
  <2>2. power' \in [ok : BOOLEAN, val : [Regs -> Values]]
    BY <1>20, <2>1 DEF Publish
  <2>3. tmp' \in [FastRegs -> Values]
    BY <1>20, ValuesAssumption DEF Publish, ZeroOf
  <2> QED
    BY <1>20, <2>2, <2>3 DEF Publish
<1>21. CASE UiForcesFull
  BY <1>21 DEF UiForcesFull
<1>22. CASE UiWakesTask
  BY <1>22 DEF UiWakesTask
<1>23. CASE UiNotesPending
  BY <1>23 DEF UiNotesPending
<1>24. CASE UiSpinnerLands
  BY <1>24 DEF UiSpinnerLands
<1>25. CASE UiSpinnerTimesOut
  BY <1>25 DEF UiSpinnerTimesOut
<1>26. CASE UiQueuesWrite
  <2>1. PICK w \in Write :
          want' = [want EXCEPT ![w.reg] = {w.val}] \/ UNCHANGED want
    BY <1>26 DEF UiQueuesWrite
  <2>2. want' \in [UiRegs -> SUBSET Values]
    BY <2>1, WantTyped
  <2>3. budget' \in [Budgets -> Nat]
    BY <1>26, SpendTyped DEF UiQueuesWrite, Budgets
  <2> QED
    BY <1>26, <2>2, <2>3 DEF UiQueuesWrite
<1>27. CASE UiReleases
  BY <1>27, SpendTyped DEF UiReleases, Budgets
<1>28. CASE UiResumes
  BY <1>28 DEF UiResumes
<1>29. CASE ReleaseExpires
  BY <1>29 DEF ReleaseExpires
<1>30. CASE LinkLost
  BY <1>30, SpendTyped DEF LinkLost, Budgets
<1>31. CASE PanelChanges
  <2>1. PICK r \in Regs : \E v \in Values :
          /\ dev' = [dev EXCEPT ![r] = v]
          /\ want' = [want EXCEPT ![r] = {}] \/ UNCHANGED want
    BY <1>31 DEF PanelChanges
  <2>2. dev' \in [Regs -> Values]
    BY <2>1
  <2>3. want' \in [UiRegs -> SUBSET Values]
    BY <2>1
  <2>4. budget' \in [Budgets -> Nat]
    BY <1>31, SpendTyped DEF PanelChanges, Budgets
  <2> QED
    BY <1>31, <2>2, <2>3, <2>4 DEF PanelChanges
<1>32. CASE UNCHANGED vars
  BY <1>32 DEF vars
<1>33. CASE UnitCommits
  BY <1>33, CommitTyped DEF UnitCommits
<1> QED
  BY <1>1, <1>2, <1>3, <1>4, <1>5, <1>6, <1>7, <1>8, <1>9, <1>10, <1>11, <1>12, <1>13,
     <1>14, <1>15, <1>16, <1>17, <1>18, <1>19, <1>20, <1>21, <1>22, <1>23, <1>24,
     <1>25, <1>26, <1>27, <1>28, <1>29, <1>30, <1>31, <1>32,
     <1>33
  DEF Next, Task, Connects, Writes, Reads, UiCall, UiTick, UiTap, Env


\* Type correctness: every variable of the task and the main loop stays in its
\* domain and the write queue never exceeds its length.
THEOREM TypeCorrect == Spec => []TypeOK
<1>1. TypeOK /\ [Next]_vars => TypeOK'
  BY NextControlTyped, NextFlagsTyped, NextQueueTyped, NextDataTyped DEF TypeOK
<1> QED
  BY InitTyped, <1>1, PTL DEF Spec

-----------------------------------------------------------------------------
(* The status bar.  g_state can be reasoned about because the steps after  *)
(* the connection all hold a client.                                       *)

InPoll == {"writes", "write", "soc", "fast", "slow", "publish"}
StateInv == (pc \in InPoll => client # "null") /\ SleepStateAgrees

LEMMA NextStateInv == StateInv /\ [Next]_vars => StateInv'
<1> SUFFICES ASSUME StateInv, [Next]_vars PROVE StateInv'
  OBVIOUS
<1> USE DEF StateInv, SleepStateAgrees, InPoll
<1>1. CASE TaskWakes
  BY <1>1 DEF TaskWakes
<1>2. CASE PollReleased
  BY <1>2 DEF PollReleased, DropLink
<1>3. CASE PollOnLink
  BY <1>3 DEF PollOnLink
<1>4. CASE PollConnects
  BY <1>4 DEF PollConnects
<1>5. CASE ConnectFails
  BY <1>5 DEF ConnectFails, DropLink, Spend
<1>6. CASE ConnectSucceeds
  BY <1>6 DEF ConnectSucceeds, ForceOnFreshLink
<1>7. CASE TakeWrite
  BY <1>7 DEF TakeWrite
<1>8. CASE WriteConfirmed
  BY <1>8 DEF WriteConfirmed
<1>9. CASE WriteUnconfirmed
  BY <1>9 DEF WriteUnconfirmed, Unanswered, Spend
<1>10. CASE WritesDrained
  BY <1>10 DEF WritesDrained
<1>11. CASE SocAnswers
  BY <1>11 DEF SocAnswers
<1>12. CASE SocFails
  BY <1>12 DEF SocFails, Unanswered, Spend, DropLink
<1>13. CASE FastReadAnswers
  BY <1>13 DEF FastReadAnswers
<1>14. CASE FastReadFails
  BY <1>14 DEF FastReadFails, Unanswered, Spend
<1>15. CASE SlowTierStarts
  BY <1>15 DEF SlowTierStarts, SlowTierDue
<1>16. CASE SlowTierSkipped
  BY <1>16 DEF SlowTierSkipped, SlowTierDue
<1>17. CASE SlowReadAnswers
  BY <1>17 DEF SlowReadAnswers
<1>18. CASE SlowReadFails
  BY <1>18 DEF SlowReadFails, Unanswered, Spend
<1>19. CASE SlowTierEnds
  BY <1>19 DEF SlowTierEnds, ForceAgain
<1>20. CASE Publish
  BY <1>20 DEF Publish, Assembled
<1>21. CASE UiForcesFull
  BY <1>21 DEF UiForcesFull
<1>22. CASE UiWakesTask
  BY <1>22 DEF UiWakesTask
<1>23. CASE UiNotesPending
  BY <1>23 DEF UiNotesPending
<1>24. CASE UiSpinnerLands
  BY <1>24 DEF UiSpinnerLands
<1>25. CASE UiSpinnerTimesOut
  BY <1>25 DEF UiSpinnerTimesOut
<1>26. CASE UiQueuesWrite
  BY <1>26 DEF UiQueuesWrite, Spend, Sent
<1>27. CASE UiReleases
  BY <1>27 DEF UiReleases, Spend
<1>28. CASE UiResumes
  BY <1>28 DEF UiResumes
<1>29. CASE ReleaseExpires
  BY <1>29 DEF ReleaseExpires
<1>30. CASE LinkLost
  BY <1>30 DEF LinkLost, Spend
<1>31. CASE PanelChanges
  BY <1>31 DEF PanelChanges, Spend
<1>32. CASE UNCHANGED vars
  BY <1>32 DEF vars
<1>33. CASE UnitCommits
  BY <1>33 DEF UnitCommits
<1> QED
  BY <1>1, <1>2, <1>3, <1>4, <1>5, <1>6, <1>7, <1>8, <1>9, <1>10, <1>11, <1>12, <1>13,
     <1>14, <1>15, <1>16, <1>17, <1>18, <1>19, <1>20, <1>21, <1>22, <1>23, <1>24,
     <1>25, <1>26, <1>27, <1>28, <1>29, <1>30, <1>31, <1>32,
     <1>33
  DEF Next, Task, Connects, Writes, Reads, UiCall, UiTick, UiTap, Env


\* Between polls g_state is ONLINE exactly when the task holds a client.
THEOREM StateCorrect == Spec => []SleepStateAgrees
<1>1. Init => StateInv
  BY DEF Init, StateInv, SleepStateAgrees, InPoll
<1>2. StateInv => SleepStateAgrees
  BY DEF StateInv
<1> QED
  BY <1>1, <1>2, NextStateInv, PTL DEF Spec

-----------------------------------------------------------------------------
(* Wakeups.  A poll that has drained the queue, or that began outside a    *)
(* release window, can only meet a later write or release through a call   *)
(* that has given the semaphore or is about to.                            *)

WriteWakes   == wake \/ ui \in {"force", "wake"}
ReleaseWakes == wake \/ ui = "wakeOnly"
Drained      == {"soc", "fast", "slow", "publish"}
WakeInv ==
  /\ pc \in Drained /\ writeQ # <<>> => WriteWakes
  /\ pc \in InPoll \cup {"connect"} /\ released => ReleaseWakes
  /\ pc = "sleep" /\ client # "null" =>
       (writeQ # <<>> => WriteWakes) /\ (released => ReleaseWakes)

LEMMA NextWakeInv == FlagsTyped /\ WakeInv /\ [Next]_vars => WakeInv'
<1> SUFFICES ASSUME FlagsTyped /\ WakeInv, [Next]_vars PROVE WakeInv'
  OBVIOUS
<1> USE DEF WakeInv, WriteWakes, ReleaseWakes, Drained, InPoll, FlagsTyped
<1>1. CASE TaskWakes
  BY <1>1 DEF TaskWakes
<1>2. CASE PollReleased
  BY <1>2 DEF PollReleased, DropLink
<1>3. CASE PollOnLink
  BY <1>3 DEF PollOnLink
<1>4. CASE PollConnects
  BY <1>4 DEF PollConnects
<1>5. CASE ConnectFails
  BY <1>5 DEF ConnectFails, DropLink, Spend
<1>6. CASE ConnectSucceeds
  BY <1>6 DEF ConnectSucceeds, ForceOnFreshLink
<1>7. CASE TakeWrite
  BY <1>7 DEF TakeWrite
<1>8. CASE WriteConfirmed
  BY <1>8 DEF WriteConfirmed
<1>9. CASE WriteUnconfirmed
  BY <1>9 DEF WriteUnconfirmed, Unanswered, Spend
<1>10. CASE WritesDrained
  BY <1>10 DEF WritesDrained
<1>11. CASE SocAnswers
  BY <1>11 DEF SocAnswers
<1>12. CASE SocFails
  BY <1>12 DEF SocFails, Unanswered, Spend, DropLink
<1>13. CASE FastReadAnswers
  BY <1>13 DEF FastReadAnswers
<1>14. CASE FastReadFails
  BY <1>14 DEF FastReadFails, Unanswered, Spend
<1>15. CASE SlowTierStarts
  BY <1>15 DEF SlowTierStarts, SlowTierDue
<1>16. CASE SlowTierSkipped
  BY <1>16 DEF SlowTierSkipped, SlowTierDue
<1>17. CASE SlowReadAnswers
  BY <1>17 DEF SlowReadAnswers
<1>18. CASE SlowReadFails
  BY <1>18 DEF SlowReadFails, Unanswered, Spend
<1>19. CASE SlowTierEnds
  BY <1>19 DEF SlowTierEnds, ForceAgain
<1>20. CASE Publish
  BY <1>20 DEF Publish, Assembled
<1>21. CASE UiForcesFull
  BY <1>21 DEF UiForcesFull
<1>22. CASE UiWakesTask
  BY <1>22 DEF UiWakesTask
<1>23. CASE UiNotesPending
  BY <1>23 DEF UiNotesPending
<1>24. CASE UiSpinnerLands
  BY <1>24 DEF UiSpinnerLands
<1>25. CASE UiSpinnerTimesOut
  BY <1>25 DEF UiSpinnerTimesOut
<1>26. CASE UiQueuesWrite
  BY <1>26 DEF UiQueuesWrite, Spend, Sent
<1>27. CASE UiReleases
  BY <1>27 DEF UiReleases, Spend
<1>28. CASE UiResumes
  BY <1>28 DEF UiResumes
<1>29. CASE ReleaseExpires
  BY <1>29 DEF ReleaseExpires
<1>30. CASE LinkLost
  BY <1>30 DEF LinkLost, Spend
<1>31. CASE PanelChanges
  BY <1>31 DEF PanelChanges, Spend
<1>32. CASE UNCHANGED vars
  BY <1>32 DEF vars
<1>33. CASE UnitCommits
  BY <1>33 DEF UnitCommits
<1> QED
  BY <1>1, <1>2, <1>3, <1>4, <1>5, <1>6, <1>7, <1>8, <1>9, <1>10, <1>11, <1>12, <1>13,
     <1>14, <1>15, <1>16, <1>17, <1>18, <1>19, <1>20, <1>21, <1>22, <1>23, <1>24,
     <1>25, <1>26, <1>27, <1>28, <1>29, <1>30, <1>31, <1>32,
     <1>33
  DEF Next, Task, Connects, Writes, Reads, UiCall, UiTick, UiTap, Env


\* A task asleep on a live link has no write or release waiting for it without
\* a wakeup given or about to be given.
THEOREM WakeupCorrect == Spec => []WakeupNotLost
<1>1. Init => WakeInv
  BY DEF Init, WakeInv, Drained, InPoll
<1>2. WakeInv => WakeupNotLost
  BY DEF WakeInv, WakeupNotLost, WriteWakes, ReleaseWakes
<1>3. TypeOK => FlagsTyped
  BY DEF TypeOK
<1> QED
  BY <1>1, <1>2, <1>3, NextWakeInv, TypeCorrect, PTL DEF Spec

-----------------------------------------------------------------------------
(* Release.  A window that opens during a poll lets that poll publish; the *)
(* next one sees it.                                                       *)

HeldInv ==
  /\ heldPolls \in Nat
  /\ ~released => heldPolls = 0
  /\ released => heldPolls <= IF pc \in {"sleep", "start"} THEN 1 ELSE 0

LEMMA NextHeldInv == HeldInv /\ [Next]_vars => HeldInv'
<1> SUFFICES ASSUME HeldInv, [Next]_vars PROVE HeldInv'
  OBVIOUS
<1> USE DEF HeldInv
<1>1. CASE TaskWakes
  BY <1>1 DEF TaskWakes
<1>2. CASE PollReleased
  BY <1>2 DEF PollReleased, DropLink
<1>3. CASE PollOnLink
  BY <1>3 DEF PollOnLink
<1>4. CASE PollConnects
  BY <1>4 DEF PollConnects
<1>5. CASE ConnectFails
  BY <1>5 DEF ConnectFails, DropLink, Spend
<1>6. CASE ConnectSucceeds
  BY <1>6 DEF ConnectSucceeds, ForceOnFreshLink
<1>7. CASE TakeWrite
  BY <1>7 DEF TakeWrite
<1>8. CASE WriteConfirmed
  BY <1>8 DEF WriteConfirmed
<1>9. CASE WriteUnconfirmed
  BY <1>9 DEF WriteUnconfirmed, Unanswered, Spend
<1>10. CASE WritesDrained
  BY <1>10 DEF WritesDrained
<1>11. CASE SocAnswers
  BY <1>11 DEF SocAnswers
<1>12. CASE SocFails
  BY <1>12 DEF SocFails, Unanswered, Spend, DropLink
<1>13. CASE FastReadAnswers
  BY <1>13 DEF FastReadAnswers
<1>14. CASE FastReadFails
  BY <1>14 DEF FastReadFails, Unanswered, Spend
<1>15. CASE SlowTierStarts
  BY <1>15 DEF SlowTierStarts, SlowTierDue
<1>16. CASE SlowTierSkipped
  BY <1>16 DEF SlowTierSkipped, SlowTierDue
<1>17. CASE SlowReadAnswers
  BY <1>17 DEF SlowReadAnswers
<1>18. CASE SlowReadFails
  BY <1>18 DEF SlowReadFails, Unanswered, Spend
<1>19. CASE SlowTierEnds
  BY <1>19 DEF SlowTierEnds, ForceAgain
<1>20. CASE Publish
  BY <1>20 DEF Publish, Assembled
<1>21. CASE UiForcesFull
  BY <1>21 DEF UiForcesFull
<1>22. CASE UiWakesTask
  BY <1>22 DEF UiWakesTask
<1>23. CASE UiNotesPending
  BY <1>23 DEF UiNotesPending
<1>24. CASE UiSpinnerLands
  BY <1>24 DEF UiSpinnerLands
<1>25. CASE UiSpinnerTimesOut
  BY <1>25 DEF UiSpinnerTimesOut
<1>26. CASE UiQueuesWrite
  BY <1>26 DEF UiQueuesWrite, Spend, Sent
<1>27. CASE UiReleases
  BY <1>27 DEF UiReleases, Spend
<1>28. CASE UiResumes
  BY <1>28 DEF UiResumes
<1>29. CASE ReleaseExpires
  BY <1>29 DEF ReleaseExpires
<1>30. CASE LinkLost
  BY <1>30 DEF LinkLost, Spend
<1>31. CASE PanelChanges
  BY <1>31 DEF PanelChanges, Spend
<1>32. CASE UNCHANGED vars
  BY <1>32 DEF vars
<1>33. CASE UnitCommits
  BY <1>33 DEF UnitCommits
<1> QED
  BY <1>1, <1>2, <1>3, <1>4, <1>5, <1>6, <1>7, <1>8, <1>9, <1>10, <1>11, <1>12, <1>13,
     <1>14, <1>15, <1>16, <1>17, <1>18, <1>19, <1>20, <1>21, <1>22, <1>23, <1>24,
     <1>25, <1>26, <1>27, <1>28, <1>29, <1>30, <1>31, <1>32,
     <1>33
  DEF Next, Task, Connects, Writes, Reads, UiCall, UiTick, UiTap, Env


\* At most the poll in progress publishes during a release window.
THEOREM ReleaseCorrect == Spec => []ReleaseStopsPolls
<1>1. Init => HeldInv
  BY DEF Init, HeldInv
<1>2. HeldInv => ReleaseStopsPolls
  BY DEF HeldInv, ReleaseStopsPolls
<1> QED
  BY <1>1, <1>2, NextHeldInv, PTL DEF Spec

-----------------------------------------------------------------------------
(* Reconnection.  g_forceFull goes down only in a slow tier whose config   *)
(* block answered, which happened on the link in use.                      *)

FreshInv == ReconnectRefreshes /\ (pc = "slow" /\ cfgOk => cfgFresh)

LEMMA NextFreshInv == StateInv /\ FlagsTyped /\ FreshInv /\ [Next]_vars => FreshInv'
<1> SUFFICES ASSUME StateInv /\ FlagsTyped /\ FreshInv, [Next]_vars PROVE FreshInv'
  OBVIOUS
<1> USE DEF FreshInv, ReconnectRefreshes, FlagsTyped, StateInv, InPoll
<1>1. CASE TaskWakes
  BY <1>1 DEF TaskWakes
<1>2. CASE PollReleased
  BY <1>2 DEF PollReleased, DropLink
<1>3. CASE PollOnLink
  BY <1>3 DEF PollOnLink
<1>4. CASE PollConnects
  BY <1>4 DEF PollConnects
<1>5. CASE ConnectFails
  BY <1>5 DEF ConnectFails, DropLink, Spend
<1>6. CASE ConnectSucceeds
  BY <1>6 DEF ConnectSucceeds, ForceOnFreshLink
<1>7. CASE TakeWrite
  BY <1>7 DEF TakeWrite
<1>8. CASE WriteConfirmed
  BY <1>8 DEF WriteConfirmed
<1>9. CASE WriteUnconfirmed
  BY <1>9 DEF WriteUnconfirmed, Unanswered, Spend
<1>10. CASE WritesDrained
  BY <1>10 DEF WritesDrained
<1>11. CASE SocAnswers
  BY <1>11 DEF SocAnswers
<1>12. CASE SocFails
  BY <1>12 DEF SocFails, Unanswered, Spend, DropLink
<1>13. CASE FastReadAnswers
  BY <1>13 DEF FastReadAnswers
<1>14. CASE FastReadFails
  BY <1>14 DEF FastReadFails, Unanswered, Spend
<1>15. CASE SlowTierStarts
  BY <1>15 DEF SlowTierStarts, SlowTierDue
<1>16. CASE SlowTierSkipped
  BY <1>16 DEF SlowTierSkipped, SlowTierDue
<1>17. CASE SlowReadAnswers
  BY <1>17 DEF SlowReadAnswers
<1>18. CASE SlowReadFails
  BY <1>18 DEF SlowReadFails, Unanswered, Spend
<1>19. CASE SlowTierEnds
  BY <1>19 DEF SlowTierEnds, ForceAgain
<1>20. CASE Publish
  BY <1>20 DEF Publish, Assembled
<1>21. CASE UiForcesFull
  BY <1>21 DEF UiForcesFull
<1>22. CASE UiWakesTask
  BY <1>22 DEF UiWakesTask
<1>23. CASE UiNotesPending
  BY <1>23 DEF UiNotesPending
<1>24. CASE UiSpinnerLands
  BY <1>24 DEF UiSpinnerLands
<1>25. CASE UiSpinnerTimesOut
  BY <1>25 DEF UiSpinnerTimesOut
<1>26. CASE UiQueuesWrite
  BY <1>26 DEF UiQueuesWrite, Spend, Sent
<1>27. CASE UiReleases
  BY <1>27 DEF UiReleases, Spend
<1>28. CASE UiResumes
  BY <1>28 DEF UiResumes
<1>29. CASE ReleaseExpires
  BY <1>29 DEF ReleaseExpires
<1>30. CASE LinkLost
  BY <1>30 DEF LinkLost, Spend
<1>31. CASE PanelChanges
  BY <1>31 DEF PanelChanges, Spend
<1>32. CASE UNCHANGED vars
  BY <1>32 DEF vars
<1>33. CASE UnitCommits
  BY <1>33 DEF UnitCommits
<1> QED
  BY <1>1, <1>2, <1>3, <1>4, <1>5, <1>6, <1>7, <1>8, <1>9, <1>10, <1>11, <1>12, <1>13,
     <1>14, <1>15, <1>16, <1>17, <1>18, <1>19, <1>20, <1>21, <1>22, <1>23, <1>24,
     <1>25, <1>26, <1>27, <1>28, <1>29, <1>30, <1>31, <1>32,
     <1>33
  DEF Next, Task, Connects, Writes, Reads, UiCall, UiTick, UiTap, Env


\* After a reconnect the cached config block is read again before the flag
\* that demands it goes down.
THEOREM ReconnectCorrect == Spec => []ReconnectRefreshes
<1>1. Init => StateInv /\ FreshInv
  BY DEF Init, StateInv, SleepStateAgrees, InPoll, FreshInv, ReconnectRefreshes
<1>2. FreshInv => ReconnectRefreshes
  BY DEF FreshInv
<1>3. TypeOK => FlagsTyped
  BY DEF TypeOK
<1> QED
  BY <1>1, <1>2, <1>3, NextStateInv, NextFreshInv, TypeCorrect, PTL DEF Spec

-----------------------------------------------------------------------------
(* Config writes.  A write to the config block is covered, by the flag, by *)
(* the call that is about to raise it or by the recorded race, from the    *)
(* moment it is queued until the block is read back.                       *)

CfgPending == \E r \in CfgRegs : r \in unshown \/ Outstanding(r)
Covered    == forceFull \/ raced \/ ui = "force"
RereadInv ==
  /\ CfgPending => Covered
  /\ pc = "slow" /\ cfgOk => unshown \cap CfgRegs = {}

LEMMA NextRereadInv == TypeOK /\ RereadInv /\ [Next]_vars => RereadInv'
<1> SUFFICES ASSUME TypeOK /\ RereadInv, [Next]_vars PROVE RereadInv'
  OBVIOUS
<1> USE DEF RereadInv, CfgPending, Covered, TypeOK, FlagsTyped, QueueTyped, Outstanding, Queued
<1>1. CASE TaskWakes
  BY <1>1 DEF TaskWakes
<1>2. CASE PollReleased
  BY <1>2 DEF PollReleased, DropLink
<1>3. CASE PollOnLink
  BY <1>3 DEF PollOnLink
<1>4. CASE PollConnects
  BY <1>4 DEF PollConnects
<1>5. CASE ConnectFails
  BY <1>5 DEF ConnectFails, DropLink, Spend
<1>6. CASE ConnectSucceeds
  BY <1>6 DEF ConnectSucceeds, ForceOnFreshLink
<1>7. CASE TakeWrite
  BY <1>7 DEF TakeWrite
<1>8. CASE WriteConfirmed
  BY <1>8 DEF WriteConfirmed
<1>9. CASE WriteUnconfirmed
  BY <1>9 DEF WriteUnconfirmed, Unanswered, Spend
<1>10. CASE WritesDrained
  BY <1>10 DEF WritesDrained
<1>11. CASE SocAnswers
  BY <1>11 DEF SocAnswers
<1>12. CASE SocFails
  BY <1>12 DEF SocFails, Unanswered, Spend, DropLink
<1>13. CASE FastReadAnswers
  BY <1>13 DEF FastReadAnswers
<1>14. CASE FastReadFails
  BY <1>14 DEF FastReadFails, Unanswered, Spend
<1>15. CASE SlowTierStarts
  BY <1>15 DEF SlowTierStarts, SlowTierDue
<1>16. CASE SlowTierSkipped
  BY <1>16 DEF SlowTierSkipped, SlowTierDue
<1>17. CASE SlowReadAnswers
  <2>1. unshown' \subseteq unshown /\ (CfgPending' => CfgPending)
    BY <1>17 DEF SlowReadAnswers
  <2>2. Covered' <=> Covered
    BY <1>17 DEF SlowReadAnswers
  <2>3. idx = CfgRead => unshown' \cap CfgRegs = {}
    BY <1>17 DEF SlowReadAnswers, CfgRegs
  <2>4. cfgOk' => cfgOk \/ idx = CfgRead
    BY <1>17, Zenon DEF SlowReadAnswers
  <2> QED
    BY <1>17, <2>1, <2>2, <2>3, <2>4 DEF SlowReadAnswers
<1>18. CASE SlowReadFails
  BY <1>18 DEF SlowReadFails, Unanswered, Spend
<1>19. CASE SlowTierEnds
  BY <1>19 DEF SlowTierEnds, ForceAgain
<1>20. CASE Publish
  BY <1>20 DEF Publish, Assembled
<1>21. CASE UiForcesFull
  BY <1>21 DEF UiForcesFull
<1>22. CASE UiWakesTask
  BY <1>22 DEF UiWakesTask
<1>23. CASE UiNotesPending
  BY <1>23 DEF UiNotesPending
<1>24. CASE UiSpinnerLands
  BY <1>24 DEF UiSpinnerLands
<1>25. CASE UiSpinnerTimesOut
  BY <1>25 DEF UiSpinnerTimesOut
<1>26. CASE UiQueuesWrite
  BY <1>26 DEF UiQueuesWrite, Spend, Sent
<1>27. CASE UiReleases
  BY <1>27 DEF UiReleases, Spend
<1>28. CASE UiResumes
  BY <1>28 DEF UiResumes
<1>29. CASE ReleaseExpires
  BY <1>29 DEF ReleaseExpires
<1>30. CASE LinkLost
  BY <1>30 DEF LinkLost, Spend
<1>31. CASE PanelChanges
  BY <1>31 DEF PanelChanges, Spend
<1>32. CASE UNCHANGED vars
  BY <1>32 DEF vars
<1>33. CASE UnitCommits
  BY <1>33 DEF UnitCommits
<1> QED
  BY <1>1, <1>2, <1>3, <1>4, <1>5, <1>6, <1>7, <1>8, <1>9, <1>10, <1>11, <1>12, <1>13,
     <1>14, <1>15, <1>16, <1>17, <1>18, <1>19, <1>20, <1>21, <1>22, <1>23, <1>24,
     <1>25, <1>26, <1>27, <1>28, <1>29, <1>30, <1>31, <1>32,
     <1>33
  DEF Next, Task, Connects, Writes, Reads, UiCall, UiTick, UiTap, Env


\* A confirmed config write that was not read back keeps g_forceFull up, but
\* for the write that raced with the end of a slow tier.
THEOREM RereadCorrect == Spec => []CfgRereadUntilLands
<1>1. Init => RereadInv
  BY DEF Init, RereadInv, CfgPending, Covered
<1>2. RereadInv => CfgRereadUntilLands
  BY DEF RereadInv, CfgRereadUntilLands, CfgPending, Covered
<1> QED
  BY <1>1, <1>2, NextRereadInv, TypeCorrect, PTL DEF Spec


-----------------------------------------------------------------------------
(* Age of the config block.  A poll that skips the slow tier ages the      *)
(* block along with g_slowTick; one that tried and failed has paid for it  *)
(* with a fault or a lost link, which leaves it one poll of slack.         *)

Ticks == IF slowTick = 0 THEN SlowEvery ELSE slowTick
Slack == cfgAge + 1 <= SlowEvery + Failures
AgeInv ==
  /\ CfgAgeBounded
  /\ pc = "publish" => Slack
  /\ pc = "publish" /\ ~forceFull => cfgAge <= slowTick + Failures
  /\ pc = "slow" /\ cfgOk => cfgAge = 0
  /\ pc = "slow" /\ ~cfgOk /\ idx > CfgRead => Slack
  /\ pc \in InPoll /\ client = "lost" => Slack
  /\ pc \notin {"slow", "publish"} /\ ~forceFull => cfgAge <= Ticks + Failures

FailuresIn == Failures \in Nat /\ budget \in [Budgets -> Nat]

LEMMA FailuresSpent ==
  ASSUME FailuresIn, Spend("faults") \/ Spend("losses")
  PROVE  Failures' = Failures + 1
BY BoundsAssumption DEF FailuresIn, Failures, Spend, Budgets

LEMMA FailuresKept ==
  ASSUME FailuresIn,
         UNCHANGED budget \/ Spend("writes") \/ Spend("releases") \/ Spend("panel")
  PROVE  Failures' = Failures
BY DEF FailuresIn, Failures, Spend, Budgets

LEMMA FailuresUnanswered ==
  ASSUME FailuresIn, Unanswered
  PROVE  (client = "up" /\ Failures' = Failures + 1)
         \/ (client = "lost" /\ Failures' = Failures)
BY FailuresSpent, FailuresKept DEF Unanswered

LEMMA NextAgeInv == TypeOK /\ FailuresIn /\ AgeInv /\ [Next]_vars => AgeInv'
<1> SUFFICES ASSUME TypeOK /\ FailuresIn /\ AgeInv, [Next]_vars PROVE AgeInv'
  OBVIOUS
<1> USE SizesAssumption, ReadsAssumption
        DEF AgeInv, CfgAgeBounded, Slack, Ticks, InPoll, FailuresIn, TypeOK, ControlTyped,
            FlagsTyped
<1>1. CASE TaskWakes
  <2>1. Failures' = Failures
    BY <1>1, FailuresKept DEF TaskWakes
  <2> QED
    BY <1>1, <2>1 DEF TaskWakes
<1>2. CASE PollReleased
  <2>1. Failures' = Failures
    BY <1>2, FailuresKept DEF PollReleased
  <2> QED
    BY <1>2, <2>1 DEF PollReleased, DropLink
<1>3. CASE PollOnLink
  <2>1. Failures' = Failures
    BY <1>3, FailuresKept DEF PollOnLink
  <2> QED
    BY <1>3, <2>1 DEF PollOnLink
<1>4. CASE PollConnects
  <2>1. Failures' = Failures
    BY <1>4, FailuresKept DEF PollConnects
  <2> QED
    BY <1>4, <2>1 DEF PollConnects
<1>5. CASE ConnectFails
  <2>1. Failures' = Failures + 1
    BY <1>5, FailuresSpent DEF ConnectFails
  <2> QED
    BY <1>5, <2>1 DEF ConnectFails, DropLink
<1>6. CASE ConnectSucceeds
  <2>1. Failures' = Failures
    BY <1>6, FailuresKept DEF ConnectSucceeds
  <2> QED
    BY <1>6, <2>1 DEF ConnectSucceeds, ForceOnFreshLink
<1>7. CASE TakeWrite
  <2>1. Failures' = Failures
    BY <1>7, FailuresKept DEF TakeWrite
  <2> QED
    BY <1>7, <2>1 DEF TakeWrite
<1>8. CASE WriteConfirmed
  <2>1. Failures' = Failures
    BY <1>8, FailuresKept DEF WriteConfirmed
  <2> QED
    BY <1>8, <2>1 DEF WriteConfirmed
<1>9. CASE WriteUnconfirmed
  <2>1. (client = "up" /\ Failures' = Failures + 1)
        \/ (client = "lost" /\ Failures' = Failures)
    BY <1>9, FailuresUnanswered DEF WriteUnconfirmed
  <2> QED
    BY <1>9, <2>1 DEF WriteUnconfirmed
<1>10. CASE WritesDrained
  <2>1. Failures' = Failures
    BY <1>10, FailuresKept DEF WritesDrained
  <2> QED
    BY <1>10, <2>1 DEF WritesDrained
<1>11. CASE SocAnswers
  <2>1. Failures' = Failures
    BY <1>11, FailuresKept DEF SocAnswers
  <2> QED
    BY <1>11, <2>1 DEF SocAnswers
<1>12. CASE SocFails
  <2>1. (client = "up" /\ Failures' = Failures + 1)
        \/ (client = "lost" /\ Failures' = Failures)
    BY <1>12, FailuresUnanswered DEF SocFails
  <2> QED
    BY <1>12, <2>1 DEF SocFails, DropLink
<1>13. CASE FastReadAnswers
  <2>1. Failures' = Failures
    BY <1>13, FailuresKept DEF FastReadAnswers
  <2> QED
    BY <1>13, <2>1 DEF FastReadAnswers
<1>14. CASE FastReadFails
  <2>1. (client = "up" /\ Failures' = Failures + 1)
        \/ (client = "lost" /\ Failures' = Failures)
    BY <1>14, FailuresUnanswered DEF FastReadFails
  <2> QED
    BY <1>14, <2>1 DEF FastReadFails
<1>15. CASE SlowTierStarts
  <2>1. Failures' = Failures
    BY <1>15, FailuresKept DEF SlowTierStarts
  <2> QED
    BY <1>15, <2>1 DEF SlowTierStarts, SlowTierDue
<1>16. CASE SlowTierSkipped
  <2>1. Failures' = Failures
    BY <1>16, FailuresKept DEF SlowTierSkipped
  <2> QED
    BY <1>16, <2>1 DEF SlowTierSkipped, SlowTierDue
<1>17. CASE SlowReadAnswers
  <2>1. Failures' = Failures
    BY <1>17, FailuresKept DEF SlowReadAnswers
  <2> QED
    BY <1>17, <2>1 DEF SlowReadAnswers
<1>18. CASE SlowReadFails
  <2>1. (client = "up" /\ Failures' = Failures + 1)
        \/ (client = "lost" /\ Failures' = Failures)
    BY <1>18, FailuresUnanswered DEF SlowReadFails
  <2> QED
    BY <1>18, <2>1 DEF SlowReadFails
<1>19. CASE SlowTierEnds
  <2>1. Failures' = Failures
    BY <1>19, FailuresKept DEF SlowTierEnds
  <2>2. ~cfgOk => Slack
    <3>1. DOMAIN SlowReads = 1 .. Len(SlowReads)
      BY ReadsAssumption
    <3>2. idx > CfgRead
      BY <1>19, <3>1 DEF SlowTierEnds
    <3> QED
      BY <1>19, <3>2 DEF SlowTierEnds
  <2>3. forceFull' <=> ~cfgOk
    BY <1>19, Zenon DEF SlowTierEnds, ForceAgain
  <2>4. /\ pc = "slow" /\ pc' = "publish"
        /\ UNCHANGED <<cfgAge, slowTick, client, cfgOk, idx>>
    BY <1>19 DEF SlowTierEnds
  <2>5. cfgOk => cfgAge = 0
    BY <2>4
  <2> QED
    BY <2>1, <2>2, <2>3, <2>4, <2>5
<1>20. CASE Publish
  <2>1. Failures' = Failures
    BY <1>20, FailuresKept DEF Publish
  <2> QED
    BY <1>20, <2>1 DEF Publish
<1>21. CASE UiForcesFull
  <2>1. Failures' = Failures
    BY <1>21, FailuresKept DEF UiForcesFull
  <2> QED
    BY <1>21, <2>1 DEF UiForcesFull
<1>22. CASE UiWakesTask
  <2>1. Failures' = Failures
    BY <1>22, FailuresKept DEF UiWakesTask
  <2> QED
    BY <1>22, <2>1 DEF UiWakesTask
<1>23. CASE UiNotesPending
  <2>1. Failures' = Failures
    BY <1>23, FailuresKept DEF UiNotesPending
  <2> QED
    BY <1>23, <2>1 DEF UiNotesPending
<1>24. CASE UiSpinnerLands
  <2>1. Failures' = Failures
    BY <1>24, FailuresKept DEF UiSpinnerLands
  <2> QED
    BY <1>24, <2>1 DEF UiSpinnerLands
<1>25. CASE UiSpinnerTimesOut
  <2>1. Failures' = Failures
    BY <1>25, FailuresKept DEF UiSpinnerTimesOut
  <2> QED
    BY <1>25, <2>1 DEF UiSpinnerTimesOut
<1>26. CASE UiQueuesWrite
  <2>1. Failures' = Failures
    BY <1>26, FailuresKept DEF UiQueuesWrite
  <2> QED
    BY <1>26, <2>1 DEF UiQueuesWrite
<1>27. CASE UiReleases
  <2>1. Failures' = Failures
    BY <1>27, FailuresKept DEF UiReleases
  <2> QED
    BY <1>27, <2>1 DEF UiReleases
<1>28. CASE UiResumes
  <2>1. Failures' = Failures
    BY <1>28, FailuresKept DEF UiResumes
  <2> QED
    BY <1>28, <2>1 DEF UiResumes
<1>29. CASE ReleaseExpires
  <2>1. Failures' = Failures
    BY <1>29, FailuresKept DEF ReleaseExpires
  <2> QED
    BY <1>29, <2>1 DEF ReleaseExpires
<1>30. CASE LinkLost
  <2>1. Failures' = Failures + 1
    BY <1>30, FailuresSpent DEF LinkLost
  <2> QED
    BY <1>30, <2>1 DEF LinkLost
<1>31. CASE PanelChanges
  <2>1. Failures' = Failures
    BY <1>31, FailuresKept DEF PanelChanges
  <2> QED
    BY <1>31, <2>1 DEF PanelChanges
<1>32. CASE UNCHANGED vars
  BY <1>32, FailuresKept DEF vars
<1>33. CASE UnitCommits
  <2>1. Failures' = Failures
    BY <1>33, FailuresKept DEF UnitCommits
  <2> QED
    BY <1>33, <2>1 DEF UnitCommits
<1> QED
  BY <1>1, <1>2, <1>3, <1>4, <1>5, <1>6, <1>7, <1>8, <1>9, <1>10, <1>11, <1>12, <1>13,
     <1>14, <1>15, <1>16, <1>17, <1>18, <1>19, <1>20, <1>21, <1>22, <1>23, <1>24,
     <1>25, <1>26, <1>27, <1>28, <1>29, <1>30, <1>31, <1>32,
     <1>33
  DEF Next, Task, Connects, Writes, Reads, UiCall, UiTick, UiTap, Env


LEMMA NextFailuresIn == TypeOK /\ FailuresIn /\ [Next]_vars => FailuresIn'
<1> SUFFICES ASSUME TypeOK, FailuresIn, [Next]_vars PROVE FailuresIn'
  OBVIOUS
<1>1. TypeOK'
  BY NextControlTyped, NextFlagsTyped, NextQueueTyped, NextDataTyped DEF TypeOK
<1>2. Failures' \in Nat
  <2>1. UNCHANGED budget \/ Spend("writes") \/ Spend("releases") \/ Spend("panel")
        \/ Spend("faults") \/ Spend("losses")
    BY DEF Next, Task, Connects, Writes, Reads, UiCall, UiTick, UiTap, Env, vars,
           TaskWakes, PollReleased, PollOnLink, PollConnects, ConnectFails,
           ConnectSucceeds, TakeWrite, WriteConfirmed, WriteUnconfirmed, WritesDrained,
           SocAnswers, SocFails, FastReadAnswers, FastReadFails, SlowTierStarts,
           SlowTierSkipped, SlowReadAnswers, SlowReadFails, SlowTierEnds, Publish,
           UiForcesFull, UiWakesTask, UiNotesPending, UiSpinnerLands,
           UiSpinnerTimesOut, UiQueuesWrite, UiReleases, UiResumes, ReleaseExpires,
           LinkLost, PanelChanges, UnitCommits, Unanswered
  <2> QED
    BY <2>1, FailuresSpent, FailuresKept DEF FailuresIn
<1> QED
  BY <1>1, <1>2 DEF FailuresIn, TypeOK, DataTyped

\* However many faults and losses there are, the published config block is at
\* most SLOW_EVERY polls old plus one poll for each of them.
THEOREM AgeCorrect == Spec => []CfgAgeBounded
<1>1. Init => FailuresIn /\ AgeInv
  BY SizesAssumption, BoundsAssumption
  DEF Init, AgeInv, FailuresIn, Failures, CfgAgeBounded, Slack, InPoll, Budgets
<1>2. AgeInv => CfgAgeBounded
  BY DEF AgeInv
<1> QED
  BY <1>1, <1>2, NextAgeInv, NextFailuresIn, TypeCorrect, PTL DEF Spec


-----------------------------------------------------------------------------
(* Order of writes.  The last outstanding write of a register carries the  *)
(* value that is wanted of it, so that applying the queue from its head    *)
(* leaves that value in the unit, or waiting there as the last to commit.   *)

LastOf(i) == \A j \in DOMAIN writeQ : j > i => writeQ[j].reg # writeQ[i].reg
QueueAgrees ==
  \A i \in DOMAIN writeQ : LastOf(i) => want[writeQ[i].reg] \subseteq {writeQ[i].val}
HandAgrees == pw # NoWrite /\ ~Queued(pw.reg) => want[pw.reg] \subseteq {pw.val}
\* What a register will hold once the unit has committed what it took.
Final(r) == IF late[r] = <<>> THEN dev[r] ELSE late[r][Len(late[r])]
FinalAgrees == \A r \in UiRegs : Outstanding(r) \/ want[r] \subseteq {Final(r)}
OrderInv == QueueAgrees /\ HandAgrees /\ FinalAgrees

\* The typing facts the steps below need.
OrderTyped ==
  /\ writeQ \in Seq(Write) /\ pw \in Write \cup {NoWrite} /\ NoWrite \notin Write
  /\ (pc = "write" <=> pw # NoWrite)
  /\ dev \in [Regs -> Values] /\ want \in [UiRegs -> SUBSET Values]
  /\ late \in [UiRegs -> Seq(Values)]

LEMMA OrderIsTyped == TypeOK => OrderTyped
BY SizesAssumption DEF TypeOK, QueueTyped, DataTyped, OrderTyped

LEMMA WriteFields == \A w \in Write : w.reg \in UiRegs /\ w.reg \in Regs /\ w.val \in Values
BY RegsTyped DEF Write

LEMMA QueueElements ==
  ASSUME OrderTyped
  PROVE  /\ Len(writeQ) \in Nat /\ DOMAIN writeQ = 1 .. Len(writeQ)
         /\ \A i \in DOMAIN writeQ : writeQ[i] \in Write
BY DEF OrderTyped

\* A write leaves its value as the final one of its register alone.
LEMMA TakesFinal ==
  ASSUME OrderTyped, NEW w \in Write, NEW n \in 0 .. Len(late[w.reg]) + 1,
         Takes(w.reg, w.val, n)
  PROVE  \A r \in UiRegs : Final(r)' = IF r = w.reg THEN w.val ELSE Final(r)
BY TakesFacts DEF OrderTyped, Final

LEMMA TakeKeepsOrder == OrderTyped /\ OrderInv /\ TakeWrite => OrderInv'
<1> SUFFICES ASSUME OrderTyped, OrderInv, TakeWrite PROVE OrderInv'
  OBVIOUS
<1>1. /\ pw = NoWrite /\ pw' = writeQ[1] /\ writeQ' = Tail(writeQ)
      /\ writeQ # <<>> /\ UNCHANGED <<want, dev, late>> /\ pw' \in Write /\ pw' # NoWrite
  BY DEF TakeWrite, OrderTyped
<1>2. /\ DOMAIN writeQ = 1 .. Len(writeQ) /\ Len(writeQ) \in Nat \ {0}
      /\ DOMAIN writeQ' = 1 .. Len(writeQ) - 1
      /\ \A i \in DOMAIN writeQ' : writeQ'[i] = writeQ[i + 1]
  BY <1>1 DEF OrderTyped
<1>3. ASSUME NEW j \in DOMAIN writeQ, j # 1
      PROVE  j - 1 \in DOMAIN writeQ' /\ writeQ'[j - 1] = writeQ[j]
  <2>1. j \in Nat /\ j - 1 \in DOMAIN writeQ' /\ (j - 1) + 1 = j
    BY <1>2, <1>3
  <2> QED
    BY <1>2, <2>1
<1>4. ASSUME NEW r, Outstanding(r) PROVE Outstanding(r)'
  <2>1. PICK j \in DOMAIN writeQ : writeQ[j].reg = r
    BY <1>1, <1>4 DEF Outstanding, Queued
  <2>2. CASE j = 1
    BY <1>1, <2>1, <2>2 DEF Outstanding
  <2>3. CASE j # 1
    BY <1>3, <2>1, <2>3 DEF Outstanding, Queued
  <2> QED
    BY <2>2, <2>3
<1>5. ASSUME NEW i \in DOMAIN writeQ', LastOf(i)'
      PROVE  want'[writeQ'[i].reg] \subseteq {writeQ'[i].val}
  <2>1. i + 1 \in DOMAIN writeQ /\ writeQ'[i] = writeQ[i + 1]
    BY <1>2
  <2>2. ASSUME NEW j \in DOMAIN writeQ, j > i + 1
        PROVE  writeQ[j].reg # writeQ[i + 1].reg
    <3>1. j - 1 \in DOMAIN writeQ' /\ j - 1 > i /\ writeQ'[j - 1] = writeQ[j]
      BY <1>2, <2>2
    <3> QED
      BY <1>5, <2>1, <3>1 DEF LastOf
  <2>3. LastOf(i + 1)
    BY <2>2 DEF LastOf
  <2> QED
    BY <1>1, <2>1, <2>3 DEF OrderInv, QueueAgrees
<1>6. ASSUME ~Queued(pw.reg)' PROVE want'[pw'.reg] \subseteq {pw'.val}
  <2>1. ASSUME NEW j \in DOMAIN writeQ, j > 1 PROVE writeQ[j].reg # writeQ[1].reg
    <3>1. j - 1 \in DOMAIN writeQ' /\ writeQ'[j - 1] = writeQ[j]
      BY <1>3, <2>1
    <3> QED
      BY <1>1, <1>6, <3>1 DEF Queued
  <2>2. LastOf(1) /\ 1 \in DOMAIN writeQ
    BY <1>2, <2>1 DEF LastOf
  <2> QED
    BY <1>1, <2>2 DEF OrderInv, QueueAgrees
<1>7. FinalAgrees'
  BY <1>1, <1>4 DEF OrderInv, FinalAgrees, Final
<1> QED
  BY <1>5, <1>6, <1>7 DEF OrderInv, QueueAgrees, HandAgrees

LEMMA ConfirmKeepsOrder == OrderTyped /\ OrderInv /\ WriteConfirmed => OrderInv'
<1> SUFFICES ASSUME OrderTyped, OrderInv, WriteConfirmed PROVE OrderInv'
  OBVIOUS
<1>1. /\ pw \in Write /\ pw # NoWrite /\ pw.reg \in UiRegs
      /\ pw' = NoWrite /\ UNCHANGED <<writeQ, want>>
  BY WriteFields DEF WriteConfirmed, OrderTyped
<1>5. \A r \in UiRegs : Final(r)' = IF r = pw.reg THEN pw.val ELSE Final(r)
  <2>1. PICK n \in 0 .. Len(late[pw.reg]) + 1 : Takes(pw.reg, pw.val, n)
    BY DEF WriteConfirmed
  <2>2. pw \in Write
    BY <1>1
  <2> QED
    BY <2>1, <2>2, TakesFinal
<1>2. ASSUME NEW r \in UiRegs, ~Outstanding(r)' PROVE want'[r] \subseteq {Final(r)'}
  <2>1. ~Queued(r)
    BY <1>1, <1>2 DEF Outstanding, Queued
  <2>2. CASE r = pw.reg
    BY <1>1, <1>5, <2>1, <2>2 DEF OrderInv, HandAgrees
  <2>3. CASE r # pw.reg
    <3>1. ~Outstanding(r)
      BY <2>1, <2>3 DEF Outstanding
    <3>2. want[r] \subseteq {Final(r)}
      BY <3>1 DEF OrderInv, FinalAgrees
    <3> QED
      BY <1>1, <1>5, <2>3, <3>2
  <2> QED
    BY <2>2, <2>3
<1>3. FinalAgrees'
  BY <1>2 DEF FinalAgrees
<1>4. QueueAgrees' /\ HandAgrees'
  BY <1>1 DEF OrderInv, QueueAgrees, HandAgrees, LastOf
<1> QED
  BY <1>3, <1>4 DEF OrderInv

LEMMA UnconfirmedKeepsOrder == OrderTyped /\ OrderInv /\ WriteUnconfirmed => OrderInv'
<1> SUFFICES ASSUME OrderTyped, OrderInv, WriteUnconfirmed PROVE OrderInv'
  OBVIOUS
<1>1. /\ pw \in Write /\ pw # NoWrite /\ pw.reg \in UiRegs
      /\ pw' = NoWrite /\ UNCHANGED writeQ
      /\ want' = IF Queued(pw.reg) THEN want ELSE [want EXCEPT ![pw.reg] = {}]
      /\ want \in [UiRegs -> SUBSET Values]
  BY WriteFields DEF WriteUnconfirmed, OrderTyped
<1>7. \A r \in UiRegs : r # pw.reg => Final(r)' = Final(r)
  <2>1. CASE UNCHANGED unitVars
    BY <2>1 DEF Final
  <2>2. CASE \E n \in 0 .. Len(late[pw.reg]) + 1 : Takes(pw.reg, pw.val, n)
    <3>1. PICK n \in 0 .. Len(late[pw.reg]) + 1 : Takes(pw.reg, pw.val, n)
      BY <2>2
    <3>2. pw \in Write
      BY <1>1
    <3> QED
      BY <3>1, <3>2, TakesFinal
  <2> QED
    BY <2>1, <2>2 DEF WriteUnconfirmed
<1>2. \A r \in UiRegs : want'[r] \subseteq want[r]
  BY <1>1
<1>3. ASSUME NEW r \in UiRegs, ~Outstanding(r)' PROVE want'[r] \subseteq {Final(r)'}
  <2>1. ~Queued(r)
    BY <1>1, <1>3 DEF Outstanding, Queued
  <2>2. CASE r = pw.reg
    BY <1>1, <2>1, <2>2
  <2>3. CASE r # pw.reg
    <3>1. ~Outstanding(r)
      BY <2>1, <2>3 DEF Outstanding
    <3>2. want[r] \subseteq {Final(r)}
      BY <3>1 DEF OrderInv, FinalAgrees
    <3> QED
      BY <1>2, <1>7, <2>3, <3>2
  <2> QED
    BY <2>2, <2>3
<1>4. FinalAgrees'
  BY <1>3 DEF FinalAgrees
<1>5. ASSUME NEW i \in DOMAIN writeQ', LastOf(i)'
      PROVE  want'[writeQ'[i].reg] \subseteq {writeQ'[i].val}
  <2>1. i \in DOMAIN writeQ /\ LastOf(i) /\ writeQ'[i] = writeQ[i]
    BY <1>1, <1>5 DEF LastOf
  <2>2. writeQ[i].reg \in UiRegs
    BY <2>1, QueueElements, WriteFields
  <2>3. want[writeQ[i].reg] \subseteq {writeQ[i].val}
    BY <2>1 DEF OrderInv, QueueAgrees
  <2> QED
    BY <1>2, <2>1, <2>2, <2>3
<1>6. QueueAgrees' /\ HandAgrees'
  BY <1>1, <1>5 DEF QueueAgrees, HandAgrees
<1> QED
  BY <1>4, <1>6 DEF OrderInv

LEMMA QueueingKeepsOrder == OrderTyped /\ OrderInv /\ UiQueuesWrite => OrderInv'
<1> SUFFICES ASSUME OrderTyped, OrderInv, UiQueuesWrite PROVE OrderInv'
  OBVIOUS
<1>1. UNCHANGED <<pw, dev, late>> /\ (pw = NoWrite \/ pw \in Write)
  BY DEF UiQueuesWrite, OrderTyped
<1>2. PICK w \in Write :
        \/ UNCHANGED <<writeQ, want>>
        \/ writeQ' = Append(writeQ, w) /\ want' = [want EXCEPT ![w.reg] = {w.val}]
  BY DEF UiQueuesWrite, Sent
<1>3. CASE UNCHANGED <<writeQ, want>>
  BY <1>1, <1>3 DEF OrderInv, QueueAgrees, HandAgrees, LastOf, Queued, FinalAgrees,
     Outstanding, Final
<1>4. CASE writeQ' = Append(writeQ, w) /\ want' = [want EXCEPT ![w.reg] = {w.val}]
  <2>1. /\ DOMAIN writeQ' = 1 .. Len(writeQ) + 1 /\ DOMAIN writeQ = 1 .. Len(writeQ)
        /\ writeQ'[Len(writeQ) + 1] = w
        /\ \A i \in DOMAIN writeQ : writeQ'[i] = writeQ[i]
        /\ Len(writeQ) \in Nat
    BY <1>4 DEF OrderTyped
  <2>2. \A r \in UiRegs : want'[r] = IF r = w.reg THEN {w.val} ELSE want[r]
    BY <1>4, WriteFields DEF OrderTyped
  <2>3. ASSUME NEW r, ~Queued(r)' PROVE ~Queued(r) /\ r # w.reg
    <3>1. Len(writeQ) + 1 \in DOMAIN writeQ'
      BY <2>1
    <3>2. \A i \in DOMAIN writeQ : i \in DOMAIN writeQ'
      BY <2>1
    <3> QED
      BY <2>1, <2>3, <3>1, <3>2 DEF Queued
  <2>4. ASSUME NEW i \in DOMAIN writeQ', LastOf(i)'
        PROVE  want'[writeQ'[i].reg] \subseteq {writeQ'[i].val}
    <3>1. CASE i = Len(writeQ) + 1
      BY <2>1, <2>2, <3>1, WriteFields
    <3>2. CASE i # Len(writeQ) + 1
      <4>1. i \in DOMAIN writeQ /\ writeQ'[i] = writeQ[i]
        BY <2>1, <3>2
      <4>2. Len(writeQ) + 1 \in DOMAIN writeQ' /\ Len(writeQ) + 1 > i
        BY <2>1, <4>1
      <4>3. writeQ[i].reg # w.reg
        BY <2>1, <2>4, <4>1, <4>2 DEF LastOf
      <4>4. \A j \in DOMAIN writeQ : j \in DOMAIN writeQ'
        BY <2>1
      <4>5. LastOf(i)
        BY <2>1, <2>4, <4>1, <4>4 DEF LastOf
      <4>6. writeQ[i].reg \in UiRegs
        BY <4>1, QueueElements, WriteFields
      <4> QED
        BY <2>2, <4>1, <4>3, <4>5, <4>6 DEF OrderInv, QueueAgrees
    <3> QED
      BY <3>1, <3>2
  <2>5. ASSUME pw' # NoWrite, ~Queued(pw.reg)' PROVE want'[pw'.reg] \subseteq {pw'.val}
    <3>1. pw' = pw /\ pw \in Write /\ ~Queued(pw.reg) /\ pw.reg # w.reg
      BY <1>1, <2>3, <2>5
    <3>2. want[pw.reg] \subseteq {pw.val} /\ pw # NoWrite
      BY <2>5, <3>1 DEF OrderInv, HandAgrees
    <3>3. want'[pw.reg] = want[pw.reg]
      BY <2>2, <3>1, WriteFields
    <3> QED
      BY <3>1, <3>2, <3>3
  <2>6. ASSUME NEW r \in UiRegs, ~Outstanding(r)' PROVE want'[r] \subseteq {Final(r)'}
    <3>1. ~Outstanding(r) /\ r # w.reg
      BY <1>1, <2>3, <2>6 DEF Outstanding
    <3>2. Final(r)' = Final(r)
      BY <1>1 DEF Final
    <3> QED
      BY <2>2, <3>1, <3>2 DEF OrderInv, FinalAgrees
  <2> QED
    BY <2>4, <2>5, <2>6 DEF OrderInv, QueueAgrees, HandAgrees, FinalAgrees
<1> QED
  BY <1>2, <1>3, <1>4

LEMMA PanelKeepsOrder == OrderTyped /\ OrderInv /\ PanelChanges => OrderInv'
<1> SUFFICES ASSUME OrderTyped, OrderInv, PanelChanges PROVE OrderInv'
  OBVIOUS
<1>1. PICK r \in Regs, v \in Values :
        /\ dev' = [dev EXCEPT ![r] = v]
        /\ want' = IF r \in UiRegs /\ ~Outstanding(r)
                     THEN [want EXCEPT ![r] = {}] ELSE want
  BY DEF PanelChanges
<1>2. /\ UNCHANGED <<writeQ, pw, late>> /\ dev \in [Regs -> Values]
      /\ want \in [UiRegs -> SUBSET Values] /\ pw \in Write \cup {NoWrite}
  BY DEF PanelChanges, OrderTyped
<1>3. \A q \in UiRegs : want'[q] \subseteq want[q]
  BY <1>1, <1>2
<1>4. ASSUME NEW q \in UiRegs, ~Outstanding(q)' PROVE want'[q] \subseteq {Final(q)'}
  <2>1. ~Outstanding(q)
    BY <1>2, <1>4 DEF Outstanding, Queued
  <2>2. CASE q = r
    BY <1>1, <1>2, <2>1, <2>2
  <2>3. CASE q # r
    <3>1. Final(q)' = Final(q)
      BY <1>1, <1>2, <2>3, RegsTyped DEF Final
    <3>2. want[q] \subseteq {Final(q)}
      BY <2>1 DEF OrderInv, FinalAgrees
    <3> QED
      BY <1>3, <3>1, <3>2
  <2> QED
    BY <2>2, <2>3
<1>5. ASSUME NEW i \in DOMAIN writeQ', LastOf(i)'
      PROVE  want'[writeQ'[i].reg] \subseteq {writeQ'[i].val}
  <2>1. i \in DOMAIN writeQ /\ LastOf(i) /\ writeQ'[i] = writeQ[i]
    BY <1>2, <1>5 DEF LastOf
  <2>2. writeQ[i].reg \in UiRegs
    BY <2>1, QueueElements, WriteFields
  <2> QED
    BY <1>3, <2>1, <2>2 DEF OrderInv, QueueAgrees
<1>6. ASSUME pw' # NoWrite, ~Queued(pw.reg)' PROVE want'[pw'.reg] \subseteq {pw'.val}
  <2>1. pw' = pw /\ pw # NoWrite /\ pw.reg \in UiRegs /\ ~Queued(pw.reg)
    BY <1>2, <1>6, WriteFields DEF Queued
  <2> QED
    BY <1>3, <2>1 DEF OrderInv, HandAgrees
<1> QED
  BY <1>4, <1>5, <1>6 DEF OrderInv, QueueAgrees, HandAgrees, FinalAgrees

LEMMA TailKeepsLast ==
  ASSUME NEW S, NEW s \in Seq(S), s # <<>>, Len(s) # 1
  PROVE  Tail(s) # <<>> /\ Tail(s)[Len(Tail(s))] = s[Len(s)]
<1>1. /\ Tail(s) \in Seq(S) /\ Len(Tail(s)) = Len(s) - 1
      /\ \A i \in 1 .. Len(Tail(s)) : Tail(s)[i] = s[i + 1]
  BY HeadTailProperties
<1>2. Len(s) \in Nat /\ Len(s) # 0
  BY EmptySeq
<1>3. Len(s) - 1 \in 1 .. (Len(s) - 1) /\ (Len(s) - 1) + 1 = Len(s)
  <2>1. \A k \in Nat : k # 0 /\ k # 1 => k - 1 \in 1 .. (k - 1) /\ (k - 1) + 1 = k
    OBVIOUS
  <2> QED
    BY <1>2, <2>1
<1>4. Tail(s)[Len(Tail(s))] = s[Len(s)]
  BY <1>1, <1>3
<1>5. Tail(s) # <<>>
  <2>1. Len(Tail(s)) # 0
    BY <1>1, <1>2, <1>3
  <2> QED
    BY <1>1, <2>1, EmptySeq
<1> QED
  BY <1>4, <1>5

\* The unit committing what waits changes no register's final value.
LEMMA CommitKeepsOrder == OrderTyped /\ OrderInv /\ UnitCommits => OrderInv'
<1> SUFFICES ASSUME OrderTyped, OrderInv, UnitCommits PROVE OrderInv'
  OBVIOUS
<1>1. UNCHANGED <<writeQ, pw, want>>
  BY DEF UnitCommits
<1>2. ASSUME NEW r \in UiRegs PROVE Final(r)' = Final(r)
  <2>1. PICK q \in UiRegs :
          /\ late[q] # <<>>
          /\ dev' = [dev EXCEPT ![q] = Head(late[q])]
          /\ late' = [late EXCEPT ![q] = Tail(late[q])]
    BY DEF UnitCommits
  <2>2. CASE r # q
    BY <2>1, <2>2 DEF Final, OrderTyped
  <2>3. CASE r = q
    <3>1. /\ late[r] \in Seq(Values) /\ late[r] # <<>> /\ late'[r] = Tail(late[r])
          /\ dev'[r] = Head(late[r])
      BY <2>1, <2>3, RegsTyped DEF OrderTyped
    <3>2. CASE Len(late[r]) = 1
      BY <3>1, <3>2 DEF Final
    <3>3. CASE Len(late[r]) # 1
      <4>1. late'[r] # <<>> /\ late'[r][Len(late'[r])] = late[r][Len(late[r])]
        BY <3>1, <3>3, TailKeepsLast
      <4> QED
        BY <3>1, <4>1 DEF Final
    <3> QED
      BY <3>2, <3>3
  <2> QED
    BY <2>2, <2>3
<1>3. FinalAgrees'
  BY <1>1, <1>2 DEF OrderInv, FinalAgrees, Outstanding, Queued
<1>4. QueueAgrees' /\ HandAgrees'
  BY <1>1 DEF OrderInv, QueueAgrees, HandAgrees, LastOf, Queued
<1> QED
  BY <1>3, <1>4 DEF OrderInv

LEMMA NextOrderInv == OrderTyped /\ OrderInv /\ [Next]_vars => OrderInv'
<1> SUFFICES ASSUME OrderTyped, OrderInv, [Next]_vars PROVE OrderInv'
  OBVIOUS
<1>1. CASE UNCHANGED <<writeQ, pw, want, dev, late>>
  BY <1>1 DEF OrderInv, QueueAgrees, HandAgrees, LastOf, Queued, FinalAgrees, Outstanding,
     Final
<1>2. \/ TakeWrite \/ WriteConfirmed \/ WriteUnconfirmed \/ UiQueuesWrite \/ PanelChanges
      \/ UnitCommits
      \/ UNCHANGED <<writeQ, pw, want, dev, late>>
  BY DEF Next, Task, Connects, Writes, Reads, UiCall, UiTick, UiTap, Env, vars,
         TaskWakes, PollReleased, PollOnLink, PollConnects, ConnectFails,
         ConnectSucceeds, WritesDrained, SocAnswers, SocFails, FastReadAnswers, FastReadFails,
         SlowTierStarts, SlowTierSkipped, SlowReadAnswers, SlowReadFails, SlowTierEnds,
         Publish, UiForcesFull, UiWakesTask, UiNotesPending, UiSpinnerLands,
         UiSpinnerTimesOut, UiReleases, UiResumes, ReleaseExpires, LinkLost
<1> QED
  BY <1>1, <1>2, TakeKeepsOrder, ConfirmKeepsOrder, UnconfirmedKeepsOrder,
     QueueingKeepsOrder, PanelKeepsOrder, CommitKeepsOrder

\* Writes take effect in tap order: a register with no write outstanding, and
\* none waiting in the unit, holds the value of the last write the queue accepted
\* for it, however late the unit commits what it took; the exceptions are a last
\* write that went unconfirmed and a unit operated since.
THEOREM OrderCorrect == Spec => []LastWriteWins
<1>1. Init => OrderInv
  BY DEF Init, OrderInv, QueueAgrees, HandAgrees, LastOf, Queued, FinalAgrees
<1>2. OrderInv => LastWriteWins
  BY DEF OrderInv, FinalAgrees, Final, LastWriteWins
<1> QED
  BY <1>1, <1>2, OrderIsTyped, NextOrderInv, TypeCorrect, PTL DEF Spec

=============================================================================
