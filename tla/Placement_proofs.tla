--------------------------- MODULE Placement_proofs ---------------------------
(***************************************************************************)
(* Proofs about Placement, for every set of callers, every bound and every *)
(* combination of faults: types, the uniqueness of placement keys, one     *)
(* running task per generation, no placement undercut by another, and the  *)
(* snapshots and rows that the reaper's stops must leave whole.            *)
(***************************************************************************)
EXTENDS Placement, TLAPS

-----------------------------------------------------------------------------
(* The building blocks. *)

(* A row just inserted and the absent row are rows. *)
LEMMA InsertedType ==
  /\ \A i \in 0..MaxInc, s \in {"stopped", "starting"} :
       /\ Inserted(i, s) \in Row
       /\ Inserted(i, s).inc = i /\ Inserted(i, s).gen = 0
       /\ Inserted(i, s).ref = None /\ Inserted(i, s).live
       /\ Inserted(i, s).snap = None
  /\ NoRow \in Row /\ NoRow.inc = 0 /\ NoRow.gen = 0 /\ NoRow.ref = None
  /\ NoRow.live = FALSE /\ NoRow.snap = None
  BY PlacementAssumption DEF Inserted, NoRow, Row

(* The three kinds of reply are answers. *)
LEMMA AnswerType ==
  /\ NoAnswer \in Answer /\ NoAnswer.ref = None /\ NoAnswer.kind # "ok"
  /\ Error \in Answer /\ Error.ref = None /\ Error.kind # "ok"
  /\ \A r \in Ref \cup {None} : Ok(r) \in Answer /\ Ok(r).ref = r
  BY DEF NoAnswer, Error, Ok, Answer

(* A status write changes the status, the reference and the error only. *)
LEMMA WithStatusFields ==
  ASSUME TypeOK, NEW status \in {"stopped", "starting", "active"},
         NEW ref \in Ref \cup {None}, NEW failed \in BOOLEAN
  PROVE  LET new == WithStatus(status, ref, failed)
         IN  /\ new \in Row
             /\ new.live = row.live /\ new.inc = row.inc
             /\ new.gen = row.gen /\ new.snap = row.snap
             /\ new.ref = ref
<1> DEFINE a == [row EXCEPT !.status = status]
           b == [a EXCEPT !.ref = ref]
           c == [b EXCEPT !.failed = failed]
<1>1. /\ a \in Row /\ a.live = row.live /\ a.inc = row.inc
      /\ a.gen = row.gen /\ a.snap = row.snap
  BY DEF TypeOK, Row
<1> HIDE DEF a
<1>2. /\ b \in Row /\ b.live = a.live /\ b.inc = a.inc /\ b.gen = a.gen
      /\ b.snap = a.snap /\ b.ref = ref
  BY <1>1 DEF Row
<1> HIDE DEF b
<1>3. /\ c \in Row /\ c.live = b.live /\ c.inc = b.inc /\ c.gen = b.gen
      /\ c.snap = b.snap /\ c.ref = b.ref
  BY <1>2 DEF Row
<1>4. WithStatus(status, ref, failed) = c
  BY DEF WithStatus, a, b, c
<1> QED
  BY <1>1, <1>2, <1>3, <1>4

(* So is setWorkspaceStatus, whether or not its statement takes effect. *)
LEMMA SetStatusFields ==
  ASSUME TypeOK, NEW p, NEW status \in {"stopped", "starting", "active"},
         NEW ref \in Ref \cup {None}, NEW failed \in BOOLEAN,
         SetStatus(p, status, ref, failed)
  PROVE  /\ row' \in Row
         /\ row'.live = row.live /\ row'.inc = row.inc
         /\ row'.gen = row.gen /\ row'.snap = row.snap
         /\ row'.ref \in {row.ref, ref}
<1>1. row' = WithStatus(status, ref, failed) \/ row' = row
  BY DEF SetStatus
<1>2. row \in Row
  BY DEF TypeOK
<1> QED
  BY <1>1, <1>2, WithStatusFields

(* Setting the warm hold, or deleting the row, changes one column. *)
LEMMA HoldFields ==
  ASSUME TypeOK, NEW h \in {"none", "running", "expired"},
         row' = [row EXCEPT !.hold = h] \/ row' = row
  PROVE  /\ row' \in Row
         /\ row'.live = row.live /\ row'.inc = row.inc /\ row'.gen = row.gen
         /\ row'.snap = row.snap /\ row'.ref = row.ref
  BY DEF TypeOK, Row

LEMMA DeletedFields ==
  ASSUME TypeOK, row' = [row EXCEPT !.live = FALSE] \/ row' = row
  PROVE  /\ row' \in Row
         /\ row'.live => row.live
         /\ row'.inc = row.inc /\ row'.gen = row.gen
         /\ row'.snap = row.snap /\ row'.ref = row.ref
  BY DEF TypeOK, Row

(* Recording a snapshot changes that column only; the answer it leaves       *)
(* behind is the snapshot it displaced.                                      *)
LEMMA RecordFields ==
  ASSUME TypeOK, NEW p \in Proc, StopRecord(p)
  PROVE  /\ row' \in Row /\ ans' \in [Proc -> Answer] /\ pc' \in [Proc -> Label]
         /\ row'.live = row.live /\ row'.inc = row.inc /\ row'.gen = row.gen
         /\ row'.ref = row.ref
         /\ pc'[p] \in {"reaped", "drop", "collect"}
         /\ \A o \in Proc \ {p} : pc'[o] = pc[o] /\ ans'[o] = ans[o]
         /\ \/ row' = row /\ ans' = ans /\ pc'[p] # "drop"
            \/ /\ p = Reaper /\ row'.snap = ans[p].ref /\ ans[p].ref # None
               /\ ans'[p].ref = Displaced(p)
               /\ pc'[p] = "drop" <=> Displaced(p) # None
<1>1. Displaced(p) \in Ref \cup {None}
  BY DEF Displaced, TypeOK, Row
<1>2. CASE /\ p = Reaper /\ ans[p].ref # None
           /\ row' = [row EXCEPT !.snap = ans[p].ref]
           /\ ans' = [ans EXCEPT ![p] = Ok(Displaced(p))]
           /\ pc' = [pc EXCEPT ![p] =
                       IF Displaced(p) = None THEN "reaped" ELSE "drop"]
  <2>1. ans[p].ref \in Ref \cup {None}
    BY DEF TypeOK, Answer
  <2>2. /\ row' \in Row
        /\ row'.live = row.live /\ row'.inc = row.inc /\ row'.gen = row.gen
        /\ row'.ref = row.ref /\ row'.snap = ans[p].ref
    BY <1>2, <2>1 DEF TypeOK, Row
  <2>3. /\ ans' \in [Proc -> Answer] /\ ans'[p].ref = Displaced(p)
        /\ \A o \in Proc \ {p} : ans'[o] = ans[o]
    BY <1>1, <1>2, AnswerType DEF TypeOK
  <2>4. /\ pc' \in [Proc -> Label]
        /\ pc'[p] = "drop" <=> Displaced(p) # None
        /\ pc'[p] \in {"reaped", "drop"}
        /\ \A o \in Proc \ {p} : pc'[o] = pc[o]
    BY <1>2 DEF TypeOK, Label
  <2> QED
    BY <1>2, <2>2, <2>3, <2>4
<1>3. CASE /\ pc' = [pc EXCEPT ![p] = StopDone(p)]
           /\ UNCHANGED <<row, ans>>
  BY <1>3 DEF TypeOK, StopDone, Label
<1> QED
  BY <1>2, <1>3 DEF StopRecord

(* A process that ends keeps nothing; the others keep everything. *)
LEMMA EndsFields ==
  ASSUME TypeOK, NEW p \in Proc, Ends(p)
  PROVE  /\ pc' \in [Proc -> Label] /\ ws' \in [Proc -> Row]
         /\ gen' \in [Proc -> 0..MaxGen]
         /\ ans' \in [Proc -> Answer] /\ wake' \in [Proc -> BOOLEAN]
         /\ pc'[p] = "idle" /\ ws'[p].inc = 0 /\ ws'[p].ref = None
         /\ ans'[p].kind # "ok"
         /\ \A o \in Proc \ {p} : /\ pc'[o] = pc[o] /\ ws'[o] = ws[o]
                                  /\ gen'[o] = gen[o] /\ ans'[o] = ans[o]
  BY InsertedType, AnswerType, PlacementAssumption DEF Ends, TypeOK, Label

(* notePlacementFailure writes back a reference the process already held. *)
LEMMA FailureFields ==
  ASSUME TypeOK, NEW p \in Proc, NEW dispatched \in Ref \cup {None},
         NotePlacementFailure(p, dispatched)
  PROVE  /\ row' \in Row
         /\ row'.live = row.live /\ row'.inc = row.inc
         /\ row'.gen = row.gen /\ row'.snap = row.snap
         /\ row'.ref \in {row.ref, ws[p].ref, dispatched}
         /\ Ends(p) /\ lock' = None
<1>1. /\ FailureStatus(p, dispatched) \in {"stopped", "starting", "active"}
      /\ FailureRef(p, dispatched) \in Ref \cup {None}
      /\ FailureRef(p, dispatched) \in {ws[p].ref, dispatched}
  BY DEF FailureStatus, FailureRef, TypeOK, Row
<1>2. /\ row' \in Row
      /\ row'.live = row.live /\ row'.inc = row.inc
      /\ row'.gen = row.gen /\ row'.snap = row.snap
      /\ row'.ref \in {row.ref, FailureRef(p, dispatched)}
  BY <1>1, SetStatusFields DEF NotePlacementFailure
<1> QED
  BY <1>1, <1>2 DEF NotePlacementFailure, Return

(* The reaper's last write forgets the reference and keeps the rest. *)
LEMMA ReapedFields ==
  ASSUME TypeOK, Reaped
  PROVE  /\ row' \in Row
         /\ row'.live = row.live /\ row'.inc = row.inc
         /\ row'.gen = row.gen /\ row'.snap = row.snap
         /\ row'.ref \in {row.ref, None}
<1>1. PICK ok1 \in DbOutcome, ok2 \in DbOutcome :
        row' = IF Hit(Reaper)
                 THEN [(IF ok1 THEN WithStatus("stopped", None, FALSE) ELSE row)
                         EXCEPT !.hold = IF ok2 THEN "none" ELSE row.hold]
                 ELSE row
  BY DEF Reaped
<1> DEFINE stopped == IF ok1 THEN WithStatus("stopped", None, FALSE) ELSE row
           cleared == IF ok2 THEN "none" ELSE row.hold
<1>2. /\ stopped \in Row
      /\ stopped.live = row.live /\ stopped.inc = row.inc
      /\ stopped.gen = row.gen /\ stopped.snap = row.snap
      /\ stopped.ref \in {row.ref, None}
  BY WithStatusFields DEF TypeOK
<1>3. cleared \in {"none", "running", "expired"}
  BY DEF TypeOK, Row
<1>4. row' = IF Hit(Reaper) THEN [stopped EXCEPT !.hold = cleared] ELSE row
  BY <1>1
<1> HIDE DEF stopped, cleared
<1> QED
  BY <1>2, <1>3, <1>4 DEF TypeOK, Row

-----------------------------------------------------------------------------
(* The inductive invariant, part by part, each with one step per action. *)

(* Types are preserved, given that a placement about to be sent is real. *)
LEMMA TypeStep == TypeOK /\ CopiesReal /\ [Next]_vars => TypeOK'
<1> SUFFICES ASSUME TypeOK /\ CopiesReal, [Next]_vars PROVE TypeOK'
  OBVIOUS
<1>1. ASSUME NEW p \in Callers, CreateWorkspace(p) PROVE TypeOK'
  BY <1>1, InsertedType, PlacementAssumption DEF CreateWorkspace, TypeOK,
     Proc, Label, Row, DbOutcome, reqVars, taskVars, diskVars, ecsVars
<1>2. ASSUME NEW p \in Callers, ReadWorkspace(p) PROVE TypeOK'
  BY <1>2 DEF ReadWorkspace, TypeOK, Proc, Label, reqVars, taskVars, diskVars, ecsVars
<1>3. ASSUME NEW p \in Callers, PickHit(p) PROVE TypeOK'
  BY <1>3, EndsFields DEF PickHit, TypeOK, Proc, reqVars, taskVars, diskVars, ecsVars
<1>4. ASSUME NEW p \in Callers, PickMiss(p) PROVE TypeOK'
  BY <1>4 DEF PickMiss, TypeOK, Proc, Label, reqVars, taskVars, diskVars, ecsVars
<1>5. ASSUME NEW p \in Callers, GraceHit(p) PROVE TypeOK'
  BY <1>5, EndsFields DEF GraceHit, TypeOK, Proc, Return, reqVars, taskVars,
     diskVars, ecsVars
<1>6. ASSUME NEW p \in Callers, GraceOver(p) PROVE TypeOK'
  BY <1>6 DEF GraceOver, TypeOK, Proc, Label, reqVars, taskVars, diskVars, ecsVars
<1>7. ASSUME NEW p \in Callers, NoRunner(p) PROVE TypeOK'
  BY <1>7, FailureFields, EndsFields DEF NoRunner, TypeOK, Proc, reqVars,
     taskVars, diskVars, ecsVars
<1>8. ASSUME NEW p \in Callers, TakeGeneration(p) PROVE TypeOK'
  BY <1>8 DEF TakeGeneration, TypeOK, Proc, Label, Row, NextGeneration, Hit,
     reqVars, taskVars, diskVars, ecsVars
<1>9. ASSUME NEW p \in Callers, NoGeneration(p) PROVE TypeOK'
  BY <1>9, FailureFields, EndsFields DEF NoGeneration, TypeOK, Proc, reqVars,
     taskVars, diskVars, ecsVars
<1>10. ASSUME NEW p \in Callers, OutOfGenerations(p) PROVE TypeOK'
  BY <1>10, EndsFields DEF OutOfGenerations, TypeOK, Proc, Return, reqVars,
     taskVars, diskVars, ecsVars
<1>11. ASSUME NEW p \in Callers, SendStart(p) PROVE TypeOK'
  <2>1. [inc |-> ws[p].inc, gen |-> gen[p], snap |-> ws[p].snap]
          \in [inc : 1..MaxInc, gen : 1..MaxGen, snap : Ref \cup {None}]
    <3>1. p \in Proc /\ pc[p] \in Sending /\ ws[p] \in Row /\ gen[p] \in 0..MaxGen
      BY <1>11 DEF SendStart, Sending, TypeOK, Proc
    <3>2. ws[p].inc \in 1..MaxInc /\ gen[p] \in 1..MaxGen
      BY <3>1 DEF CopiesReal, Row
    <3> QED
      BY <3>1, <3>2 DEF Row
  <2> QED
    BY <1>11, <2>1, AnswerType
    DEF SendStart, TypeOK, Proc, Label, reqVars, taskVars, diskVars, ecsVars
<1>12. ASSUME NEW p \in Callers, SendFail(p) PROVE TypeOK'
  BY <1>12, FailureFields, EndsFields DEF SendFail, TypeOK, Proc, reqVars,
     taskVars, diskVars, ecsVars
<1>13. ASSUME NEW p \in Callers, Dispatched(p) PROVE TypeOK'
  BY <1>13, SetStatusFields DEF Dispatched, TypeOK, Proc, Label, Answer,
     reqVars, taskVars, diskVars, ecsVars
<1>14. ASSUME NEW p \in Callers, DispatchFail(p) PROVE TypeOK'
  BY <1>14, FailureFields, EndsFields DEF DispatchFail, TypeOK, Proc, reqVars,
     taskVars, diskVars, ecsVars
<1>15. ASSUME NEW p \in Callers, WaitHit(p) PROVE TypeOK'
  BY <1>15, EndsFields, SetStatusFields DEF WaitHit, TypeOK, Proc, Answer,
     Return, reqVars, taskVars, diskVars, ecsVars
<1>16. ASSUME NEW p \in Callers, WaitOver(p) PROVE TypeOK'
  BY <1>16, FailureFields, EndsFields DEF WaitOver, TypeOK, Proc, Answer,
     reqVars, taskVars, diskVars, ecsVars
<1>17. ASSUME NEW p \in Callers, DeleteRead(p) PROVE TypeOK'
  BY <1>17 DEF DeleteRead, TypeOK, Proc, Label, reqVars, taskVars, diskVars, ecsVars
<1>18. ASSUME NEW p \in Callers, DeleteCollect(p) PROVE TypeOK'
  BY <1>18 DEF DeleteCollect, DropSnapshot, TypeOK, Proc, Label, reqVars,
     taskVars, diskVars, ecsVars
<1>19. ASSUME NEW p \in Callers, DeleteRow(p) PROVE TypeOK'
  BY <1>19, EndsFields, DeletedFields DEF DeleteRow, TypeOK, Proc, reqVars,
     taskVars, diskVars, ecsVars
<1>20. ASSUME NEW p \in Proc, StopSkip(p) PROVE TypeOK'
  BY <1>20 DEF StopSkip, TypeOK, StopDone, Proc, Label, reqVars, taskVars,
     diskVars, ecsVars
<1>21. ASSUME NEW p \in Proc, StopSend(p) PROVE TypeOK'
  BY <1>21, AnswerType DEF StopSend, TypeOK, Proc, Label, Row, reqVars,
     taskVars, diskVars, ecsVars
<1>22. ASSUME NEW p \in Proc, StopFail(p) PROVE TypeOK'
  BY <1>22 DEF StopFail, TypeOK, StopDone, Proc, Label, reqVars, taskVars,
     diskVars, ecsVars
<1>23. ASSUME NEW p \in Proc, StopRecord(p) PROVE TypeOK'
  BY <1>23, RecordFields DEF StopRecord, TypeOK, Proc, reqVars, taskVars,
     diskVars, ecsVars
<1>24. ASSUME NEW p \in Proc, DropDisplaced(p) PROVE TypeOK'
  BY <1>24 DEF DropDisplaced, DropSnapshot, TypeOK, StopDone, Proc, Label,
     reqVars, taskVars, diskVars, ecsVars
<1>25. CASE SweepGone
  BY <1>25 DEF SweepGone, TypeOK, procVars, reqVars, taskVars, diskVars, ecsVars
<1>26. CASE SweepRead
  BY <1>26 DEF SweepRead, TypeOK, Proc, Label, reqVars, taskVars, diskVars, ecsVars
<1>27. CASE SweepHold
  BY <1>27, EndsFields, HoldFields DEF SweepHold, SetHold, TypeOK, Proc,
     reqVars, taskVars, diskVars, ecsVars
<1>28. CASE SweepStop
  BY <1>28 DEF SweepStop, TypeOK, Proc, Label, reqVars, taskVars, diskVars, ecsVars
<1>29. CASE Reaped
  BY <1>29, ReapedFields, EndsFields DEF Reaped, TypeOK, Proc, reqVars,
     taskVars, diskVars, ecsVars
<1>30. CASE HoldElapses
  BY <1>30, HoldFields DEF HoldElapses, TypeOK, procVars, reqVars, taskVars,
     diskVars, ecsVars
<1>31. ASSUME NEW q \in startReq, RunnerAdopt(q) PROVE TypeOK'
  BY <1>31, AnswerType DEF RunnerAdopt, AnswerStart, Existing, TypeOK,
     reqVars, taskVars, diskVars, ecsVars
<1>32. ASSUME NEW q \in startReq, RunnerStart(q) PROVE TypeOK'
  BY <1>32, AnswerType DEF RunnerStart, AnswerStart, TypeOK, Ref, reqVars,
     taskVars, diskVars, ecsVars
<1>33. ASSUME NEW q \in startReq, RunnerRefuse(q) PROVE TypeOK'
  BY <1>33, AnswerType DEF RunnerRefuse, AnswerStart, TypeOK, reqVars,
     taskVars, diskVars, ecsVars
<1>34. ASSUME NEW q \in stopReq, RunnerStop(q) PROVE TypeOK'
  BY <1>34 DEF RunnerStop, TypeOK, procVars, reqVars, taskVars, diskVars, ecsVars
<1>35. ASSUME NEW q \in stopReq, RunnerStopRefuse(q) PROVE TypeOK'
  BY <1>35, AnswerType DEF RunnerStopRefuse, AnswerStop, TypeOK, reqVars,
     taskVars, diskVars, ecsVars
<1>36. ASSUME NEW q \in stopReq, RunnerPreserve(q) PROVE TypeOK'
  BY <1>36, AnswerType DEF RunnerPreserve, Preserve, AnswerStop, TypeOK,
     reqVars, taskVars, diskVars, ecsVars
<1>37. ASSUME NEW r \in Ref, Dial(r) PROVE TypeOK'
  BY <1>37 DEF Dial, TypeOK, procVars, reqVars, taskVars, diskVars, ecsVars
<1>38. ASSUME NEW r \in Ref, Unauthorized(r) PROVE TypeOK'
  BY <1>38 DEF Unauthorized, TypeOK, procVars, reqVars, taskVars, diskVars, ecsVars
<1>39. ASSUME NEW r \in Ref, Register(r) PROVE TypeOK'
  BY <1>39 DEF Register, TypeOK, reqVars, taskVars, diskVars, ecsVars
<1>40. ASSUME NEW r \in Ref, TunnelDrops(r) PROVE TypeOK'
  BY <1>40 DEF TunnelDrops, TypeOK, procVars, reqVars, taskVars, diskVars, ecsVars
<1>41. ASSUME NEW r \in Ref, TaskExits(r) PROVE TypeOK'
  BY <1>41 DEF TaskExits, Gone, TypeOK, procVars, reqVars, taskVars, diskVars, ecsVars
<1>42. ASSUME NEW r \in Ref, Headroom(r) PROVE TypeOK'
  BY <1>42 DEF Headroom, TypeOK, procVars, reqVars, taskVars, diskVars, ecsVars
<1>43. CASE ReportStale
  BY <1>43 DEF ReportStale, TypeOK, procVars, reqVars, taskVars, diskVars, ecsVars
<1>44. CASE RunnerLink
  BY <1>44 DEF RunnerLink, TypeOK, procVars, reqVars, taskVars, diskVars, ecsVars
<1>45. CASE Restart
  BY <1>45, InsertedType, AnswerType, PlacementAssumption DEF Restart, TypeOK,
     Label, reqVars, taskVars, diskVars, ecsVars
<1>46. CASE UNCHANGED vars
  BY <1>46 DEF TypeOK, vars, procVars, reqVars, taskVars, diskVars, ecsVars
<1>47. ASSUME NEW q \in startReq, RunnerRepeat(q) PROVE TypeOK'
  BY <1>47, AnswerType DEF RunnerRepeat, Repeats, AnswerStart,
     TypeOK, Ref, reqVars, taskVars, diskVars, ecsVars
<1>48. ASSUME NEW p \in Callers, MarkStarting(p) PROVE TypeOK'
  BY <1>48, SetStatusFields DEF MarkStarting, TypeOK, Proc, Label, Row,
     reqVars, taskVars, diskVars, ecsVars
<1>49. ASSUME NEW r \in Ref, TaskStops(r) PROVE TypeOK'
  BY <1>49 DEF TaskStops, Gone, TypeOK, procVars, reqVars, taskVars,
     diskVars, ecsVars
<1>50. ASSUME NEW r \in Ref, Forget(r) PROVE TypeOK'
  BY <1>50 DEF Forget, TypeOK, procVars, reqVars, taskVars, diskVars
<1> QED
  BY <1>1, <1>2, <1>3, <1>4, <1>5, <1>6, <1>7, <1>8, <1>9, <1>10, <1>11,
     <1>12, <1>13, <1>14, <1>15, <1>16, <1>17, <1>18, <1>19, <1>20, <1>21,
     <1>22, <1>23, <1>24, <1>25, <1>26, <1>27, <1>28, <1>29, <1>30, <1>31,
     <1>32, <1>33, <1>34, <1>35, <1>36, <1>37, <1>38, <1>39, <1>40, <1>41,
     <1>42, <1>43, <1>44, <1>45, <1>46, <1>47,
     <1>48, <1>49, <1>50 DEF Next, Ensure, Delete, StopTask,
     Sweep, Runner, Task

(* A placement that ends gives up the lock, and no other one was past it. *)
LEMMA Unlocks ==
  ASSUME TypeOK, LockHeld, NEW p \in Proc, pc[p] \in Placing, Ends(p)
  PROVE  LockHeld'
<1>1. pc'[p] \notin Placing /\ \A o \in Proc \ {p} : pc'[o] = pc[o]
  BY EndsFields DEF Placing, AwaitingTask
<1>2. \A o \in Proc \ {p} : pc[o] \notin Placing
  BY DEF LockHeld
<1> QED
  BY <1>1, <1>2 DEF LockHeld

(* Only the holder of the lock is past it. *)
LEMMA LockStep == TypeOK /\ LockHeld /\ [Next]_vars => LockHeld'
<1> SUFFICES ASSUME TypeOK /\ LockHeld, [Next]_vars PROVE LockHeld'
  OBVIOUS
<1>1. ASSUME NEW p \in Callers, CreateWorkspace(p) PROVE LockHeld'
  BY <1>1, InsertedType, PlacementAssumption DEF CreateWorkspace, TypeOK,
     LockHeld, Placing, AwaitingTask, Proc, Label, Row, DbOutcome, reqVars, taskVars,
     diskVars
<1>2. ASSUME NEW p \in Callers, ReadWorkspace(p) PROVE LockHeld'
  BY <1>2 DEF ReadWorkspace, TypeOK, LockHeld, Placing, AwaitingTask, Proc,
     Label, reqVars, taskVars, diskVars
<1>3. ASSUME NEW p \in Callers, PickHit(p) PROVE LockHeld'
  BY <1>3, EndsFields DEF PickHit, TypeOK, LockHeld, Placing, AwaitingTask,
     Proc, reqVars, taskVars, diskVars
<1>4. ASSUME NEW p \in Callers, PickMiss(p) PROVE LockHeld'
  BY <1>4, PlacementAssumption
  DEF PickMiss, LockFree, TypeOK, LockHeld, Placing, AwaitingTask, Proc
<1>5. ASSUME NEW p \in Callers, GraceHit(p) PROVE LockHeld'
  BY <1>5, EndsFields DEF GraceHit, TypeOK, LockHeld, Placing, AwaitingTask,
     Proc, Return, reqVars, taskVars, diskVars
<1>6. ASSUME NEW p \in Callers, GraceOver(p) PROVE LockHeld'
  BY <1>6 DEF GraceOver, TypeOK, LockHeld, Placing, AwaitingTask, Proc, Label, reqVars,
     taskVars, diskVars
<1>7. ASSUME NEW p \in Callers, NoRunner(p) PROVE LockHeld'
  BY <1>7, FailureFields, Unlocks DEF NoRunner, Placing, AwaitingTask, Proc
<1>8. ASSUME NEW p \in Callers, TakeGeneration(p) PROVE LockHeld'
  BY <1>8 DEF TakeGeneration, TypeOK, LockHeld, Placing, AwaitingTask, Proc, Label, Row,
     NextGeneration, Hit, reqVars, taskVars, diskVars
<1>9. ASSUME NEW p \in Callers, NoGeneration(p) PROVE LockHeld'
  BY <1>9, FailureFields, Unlocks DEF NoGeneration, Placing, AwaitingTask, Proc
<1>10. ASSUME NEW p \in Callers, OutOfGenerations(p) PROVE LockHeld'
  BY <1>10, EndsFields DEF OutOfGenerations, TypeOK, LockHeld, Placing,
     AwaitingTask, Proc, Return, reqVars, taskVars, diskVars
<1>11. ASSUME NEW p \in Callers, SendStart(p) PROVE LockHeld'
  BY <1>11, SetStatusFields, AnswerType DEF SendStart, TypeOK, LockHeld,
     Placing, AwaitingTask, Proc, Label, Row, reqVars, taskVars, diskVars
<1>12. ASSUME NEW p \in Callers, SendFail(p) PROVE LockHeld'
  BY <1>12, FailureFields, Unlocks DEF SendFail, Placing, AwaitingTask, Proc
<1>13. ASSUME NEW p \in Callers, Dispatched(p) PROVE LockHeld'
  BY <1>13, SetStatusFields DEF Dispatched, TypeOK, LockHeld, Placing,
     AwaitingTask, Proc, Label, Answer, reqVars, taskVars, diskVars
<1>14. ASSUME NEW p \in Callers, DispatchFail(p) PROVE LockHeld'
  BY <1>14, FailureFields, Unlocks DEF DispatchFail, Placing, AwaitingTask, Proc
<1>15. ASSUME NEW p \in Callers, WaitHit(p) PROVE LockHeld'
  BY <1>15, EndsFields DEF WaitHit, Return, LockHeld, Placing, AwaitingTask, Proc
<1>16. ASSUME NEW p \in Callers, WaitOver(p) PROVE LockHeld'
  <2>1. p \in Proc /\ pc[p] \in Placing
    BY <1>16 DEF WaitOver, Placing, AwaitingTask, Proc
  <2>2. ans[p].ref \in Ref \cup {None}
    BY <2>1 DEF TypeOK, Answer
  <2>3. Ends(p)
    BY <1>16, <2>1, <2>2, FailureFields DEF WaitOver
  <2> QED
    BY <2>1, <2>3, Unlocks
<1>17. ASSUME NEW p \in Callers, DeleteRead(p) PROVE LockHeld'
  BY <1>17 DEF DeleteRead, TypeOK, LockHeld, Placing, AwaitingTask, Proc, Label,
     reqVars, taskVars, diskVars
<1>18. ASSUME NEW p \in Callers, DeleteCollect(p) PROVE LockHeld'
  BY <1>18 DEF DeleteCollect, DropSnapshot, TypeOK, LockHeld, Placing,
     AwaitingTask, Proc, Label, reqVars, taskVars, diskVars
<1>19. ASSUME NEW p \in Callers, DeleteRow(p) PROVE LockHeld'
  BY <1>19, EndsFields, DeletedFields DEF DeleteRow, TypeOK, LockHeld,
     Placing, AwaitingTask, Proc, reqVars, taskVars, diskVars
<1>20. ASSUME NEW p \in Proc, StopSkip(p) PROVE LockHeld'
  BY <1>20 DEF StopSkip, TypeOK, LockHeld, Placing, AwaitingTask, StopDone, Proc, Label,
     reqVars, taskVars, diskVars
<1>21. ASSUME NEW p \in Proc, StopSend(p) PROVE LockHeld'
  BY <1>21, AnswerType DEF StopSend, TypeOK, LockHeld, Placing, AwaitingTask,
     Proc, Label, Row, reqVars, taskVars, diskVars
<1>22. ASSUME NEW p \in Proc, StopFail(p) PROVE LockHeld'
  BY <1>22 DEF StopFail, TypeOK, LockHeld, Placing, AwaitingTask, StopDone, Proc, Label,
     reqVars, taskVars, diskVars
<1>23. ASSUME NEW p \in Proc, StopRecord(p) PROVE LockHeld'
  BY <1>23, RecordFields DEF StopRecord, TypeOK, LockHeld, Placing, AwaitingTask, Proc,
     reqVars, taskVars, diskVars
<1>24. ASSUME NEW p \in Proc, DropDisplaced(p) PROVE LockHeld'
  BY <1>24 DEF DropDisplaced, DropSnapshot, TypeOK, LockHeld, Placing, AwaitingTask,
     StopDone, Proc, Label, reqVars, taskVars, diskVars
<1>25. CASE SweepGone
  BY <1>25 DEF SweepGone, TypeOK, LockHeld, Placing, AwaitingTask, procVars, reqVars,
     taskVars, diskVars
<1>26. CASE SweepRead
  BY <1>26 DEF SweepRead, TypeOK, LockHeld, Placing, AwaitingTask, Proc, Label, reqVars,
     taskVars, diskVars
<1>27. CASE SweepHold
  BY <1>27, EndsFields, HoldFields DEF SweepHold, SetHold, TypeOK, LockHeld,
     Placing, AwaitingTask, Proc, reqVars, taskVars, diskVars
<1>28. CASE SweepStop
  BY <1>28 DEF SweepStop, TypeOK, LockHeld, Placing, AwaitingTask, Proc, Label, reqVars,
     taskVars, diskVars
<1>29. CASE Reaped
  BY <1>29, ReapedFields, EndsFields DEF Reaped, TypeOK, LockHeld, Placing,
     AwaitingTask, Proc, reqVars, taskVars, diskVars
<1>30. CASE HoldElapses
  BY <1>30, HoldFields DEF HoldElapses, TypeOK, LockHeld, Placing, AwaitingTask,
     procVars, reqVars, taskVars, diskVars
<1>31. ASSUME NEW q \in startReq, RunnerAdopt(q) PROVE LockHeld'
  BY <1>31, AnswerType DEF RunnerAdopt, AnswerStart, Existing, TypeOK,
     LockHeld, Placing, AwaitingTask, reqVars, taskVars, diskVars
<1>32. ASSUME NEW q \in startReq, RunnerStart(q) PROVE LockHeld'
  BY <1>32, AnswerType DEF RunnerStart, AnswerStart, TypeOK, LockHeld,
     Placing, AwaitingTask, Ref, reqVars, taskVars, diskVars
<1>33. ASSUME NEW q \in startReq, RunnerRefuse(q) PROVE LockHeld'
  BY <1>33, AnswerType DEF RunnerRefuse, AnswerStart, TypeOK, LockHeld,
     Placing, AwaitingTask, reqVars, taskVars, diskVars
<1>34. ASSUME NEW q \in stopReq, RunnerStop(q) PROVE LockHeld'
  BY <1>34 DEF RunnerStop, TypeOK, LockHeld, Placing, AwaitingTask, procVars, reqVars,
     taskVars, diskVars
<1>35. ASSUME NEW q \in stopReq, RunnerStopRefuse(q) PROVE LockHeld'
  BY <1>35, AnswerType DEF RunnerStopRefuse, AnswerStop, TypeOK, LockHeld,
     Placing, AwaitingTask, reqVars, taskVars, diskVars
<1>36. ASSUME NEW q \in stopReq, RunnerPreserve(q) PROVE LockHeld'
  BY <1>36, AnswerType DEF RunnerPreserve, Preserve, AnswerStop, TypeOK,
     LockHeld, Placing, AwaitingTask, reqVars, taskVars, diskVars
<1>37. ASSUME NEW r \in Ref, Dial(r) PROVE LockHeld'
  BY <1>37 DEF Dial, TypeOK, LockHeld, Placing, AwaitingTask, procVars, reqVars,
     taskVars, diskVars
<1>38. ASSUME NEW r \in Ref, Unauthorized(r) PROVE LockHeld'
  BY <1>38 DEF Unauthorized, TypeOK, LockHeld, Placing, AwaitingTask, procVars, reqVars,
     taskVars, diskVars
<1>39. ASSUME NEW r \in Ref, Register(r) PROVE LockHeld'
  BY <1>39 DEF Register, TypeOK, LockHeld, Placing, AwaitingTask, reqVars, taskVars,
     diskVars
<1>40. ASSUME NEW r \in Ref, TunnelDrops(r) PROVE LockHeld'
  BY <1>40 DEF TunnelDrops, TypeOK, LockHeld, Placing, AwaitingTask, procVars, reqVars,
     taskVars, diskVars
<1>41. ASSUME NEW r \in Ref, TaskExits(r) PROVE LockHeld'
  BY <1>41 DEF TaskExits, Gone, TypeOK, LockHeld, Placing, AwaitingTask,
     procVars, reqVars, taskVars, diskVars
<1>42. ASSUME NEW r \in Ref, Headroom(r) PROVE LockHeld'
  BY <1>42 DEF Headroom, TypeOK, LockHeld, Placing, AwaitingTask, procVars, reqVars,
     taskVars, diskVars
<1>43. CASE ReportStale
  BY <1>43 DEF ReportStale, TypeOK, LockHeld, Placing, AwaitingTask, procVars, reqVars,
     taskVars, diskVars
<1>44. CASE RunnerLink
  BY <1>44 DEF RunnerLink, TypeOK, LockHeld, Placing, AwaitingTask, procVars, reqVars,
     taskVars, diskVars
<1>45. CASE Restart
  BY <1>45, InsertedType, AnswerType, PlacementAssumption DEF Restart, TypeOK,
     LockHeld, Placing, AwaitingTask, Label, reqVars, taskVars, diskVars
<1>46. CASE UNCHANGED vars
  BY <1>46 DEF TypeOK, LockHeld, Placing, AwaitingTask, vars, procVars, reqVars,
     taskVars, diskVars
<1>47. ASSUME NEW q \in startReq, RunnerRepeat(q) PROVE LockHeld'
  BY <1>47, AnswerType DEF RunnerRepeat, Repeats, AnswerStart,
     TypeOK, LockHeld, Placing, AwaitingTask, reqVars, taskVars, diskVars
<1>48. ASSUME NEW p \in Callers, MarkStarting(p) PROVE LockHeld'
  BY <1>48, SetStatusFields DEF MarkStarting, LockHeld, Placing, AwaitingTask,
     TypeOK, Proc, Label, Row, reqVars, taskVars, diskVars, ecsVars
<1>49. ASSUME NEW r \in Ref, TaskStops(r) PROVE LockHeld'
  BY <1>49 DEF TaskStops, Gone, LockHeld, Placing, AwaitingTask, TypeOK,
     procVars, reqVars, taskVars, diskVars, ecsVars
<1>50. ASSUME NEW r \in Ref, Forget(r) PROVE LockHeld'
  BY <1>50 DEF Forget, LockHeld, Placing, AwaitingTask, TypeOK, procVars,
     reqVars, taskVars, diskVars
<1> QED
  BY <1>1, <1>2, <1>3, <1>4, <1>5, <1>6, <1>7, <1>8, <1>9, <1>10, <1>11,
     <1>12, <1>13, <1>14, <1>15, <1>16, <1>17, <1>18, <1>19, <1>20, <1>21,
     <1>22, <1>23, <1>24, <1>25, <1>26, <1>27, <1>28, <1>29, <1>30, <1>31,
     <1>32, <1>33, <1>34, <1>35, <1>36, <1>37, <1>38, <1>39, <1>40, <1>41,
     <1>42, <1>43, <1>44, <1>45, <1>46, <1>47,
     <1>48, <1>49, <1>50 DEF Next, Ensure, Delete, StopTask,
     Sweep, Runner, Task

(* References are only ever of started tasks. *)
LEMMA NamedStep == TypeOK /\ NamedTasksStarted /\ [Next]_vars => NamedTasksStarted'
<1> SUFFICES ASSUME TypeOK /\ NamedTasksStarted, [Next]_vars PROVE NamedTasksStarted'
  OBVIOUS
<1>1. ASSUME NEW p \in Callers, CreateWorkspace(p) PROVE NamedTasksStarted'
  BY <1>1, InsertedType, PlacementAssumption DEF CreateWorkspace, TypeOK,
     NamedTasksStarted, Proc, Label, Row, DbOutcome, reqVars, taskVars,
     diskVars, ecsVars
<1>2. ASSUME NEW p \in Callers, ReadWorkspace(p) PROVE NamedTasksStarted'
  BY <1>2 DEF ReadWorkspace, TypeOK, NamedTasksStarted, Proc, Label, reqVars,
     taskVars, diskVars, ecsVars
<1>3. ASSUME NEW p \in Callers, PickHit(p) PROVE NamedTasksStarted'
  BY <1>3, EndsFields DEF PickHit, TypeOK, NamedTasksStarted, Proc, reqVars,
     taskVars, diskVars, ecsVars
<1>4. ASSUME NEW p \in Callers, PickMiss(p) PROVE NamedTasksStarted'
  BY <1>4 DEF PickMiss, TypeOK, NamedTasksStarted, Proc, Label, reqVars,
     taskVars, diskVars, ecsVars
<1>5. ASSUME NEW p \in Callers, GraceHit(p) PROVE NamedTasksStarted'
  BY <1>5, EndsFields DEF GraceHit, TypeOK, NamedTasksStarted, Proc, Return,
     reqVars, taskVars, diskVars, ecsVars
<1>6. ASSUME NEW p \in Callers, GraceOver(p) PROVE NamedTasksStarted'
  BY <1>6 DEF GraceOver, TypeOK, NamedTasksStarted, Proc, Label, reqVars,
     taskVars, diskVars, ecsVars
<1>7. ASSUME NEW p \in Callers, NoRunner(p) PROVE NamedTasksStarted'
  BY <1>7, FailureFields, EndsFields DEF NoRunner, TypeOK, NamedTasksStarted,
     Proc, reqVars, taskVars, diskVars, ecsVars
<1>8. ASSUME NEW p \in Callers, TakeGeneration(p) PROVE NamedTasksStarted'
  BY <1>8 DEF TakeGeneration, TypeOK, NamedTasksStarted, Proc, Label, Row,
     NextGeneration, Hit, reqVars, taskVars, diskVars, ecsVars
<1>9. ASSUME NEW p \in Callers, NoGeneration(p) PROVE NamedTasksStarted'
  BY <1>9, FailureFields, EndsFields DEF NoGeneration, TypeOK,
     NamedTasksStarted, Proc, reqVars, taskVars, diskVars, ecsVars
<1>10. ASSUME NEW p \in Callers, OutOfGenerations(p) PROVE NamedTasksStarted'
  BY <1>10, EndsFields DEF OutOfGenerations, TypeOK, NamedTasksStarted, Proc,
     Return, reqVars, taskVars, diskVars, ecsVars
<1>11. ASSUME NEW p \in Callers, SendStart(p) PROVE NamedTasksStarted'
  <2>1. /\ \A o \in Proc : ws'[o] = ws[o]
        /\ \A o \in Proc \ {p} : pc'[o] = pc[o] /\ ans'[o] = ans[o]
        /\ ans'[p].ref = None
        /\ life' = life /\ stopReq' = stopReq /\ row' = row /\ tokens' = tokens
    BY <1>11, AnswerType DEF SendStart, TypeOK, Proc, taskVars, ecsVars
  <2> QED
    BY <2>1 DEF NamedTasksStarted
<1>12. ASSUME NEW p \in Callers, SendFail(p) PROVE NamedTasksStarted'
  BY <1>12, FailureFields, EndsFields DEF SendFail, TypeOK, NamedTasksStarted,
     Proc, reqVars, taskVars, diskVars, ecsVars
<1>13. ASSUME NEW p \in Callers, Dispatched(p) PROVE NamedTasksStarted'
  <2>1. p \in Proc /\ ans[p].ref \in Ref \cup {None}
    BY DEF TypeOK, Answer, Proc
  <2>2. row'.ref \in {row.ref, ans[p].ref}
    BY <1>13, <2>1, SetStatusFields DEF Dispatched
  <2>3. /\ pc[p] = "dispatch"
        /\ \A o \in Proc \ {p} : pc'[o] = pc[o]
        /\ ans' = ans /\ ws' = ws /\ life' = life /\ stopReq' = stopReq
        /\ tokens' = tokens
    BY <1>13 DEF Dispatched, TypeOK, reqVars, taskVars, ecsVars
  <2> QED
    BY <2>1, <2>2, <2>3 DEF NamedTasksStarted
<1>14. ASSUME NEW p \in Callers, DispatchFail(p) PROVE NamedTasksStarted'
  BY <1>14, FailureFields, EndsFields DEF DispatchFail, TypeOK,
     NamedTasksStarted, Proc, reqVars, taskVars, diskVars, ecsVars
<1>15. ASSUME NEW p \in Callers, WaitHit(p) PROVE NamedTasksStarted'
  <2>1. p \in Proc /\ ans[p].ref \in Ref \cup {None}
    BY DEF TypeOK, Answer, Proc
  <2>2. row'.ref \in {row.ref, ans[p].ref}
    BY <1>15, <2>1, SetStatusFields DEF WaitHit
  <2>3. /\ pc[p] = "wait" /\ Ends(p) /\ life' = life /\ stopReq' = stopReq
        /\ tokens' = tokens
    BY <1>15 DEF WaitHit, Return, reqVars, taskVars, ecsVars
  <2> QED
    BY <2>1, <2>2, <2>3, EndsFields DEF NamedTasksStarted
<1>16. ASSUME NEW p \in Callers, WaitOver(p) PROVE NamedTasksStarted'
  <2>1. p \in Proc /\ ans[p].ref \in Ref \cup {None}
    BY DEF TypeOK, Answer, Proc
  <2>2. row'.ref \in {row.ref, ws[p].ref, ans[p].ref} /\ Ends(p)
    BY <1>16, <2>1, FailureFields DEF WaitOver
  <2>3. pc[p] = "wait" /\ life' = life /\ stopReq' = stopReq /\ tokens' = tokens
    BY <1>16 DEF WaitOver, reqVars, taskVars, ecsVars
  <2> QED
    BY <2>1, <2>2, <2>3, EndsFields DEF NamedTasksStarted
<1>17. ASSUME NEW p \in Callers, DeleteRead(p) PROVE NamedTasksStarted'
  BY <1>17 DEF DeleteRead, TypeOK, NamedTasksStarted, Proc, Label, reqVars,
     taskVars, diskVars, ecsVars
<1>18. ASSUME NEW p \in Callers, DeleteCollect(p) PROVE NamedTasksStarted'
  BY <1>18 DEF DeleteCollect, DropSnapshot, TypeOK, NamedTasksStarted, Proc,
     Label, reqVars, taskVars, diskVars, ecsVars
<1>19. ASSUME NEW p \in Callers, DeleteRow(p) PROVE NamedTasksStarted'
  BY <1>19, EndsFields, DeletedFields DEF DeleteRow, TypeOK,
     NamedTasksStarted, Proc, reqVars, taskVars, diskVars, ecsVars
<1>20. ASSUME NEW p \in Proc, StopSkip(p) PROVE NamedTasksStarted'
  BY <1>20 DEF StopSkip, TypeOK, NamedTasksStarted, StopDone, Proc, Label,
     reqVars, taskVars, diskVars, ecsVars
<1>21. ASSUME NEW p \in Proc, StopSend(p) PROVE NamedTasksStarted'
  BY <1>21, AnswerType DEF StopSend, TypeOK, NamedTasksStarted, Proc, Label,
     Row, reqVars, taskVars, diskVars, ecsVars
<1>22. ASSUME NEW p \in Proc, StopFail(p) PROVE NamedTasksStarted'
  BY <1>22 DEF StopFail, TypeOK, NamedTasksStarted, StopDone, Proc, Label,
     reqVars, taskVars, diskVars, ecsVars
<1>23. ASSUME NEW p \in Proc, StopRecord(p) PROVE NamedTasksStarted'
  <2>1. /\ row'.ref = row.ref
        /\ pc'[p] \in {"reaped", "drop", "collect"}
        /\ \A o \in Proc \ {p} : pc'[o] = pc[o] /\ ans'[o] = ans[o]
    BY <1>23, RecordFields
  <2>2. ws' = ws /\ life' = life /\ stopReq' = stopReq /\ tokens' = tokens
    BY <1>23 DEF StopRecord, reqVars, taskVars, ecsVars
  <2> QED
    BY <2>1, <2>2 DEF NamedTasksStarted
<1>24. ASSUME NEW p \in Proc, DropDisplaced(p) PROVE NamedTasksStarted'
  BY <1>24 DEF DropDisplaced, DropSnapshot, TypeOK, NamedTasksStarted,
     StopDone, Proc, Label, reqVars, taskVars, diskVars, ecsVars
<1>25. CASE SweepGone
  BY <1>25 DEF SweepGone, TypeOK, NamedTasksStarted, procVars, reqVars,
     taskVars, diskVars, ecsVars
<1>26. CASE SweepRead
  BY <1>26 DEF SweepRead, TypeOK, NamedTasksStarted, Proc, Label, reqVars,
     taskVars, diskVars, ecsVars
<1>27. CASE SweepHold
  BY <1>27, EndsFields, HoldFields DEF SweepHold, SetHold, TypeOK,
     NamedTasksStarted, Proc, reqVars, taskVars, diskVars, ecsVars
<1>28. CASE SweepStop
  BY <1>28 DEF SweepStop, TypeOK, NamedTasksStarted, Proc, Label, reqVars,
     taskVars, diskVars, ecsVars
<1>29. CASE Reaped
  <2>1. row'.ref \in {row.ref, None}
    BY <1>29, ReapedFields
  <2>2. /\ Reaper \in Proc /\ Ends(Reaper) /\ life' = life /\ stopReq' = stopReq
        /\ tokens' = tokens
    BY <1>29 DEF Reaped, Proc, reqVars, taskVars, ecsVars
  <2> QED
    BY <2>1, <2>2, EndsFields DEF NamedTasksStarted
<1>30. CASE HoldElapses
  BY <1>30, HoldFields DEF HoldElapses, TypeOK, NamedTasksStarted, procVars,
     reqVars, taskVars, diskVars, ecsVars
<1>31. ASSUME NEW q \in startReq, RunnerAdopt(q) PROVE NamedTasksStarted'
  BY <1>31, AnswerType DEF RunnerAdopt, AnswerStart, Existing, TypeOK,
     NamedTasksStarted, reqVars, taskVars, diskVars, ecsVars
<1>32. ASSUME NEW q \in startReq, RunnerStart(q) PROVE NamedTasksStarted'
  <2> DEFINE new == [inc |-> q.inc, gen |-> q.gen]
  <2>1. new \in Ref
    BY DEF TypeOK, Ref
  <2>2. \A r \in Ref : life[r] # "none" \/ r = new => life'[r] # "none"
    BY <1>32, <2>1 DEF RunnerStart, TypeOK
  <2>3. \A p \in Proc : ans'[p].ref \in {ans[p].ref, new}
    BY <1>32, <2>1, AnswerType DEF RunnerStart, AnswerStart
  <2>4. /\ row' = row /\ ws' = ws /\ pc' = pc /\ stopReq' = stopReq
        /\ tokens' = tokens \cup {new} /\ tokens \subseteq Ref
    BY <1>32 DEF RunnerStart, TypeOK
  <2>5. /\ row.ref \in Ref \cup {None}
        /\ \A p \in Proc : ws[p].ref \in Ref \cup {None}
        /\ \A p \in Proc : ans[p].ref \in Ref \cup {None}
        /\ \A s \in stopReq : s.ref \in Ref
    BY DEF TypeOK, Row, Answer
  <2> HIDE DEF new
  <2> QED
    BY <2>1, <2>2, <2>3, <2>4, <2>5 DEF NamedTasksStarted
<1>33. ASSUME NEW q \in startReq, RunnerRefuse(q) PROVE NamedTasksStarted'
  BY <1>33, AnswerType DEF RunnerRefuse, AnswerStart, TypeOK,
     NamedTasksStarted, reqVars, taskVars, diskVars, ecsVars
<1>34. ASSUME NEW q \in stopReq, RunnerStop(q) PROVE NamedTasksStarted'
  BY <1>34 DEF RunnerStop, TypeOK, NamedTasksStarted, procVars, reqVars,
     taskVars, diskVars, ecsVars
<1>35. ASSUME NEW q \in stopReq, RunnerStopRefuse(q) PROVE NamedTasksStarted'
  BY <1>35, AnswerType DEF RunnerStopRefuse, AnswerStop, TypeOK,
     NamedTasksStarted, reqVars, taskVars, diskVars, ecsVars
<1>36. ASSUME NEW q \in stopReq, RunnerPreserve(q) PROVE NamedTasksStarted'
  BY <1>36, AnswerType DEF RunnerPreserve, Preserve, AnswerStop, TypeOK,
     NamedTasksStarted, reqVars, taskVars, diskVars, ecsVars
<1>37. ASSUME NEW r \in Ref, Dial(r) PROVE NamedTasksStarted'
  BY <1>37 DEF Dial, TypeOK, NamedTasksStarted, procVars, reqVars, taskVars,
     diskVars, ecsVars
<1>38. ASSUME NEW r \in Ref, Unauthorized(r) PROVE NamedTasksStarted'
  BY <1>38 DEF Unauthorized, TypeOK, NamedTasksStarted, procVars, reqVars,
     taskVars, diskVars, ecsVars
<1>39. ASSUME NEW r \in Ref, Register(r) PROVE NamedTasksStarted'
  BY <1>39 DEF Register, TypeOK, NamedTasksStarted, reqVars, taskVars,
     diskVars, ecsVars
<1>40. ASSUME NEW r \in Ref, TunnelDrops(r) PROVE NamedTasksStarted'
  BY <1>40 DEF TunnelDrops, TypeOK, NamedTasksStarted, procVars, reqVars,
     taskVars, diskVars, ecsVars
<1>41. ASSUME NEW r \in Ref, TaskExits(r) PROVE NamedTasksStarted'
  BY <1>41 DEF TaskExits, Gone, TypeOK, NamedTasksStarted, procVars, reqVars,
     taskVars, diskVars, ecsVars
<1>42. ASSUME NEW r \in Ref, Headroom(r) PROVE NamedTasksStarted'
  BY <1>42 DEF Headroom, TypeOK, NamedTasksStarted, procVars, reqVars,
     taskVars, diskVars, ecsVars
<1>43. CASE ReportStale
  BY <1>43 DEF ReportStale, TypeOK, NamedTasksStarted, procVars, reqVars,
     taskVars, diskVars, ecsVars
<1>44. CASE RunnerLink
  BY <1>44 DEF RunnerLink, TypeOK, NamedTasksStarted, procVars, reqVars,
     taskVars, diskVars, ecsVars
<1>45. CASE Restart
  BY <1>45, InsertedType, AnswerType, PlacementAssumption DEF Restart, TypeOK,
     NamedTasksStarted, Label, reqVars, taskVars, diskVars, ecsVars
<1>46. CASE UNCHANGED vars
  BY <1>46 DEF TypeOK, NamedTasksStarted, vars, procVars, reqVars, taskVars,
     diskVars, ecsVars
<1>47. ASSUME NEW q \in startReq, RunnerRepeat(q) PROVE NamedTasksStarted'
  BY <1>47, AnswerType DEF RunnerRepeat, Repeats, AnswerStart,
     TypeOK, NamedTasksStarted, reqVars, taskVars, diskVars, ecsVars
<1>48. ASSUME NEW p \in Callers, MarkStarting(p) PROVE NamedTasksStarted'
  <2>1. row'.ref \in {row.ref, None}
    BY <1>48, SetStatusFields DEF MarkStarting
  <2>2. /\ pc'[p] = "command" /\ \A o \in Proc \ {p} : pc'[o] = pc[o]
        /\ ans' = ans /\ ws' = ws /\ life' = life /\ stopReq' = stopReq
        /\ tokens' = tokens
    BY <1>48 DEF MarkStarting, TypeOK, Proc, reqVars, taskVars, ecsVars
  <2> QED
    BY <2>1, <2>2 DEF NamedTasksStarted
<1>49. ASSUME NEW r \in Ref, TaskStops(r) PROVE NamedTasksStarted'
  BY <1>49 DEF TaskStops, Gone, NamedTasksStarted, TypeOK, procVars, reqVars, taskVars,
     diskVars, ecsVars
<1>50. ASSUME NEW r \in Ref, Forget(r) PROVE NamedTasksStarted'
  BY <1>50 DEF Forget, NamedTasksStarted, TypeOK, procVars, reqVars, taskVars, diskVars
<1> QED
  BY <1>1, <1>2, <1>3, <1>4, <1>5, <1>6, <1>7, <1>8, <1>9, <1>10, <1>11,
     <1>12, <1>13, <1>14, <1>15, <1>16, <1>17, <1>18, <1>19, <1>20, <1>21,
     <1>22, <1>23, <1>24, <1>25, <1>26, <1>27, <1>28, <1>29, <1>30, <1>31,
     <1>32, <1>33, <1>34, <1>35, <1>36, <1>37, <1>38, <1>39, <1>40, <1>41,
     <1>42, <1>43, <1>44, <1>45, <1>46, <1>47,
     <1>48, <1>49, <1>50 DEF Next, Ensure, Delete, StopTask,
     Sweep, Runner, Task

(* A step that takes no generation, sends no placement and starts no task.   *)
Quiet ==
  /\ \/ row'.inc = row.inc /\ row'.gen = row.gen /\ (row'.live => row.live)
     \/ row'.inc = row.inc + 1
  /\ \A p \in Proc : /\ ws'[p].inc \in {ws[p].inc, 0, row'.inc}
                     /\ pc'[p] \in Sending => /\ pc[p] \in Sending
                                              /\ ws'[p] = ws[p]
                                              /\ gen'[p] = gen[p]
  /\ startReq' \subseteq startReq
  /\ tokens' \subseteq tokens /\ blind' = blind
  /\ \A r \in Ref : life'[r] = "none" <=> life[r] = "none"
  /\ \A r \in Ref : life'[r] = "running" => life[r] = "running"
  /\ \A p \in Proc :
       pc[p] = "dispatch" /\ ans'[p] # ans[p] /\ ans'[p].kind = "ok"
         => \/ life'[ans'[p].ref] = "running"
            \/ \E q \in startReq : RunnerRepeat(q)

Loud == \/ \E p \in Callers : TakeGeneration(p) \/ SendStart(p)
        \/ \E q \in startReq : RunnerStart(q)

(* Every other step is quiet. *)
LEMMA QuietStep == TypeOK /\ NamedTasksStarted /\ [Next]_vars => Quiet \/ Loud
<1> SUFFICES ASSUME TypeOK /\ NamedTasksStarted, [Next]_vars PROVE Quiet \/ Loud
  OBVIOUS
<1>1. ASSUME NEW p \in Callers, CreateWorkspace(p) PROVE Quiet \/ Loud
  BY <1>1, InsertedType, PlacementAssumption DEF CreateWorkspace, TypeOK,
     Quiet, Sending, Proc, Label, Row, DbOutcome, reqVars, taskVars, diskVars, ecsVars
<1>2. ASSUME NEW p \in Callers, ReadWorkspace(p) PROVE Quiet \/ Loud
  BY <1>2 DEF ReadWorkspace, TypeOK, Quiet, Sending, Proc, Label, reqVars, taskVars,
     diskVars, ecsVars
<1>3. ASSUME NEW p \in Callers, PickHit(p) PROVE Quiet \/ Loud
  BY <1>3, EndsFields DEF PickHit, TypeOK, Quiet, Sending, Proc, reqVars, taskVars,
     diskVars, ecsVars
<1>4. ASSUME NEW p \in Callers, PickMiss(p) PROVE Quiet \/ Loud
  BY <1>4 DEF PickMiss, TypeOK, Quiet, Sending, Proc, Label, reqVars, taskVars,
     diskVars, ecsVars
<1>5. ASSUME NEW p \in Callers, GraceHit(p) PROVE Quiet \/ Loud
  BY <1>5, EndsFields DEF GraceHit, TypeOK, Quiet, Sending, Proc, Return, reqVars,
     taskVars, diskVars, ecsVars
<1>6. ASSUME NEW p \in Callers, GraceOver(p) PROVE Quiet \/ Loud
  BY <1>6 DEF GraceOver, TypeOK, Quiet, Sending, Proc, Label, reqVars, taskVars,
     diskVars, ecsVars
<1>7. ASSUME NEW p \in Callers, NoRunner(p) PROVE Quiet \/ Loud
  BY <1>7, FailureFields, EndsFields DEF NoRunner, TypeOK, Quiet, Sending, Proc,
     reqVars, taskVars, diskVars, ecsVars
<1>8. ASSUME NEW p \in Callers, TakeGeneration(p) PROVE Quiet \/ Loud
  BY <1>8 DEF Loud
<1>9. ASSUME NEW p \in Callers, NoGeneration(p) PROVE Quiet \/ Loud
  BY <1>9, FailureFields, EndsFields DEF NoGeneration, TypeOK, Quiet, Sending, Proc,
     reqVars, taskVars, diskVars, ecsVars
<1>10. ASSUME NEW p \in Callers, OutOfGenerations(p) PROVE Quiet \/ Loud
  BY <1>10, EndsFields DEF OutOfGenerations, TypeOK, Quiet, Sending, Proc, Return,
     reqVars, taskVars, diskVars, ecsVars
<1>11. ASSUME NEW p \in Callers, SendStart(p) PROVE Quiet \/ Loud
  BY <1>11 DEF Loud
<1>12. ASSUME NEW p \in Callers, SendFail(p) PROVE Quiet \/ Loud
  BY <1>12, FailureFields, EndsFields DEF SendFail, TypeOK, Quiet, Sending, Proc,
     reqVars, taskVars, diskVars, ecsVars
<1>13. ASSUME NEW p \in Callers, Dispatched(p) PROVE Quiet \/ Loud
  BY <1>13, SetStatusFields DEF Dispatched, TypeOK, Quiet, Sending, Proc, Label,
     Answer, reqVars, taskVars, diskVars, ecsVars
<1>14. ASSUME NEW p \in Callers, DispatchFail(p) PROVE Quiet \/ Loud
  BY <1>14, FailureFields, EndsFields DEF DispatchFail, TypeOK, Quiet, Sending, Proc,
     reqVars, taskVars, diskVars, ecsVars
<1>15. ASSUME NEW p \in Callers, WaitHit(p) PROVE Quiet \/ Loud
  BY <1>15, EndsFields, SetStatusFields DEF WaitHit, TypeOK, Quiet, Sending, Proc,
     Answer, Return, reqVars, taskVars, diskVars, ecsVars
<1>16. ASSUME NEW p \in Callers, WaitOver(p) PROVE Quiet \/ Loud
  BY <1>16, FailureFields, EndsFields DEF WaitOver, TypeOK, Quiet, Sending, Proc,
     Answer, reqVars, taskVars, diskVars, ecsVars
<1>17. ASSUME NEW p \in Callers, DeleteRead(p) PROVE Quiet \/ Loud
  BY <1>17 DEF DeleteRead, TypeOK, Quiet, Sending, Proc, Label, reqVars, taskVars,
     diskVars, ecsVars
<1>18. ASSUME NEW p \in Callers, DeleteCollect(p) PROVE Quiet \/ Loud
  BY <1>18 DEF DeleteCollect, DropSnapshot, TypeOK, Quiet, Sending, Proc, Label,
     reqVars, taskVars, diskVars, ecsVars
<1>19. ASSUME NEW p \in Callers, DeleteRow(p) PROVE Quiet \/ Loud
  BY <1>19, EndsFields, DeletedFields DEF DeleteRow, TypeOK, Quiet, Sending, Proc,
     reqVars, taskVars, diskVars, ecsVars
<1>20. ASSUME NEW p \in Proc, StopSkip(p) PROVE Quiet \/ Loud
  BY <1>20 DEF StopSkip, TypeOK, Quiet, Sending, StopDone, Proc, Label, reqVars,
     taskVars, diskVars, ecsVars
<1>21. ASSUME NEW p \in Proc, StopSend(p) PROVE Quiet \/ Loud
  BY <1>21, AnswerType DEF StopSend, TypeOK, Quiet, Sending, Proc, Label, Row, reqVars,
     taskVars, diskVars, ecsVars
<1>22. ASSUME NEW p \in Proc, StopFail(p) PROVE Quiet \/ Loud
  BY <1>22 DEF StopFail, TypeOK, Quiet, Sending, StopDone, Proc, Label, reqVars,
     taskVars, diskVars, ecsVars
<1>23. ASSUME NEW p \in Proc, StopRecord(p) PROVE Quiet \/ Loud
  BY <1>23, RecordFields DEF StopRecord, TypeOK, Quiet, Sending, Proc, reqVars,
     taskVars, diskVars, ecsVars
<1>24. ASSUME NEW p \in Proc, DropDisplaced(p) PROVE Quiet \/ Loud
  BY <1>24 DEF DropDisplaced, DropSnapshot, TypeOK, Quiet, Sending, StopDone, Proc,
     Label, reqVars, taskVars, diskVars, ecsVars
<1>25. CASE SweepGone
  BY <1>25 DEF SweepGone, TypeOK, Quiet, Sending, procVars, reqVars, taskVars,
     diskVars, ecsVars
<1>26. CASE SweepRead
  BY <1>26 DEF SweepRead, TypeOK, Quiet, Sending, Proc, Label, reqVars, taskVars,
     diskVars, ecsVars
<1>27. CASE SweepHold
  BY <1>27, EndsFields, HoldFields DEF SweepHold, SetHold, TypeOK, Quiet, Sending,
     Proc, reqVars, taskVars, diskVars, ecsVars
<1>28. CASE SweepStop
  BY <1>28 DEF SweepStop, TypeOK, Quiet, Sending, Proc, Label, reqVars, taskVars,
     diskVars, ecsVars
<1>29. CASE Reaped
  BY <1>29, ReapedFields, EndsFields DEF Reaped, TypeOK, Quiet, Sending, Proc, reqVars,
     taskVars, diskVars, ecsVars
<1>30. CASE HoldElapses
  BY <1>30, HoldFields DEF HoldElapses, TypeOK, Quiet, Sending, procVars, reqVars,
     taskVars, diskVars, ecsVars
<1>31. ASSUME NEW q \in startReq, RunnerAdopt(q) PROVE Quiet \/ Loud
  BY <1>31, AnswerType DEF RunnerAdopt, AnswerStart, Existing, TypeOK, Quiet, Sending,
     reqVars, taskVars, diskVars, ecsVars
<1>32. ASSUME NEW q \in startReq, RunnerStart(q) PROVE Quiet \/ Loud
  BY <1>32 DEF Loud
<1>33. ASSUME NEW q \in startReq, RunnerRefuse(q) PROVE Quiet \/ Loud
  BY <1>33, AnswerType DEF RunnerRefuse, AnswerStart, TypeOK, Quiet, Sending, reqVars,
     taskVars, diskVars, ecsVars
<1>34. ASSUME NEW q \in stopReq, RunnerStop(q) PROVE Quiet \/ Loud
  BY <1>34 DEF RunnerStop, TypeOK, NamedTasksStarted, Quiet, Sending, procVars,
     reqVars, taskVars, diskVars, ecsVars
<1>35. ASSUME NEW q \in stopReq, RunnerStopRefuse(q) PROVE Quiet \/ Loud
  BY <1>35, AnswerType DEF RunnerStopRefuse, AnswerStop, TypeOK, Quiet, Sending,
     reqVars, taskVars, diskVars, ecsVars
<1>36. ASSUME NEW q \in stopReq, RunnerPreserve(q) PROVE Quiet \/ Loud
  BY <1>36, AnswerType DEF RunnerPreserve, Preserve, AnswerStop, TypeOK,
     Quiet, Sending, reqVars, taskVars, diskVars, ecsVars
<1>37. ASSUME NEW r \in Ref, Dial(r) PROVE Quiet \/ Loud
  BY <1>37 DEF Dial, TypeOK, Quiet, Sending, procVars, reqVars, taskVars,
     diskVars, ecsVars
<1>38. ASSUME NEW r \in Ref, Unauthorized(r) PROVE Quiet \/ Loud
  BY <1>38 DEF Unauthorized, Alive, TypeOK, Quiet, Sending, procVars, reqVars,
     taskVars, diskVars, ecsVars
<1>39. ASSUME NEW r \in Ref, Register(r) PROVE Quiet \/ Loud
  BY <1>39 DEF Register, TypeOK, Quiet, Sending, reqVars, taskVars, diskVars, ecsVars
<1>40. ASSUME NEW r \in Ref, TunnelDrops(r) PROVE Quiet \/ Loud
  BY <1>40 DEF TunnelDrops, TypeOK, Quiet, Sending, procVars, reqVars, taskVars,
     diskVars, ecsVars
<1>41. ASSUME NEW r \in Ref, TaskExits(r) PROVE Quiet \/ Loud
  BY <1>41 DEF TaskExits, Gone, TypeOK, Quiet, Sending, procVars, reqVars,
     taskVars, diskVars, ecsVars
<1>42. ASSUME NEW r \in Ref, Headroom(r) PROVE Quiet \/ Loud
  BY <1>42 DEF Headroom, TypeOK, Quiet, Sending, procVars, reqVars, taskVars,
     diskVars, ecsVars
<1>43. CASE ReportStale
  BY <1>43 DEF ReportStale, TypeOK, Quiet, Sending, procVars, reqVars, taskVars,
     diskVars, ecsVars
<1>44. CASE RunnerLink
  BY <1>44 DEF RunnerLink, TypeOK, Quiet, Sending, procVars, reqVars, taskVars,
     diskVars, ecsVars
<1>45. CASE Restart
  BY <1>45, InsertedType, AnswerType, PlacementAssumption DEF Restart, TypeOK,
     Quiet, Sending, Label, reqVars, taskVars, diskVars, ecsVars
<1>46. CASE UNCHANGED vars
  BY <1>46 DEF TypeOK, Quiet, Sending, vars, procVars, reqVars, taskVars,
     diskVars, ecsVars
<1>47. ASSUME NEW q \in startReq, RunnerRepeat(q) PROVE Quiet \/ Loud
  BY <1>47, AnswerType DEF RunnerRepeat, Repeats, AnswerStart,
     TypeOK, Quiet, Sending, reqVars, taskVars, diskVars, ecsVars
<1>48. ASSUME NEW p \in Callers, MarkStarting(p) PROVE Quiet \/ Loud
  BY <1>48, SetStatusFields DEF MarkStarting, Quiet, Sending, TypeOK, Proc, Label, Row,
     reqVars, taskVars, diskVars, ecsVars
<1>49. ASSUME NEW r \in Ref, TaskStops(r) PROVE Quiet \/ Loud
  BY <1>49 DEF TaskStops, Gone, Quiet, Sending, TypeOK, procVars, reqVars, taskVars,
     diskVars, ecsVars
<1>50. ASSUME NEW r \in Ref, Forget(r) PROVE Quiet \/ Loud
  BY <1>50 DEF Forget, Quiet, Sending, TypeOK, procVars, reqVars, taskVars, diskVars
<1> QED
  BY <1>1, <1>2, <1>3, <1>4, <1>5, <1>6, <1>7, <1>8, <1>9, <1>10, <1>11,
     <1>12, <1>13, <1>14, <1>15, <1>16, <1>17, <1>18, <1>19, <1>20, <1>21,
     <1>22, <1>23, <1>24, <1>25, <1>26, <1>27, <1>28, <1>29, <1>30, <1>31,
     <1>32, <1>33, <1>34, <1>35, <1>36, <1>37, <1>38, <1>39, <1>40, <1>41,
     <1>42, <1>43, <1>44, <1>45, <1>46, <1>47,
     <1>48, <1>49, <1>50 DEF Next, Ensure, Delete, StopTask,
     Sweep, Runner, Task

(* The numbers a key is made of. *)
LEMMA KeyNumbers ==
  ASSUME TypeOK
  PROVE  /\ row.inc \in Nat /\ row.gen \in Nat
         /\ \A p \in Proc : ws[p].inc \in Nat /\ gen[p] \in Nat
         /\ \A q \in startReq : /\ q.inc \in Nat /\ q.gen \in Nat
                                /\ [inc |-> q.inc, gen |-> q.gen] \in Ref
         /\ \A r \in Ref : r.inc \in Nat /\ r.gen \in Nat
  BY PlacementAssumption DEF TypeOK, Row, Ref

(* A quiet step hands out no key and uses none. *)
LEMMA QuietKeys ==
  ASSUME TypeOK, TypeOK', CopiesReal, KeysHandedOut, FreshKey, Quiet
  PROVE  CopiesReal' /\ KeysHandedOut' /\ FreshKey'
<1> DEFINE After(i, g) == i < row'.inc \/ (i = row'.inc /\ g <= row'.gen)
<1>1. /\ row.inc \in Nat /\ row.gen \in Nat /\ row'.inc \in Nat /\ row'.gen \in Nat
      /\ \A p \in Proc : ws[p].inc \in Nat /\ gen[p] \in Nat
      /\ \A p \in Proc : ws'[p].inc \in Nat /\ gen'[p] \in Nat
  BY KeyNumbers, PlacementAssumption DEF TypeOK, Row
<1>2. CopiesReal'
  BY <1>1 DEF CopiesReal, Quiet
<1>3. \A i, g \in Nat : HandedOut(i, g) => After(i, g)
  BY <1>1 DEF HandedOut, Quiet
<1>4. /\ \A r \in Ref : life'[r] # "none" => After(r.inc, r.gen)
      /\ \A q \in startReq' : After(q.inc, q.gen)
  <2> HIDE DEF After
  <2> QED
    BY <1>3, KeyNumbers DEF KeysHandedOut, Quiet
<1>5. \A p \in Proc : pc'[p] \in Sending =>
        /\ pc[p] \in Sending /\ ws'[p] = ws[p] /\ gen'[p] = gen[p]
        /\ [inc |-> ws[p].inc, gen |-> gen[p]] \in Ref
  BY PlacementAssumption DEF Quiet, CopiesReal, TypeOK, Row, Ref
<1>6. ASSUME NEW p \in Proc, pc'[p] \in Sending
      PROVE  /\ After(ws'[p].inc, gen'[p])
             /\ life'[[inc |-> ws'[p].inc, gen |-> gen'[p]]] = "none"
             /\ \A q \in startReq' : ~(q.inc = ws'[p].inc /\ q.gen = gen'[p])
  <2>1. /\ pc[p] \in Sending /\ ws'[p] = ws[p] /\ gen'[p] = gen[p]
        /\ [inc |-> ws[p].inc, gen |-> gen[p]] \in Ref
    BY <1>5, <1>6
  <2>2. /\ HandedOut(ws[p].inc, gen[p])
        /\ life[[inc |-> ws[p].inc, gen |-> gen[p]]] = "none"
        /\ \A q \in startReq : ~(q.inc = ws[p].inc /\ q.gen = gen[p])
    BY <2>1 DEF KeysHandedOut
  <2> HIDE DEF After
  <2>3. After(ws[p].inc, gen[p])
    BY <1>1, <1>3, <2>2
  <2>4. life'[[inc |-> ws[p].inc, gen |-> gen[p]]] = "none"
    BY <2>1, <2>2 DEF Quiet
  <2>5. \A q \in startReq' : ~(q.inc = ws[p].inc /\ q.gen = gen[p])
    BY <2>2 DEF Quiet
  <2> QED
    BY <2>1, <2>3, <2>4, <2>5
<1>7. KeysHandedOut'
  BY <1>4, <1>6 DEF KeysHandedOut, HandedOut
<1>8. FreshKey'
  <2> SUFFICES ASSUME NEW q \in startReq'
               PROVE  /\ life'[[inc |-> q.inc, gen |-> q.gen]] = "none"
                      /\ \A q2 \in startReq' :
                           q2.inc = q.inc /\ q2.gen = q.gen => q2 = q
    BY DEF FreshKey
  <2>1. /\ q \in startReq /\ startReq' \subseteq startReq
        /\ [inc |-> q.inc, gen |-> q.gen] \in Ref
    BY KeyNumbers DEF Quiet
  <2>2. life[[inc |-> q.inc, gen |-> q.gen]] = "none"
    BY <2>1 DEF FreshKey
  <2>3. life'[[inc |-> q.inc, gen |-> q.gen]] = "none"
    BY <2>1, <2>2 DEF Quiet
  <2> QED
    BY <2>1, <2>3 DEF FreshKey
<1> QED
  BY <1>2, <1>7, <1>8

(* A generation just taken is beyond every key in use; a command sent and a  *)
(* task started use a key nothing else had.                                  *)
LEMMA KeyStep ==
  ASSUME TypeOK, TypeOK', LockHeld, CopiesReal, KeysHandedOut, NamedTasksStarted,
         FreshKey, [Next]_vars
  PROVE  CopiesReal' /\ KeysHandedOut' /\ FreshKey'
<1>1. CASE Quiet
  BY <1>1, QuietKeys
<1>2. ASSUME NEW p \in Callers, TakeGeneration(p)
      PROVE  CopiesReal' /\ KeysHandedOut' /\ FreshKey'
  <2> DEFINE After(i, g) == i < row'.inc \/ (i = row'.inc /\ g <= row'.gen)
  <2>1. /\ p \in Proc /\ Hit(p) /\ row.inc = ws[p].inc
        /\ row'.inc = row.inc /\ row'.gen = row.gen + 1 /\ row'.live = row.live
        /\ ws' = ws /\ gen'[p] = row.gen + 1 /\ pc[p] = "place"
        /\ \A o \in Proc \ {p} : pc'[o] = pc[o] /\ gen'[o] = gen[o]
        /\ startReq' = startReq /\ life' = life
    BY <1>2
    DEF TakeGeneration, NextGeneration, Hit, TypeOK, Row, Proc, reqVars, taskVars
  <2>2. /\ row.live /\ row.inc \in Nat /\ row.gen \in Nat /\ row.inc >= 1
        /\ \A o \in Proc : ws[o].inc \in Nat /\ gen[o] \in Nat
    BY <2>1, KeyNumbers DEF Hit, CopiesReal
  <2>3. \A o \in Proc \ {p} : pc[o] \notin Sending
    BY <2>1 DEF LockHeld, Placing, AwaitingTask, Sending
  <2>4. CopiesReal'
    BY <2>1, <2>2, <2>3 DEF CopiesReal
  <2>5. \A i, g \in Nat : HandedOut(i, g) => After(i, g)
    BY <2>1, <2>2 DEF HandedOut
  <2>6. After(ws[p].inc, gen'[p])
    BY <2>1, <2>2
  <2>7. [inc |-> ws[p].inc, gen |-> gen'[p]] \in Ref
    BY <2>1, <2>2, PlacementAssumption DEF TypeOK, Row, Ref
  <2>8. /\ life[[inc |-> ws[p].inc, gen |-> gen'[p]]] = "none"
        /\ \A q \in startReq : ~(q.inc = ws[p].inc /\ q.gen = gen'[p])
    BY <2>1, <2>2, <2>7, KeyNumbers DEF KeysHandedOut, HandedOut
  <2>9. /\ \A r \in Ref : life'[r] # "none" => After(r.inc, r.gen)
        /\ \A q \in startReq' : After(q.inc, q.gen)
    <3> HIDE DEF After
    <3> QED
      BY <2>1, <2>5, KeyNumbers DEF KeysHandedOut
  <2>10. ASSUME NEW o \in Proc, pc'[o] \in Sending
         PROVE  /\ After(ws'[o].inc, gen'[o])
                /\ life'[[inc |-> ws'[o].inc, gen |-> gen'[o]]] = "none"
                /\ \A q \in startReq' : ~(q.inc = ws'[o].inc /\ q.gen = gen'[o])
    <3>1. o = p
      BY <2>1, <2>3, <2>10
    <3> HIDE DEF After
    <3> QED
      BY <3>1, <2>1, <2>6, <2>8
  <2>11. KeysHandedOut'
    BY <2>9, <2>10 DEF KeysHandedOut, HandedOut
  <2> QED
    BY <2>1, <2>4, <2>11 DEF FreshKey
<1>3. ASSUME NEW p \in Callers, SendStart(p)
      PROVE  CopiesReal' /\ KeysHandedOut' /\ FreshKey'
  <2> DEFINE new == [inc |-> ws[p].inc, gen |-> gen[p], snap |-> ws[p].snap]
  <2>1. /\ p \in Proc /\ pc[p] \in Sending /\ pc'[p] \notin Sending
        /\ \A o \in Proc \ {p} : pc'[o] = pc[o]
        /\ ws' = ws /\ gen' = gen /\ life' = life
        /\ startReq' = startReq \cup {new}
        /\ new.inc = ws[p].inc /\ new.gen = gen[p]
    BY <1>3 DEF SendStart, Sending, TypeOK, Proc, taskVars
  <2>2. row' = row
    BY <1>3 DEF SendStart
  <2>3. \A o \in Proc \ {p} : pc[o] \notin Sending
    BY <2>1 DEF LockHeld, Placing, AwaitingTask, Sending
  <2> HIDE DEF new
  <2>4. CopiesReal'
    BY <2>1, <2>2, <2>3 DEF CopiesReal
  <2>5. KeysHandedOut'
    BY <2>1, <2>2, <2>3 DEF KeysHandedOut, HandedOut
  <2>6. /\ life[[inc |-> ws[p].inc, gen |-> gen[p]]] = "none"
        /\ \A q \in startReq : ~(q.inc = ws[p].inc /\ q.gen = gen[p])
    BY <2>1 DEF KeysHandedOut
  <2>7. FreshKey'
    <3> SUFFICES ASSUME NEW q \in startReq'
                 PROVE  /\ life'[[inc |-> q.inc, gen |-> q.gen]] = "none"
                        /\ \A q2 \in startReq' :
                             q2.inc = q.inc /\ q2.gen = q.gen => q2 = q
      BY DEF FreshKey
    <3>1. CASE q \in startReq
      BY <3>1, <2>1, <2>6 DEF FreshKey
    <3>2. CASE q = new
      <4>1. q.inc = ws[p].inc /\ q.gen = gen[p]
        BY <3>2, <2>1
      <4>2. life'[[inc |-> q.inc, gen |-> q.gen]] = "none"
        BY <4>1, <2>1, <2>6
      <4>3. \A q2 \in startReq : ~(q2.inc = q.inc /\ q2.gen = q.gen)
        BY <4>1, <2>6
      <4> QED
        BY <3>2, <4>2, <4>3, <2>1
    <3> QED
      BY <3>1, <3>2, <2>1
  <2> QED
    BY <2>4, <2>5, <2>7
<1>4. ASSUME NEW q \in startReq, RunnerStart(q)
      PROVE  CopiesReal' /\ KeysHandedOut' /\ FreshKey'
  <2> DEFINE new == [inc |-> q.inc, gen |-> q.gen]
  <2>1. /\ new \in Ref /\ new.inc = q.inc /\ new.gen = q.gen
        /\ row' = row /\ pc' = pc /\ ws' = ws /\ gen' = gen
        /\ startReq' = startReq \ {q}
        /\ \A r \in Ref \ {new} : life'[r] = life[r]
    BY <1>4, KeyNumbers DEF RunnerStart, TypeOK
  <2>2. CopiesReal'
    BY <2>1 DEF CopiesReal
  <2>3. \A p \in Proc : pc[p] \in Sending =>
          /\ [inc |-> ws[p].inc, gen |-> gen[p]] \in Ref
          /\ [inc |-> ws[p].inc, gen |-> gen[p]] # new
    BY PlacementAssumption DEF CopiesReal, KeysHandedOut, TypeOK, Row, Ref
  <2>4. \A o \in startReq' : /\ [inc |-> o.inc, gen |-> o.gen] \in Ref
                             /\ [inc |-> o.inc, gen |-> o.gen] # new
    BY <2>1, KeyNumbers DEF FreshKey
  <2> HIDE DEF new
  <2>5. KeysHandedOut'
    BY <2>1, <2>3 DEF KeysHandedOut, HandedOut
  <2>6. FreshKey'
    BY <2>1, <2>4 DEF FreshKey
  <2> QED
    BY <2>2, <2>5, <2>6
<1> QED
  BY <1>1, <1>2, <1>3, <1>4, QuietStep DEF Loud

-----------------------------------------------------------------------------
(* The results. *)

(* The inductive invariant holds in every reachable state. *)
THEOREM PlacementInvariant == Spec => []PlacementInv
<1>1. Init => PlacementInv
  <2> SUFFICES ASSUME Init PROVE PlacementInv
    OBVIOUS
  <2>1. TypeOK
    BY InsertedType, AnswerType, PlacementAssumption DEF Init, TypeOK, Label
  <2>2. LockHeld /\ CopiesReal
    BY InsertedType DEF Init, LockHeld, Placing, AwaitingTask, Sending, CopiesReal
  <2>3. KeysHandedOut /\ NamedTasksStarted /\ FreshKey
    BY InsertedType DEF Init, KeysHandedOut, Sending, NamedTasksStarted, FreshKey
  <2> QED
    BY <2>1, <2>2, <2>3 DEF PlacementInv
<1>2. PlacementInv /\ [Next]_vars => PlacementInv'
  BY TypeStep, LockStep, NamedStep, KeyStep DEF PlacementInv
<1> QED
  BY <1>1, <1>2, PTL DEF Spec

(* Every variable keeps its type, whatever fails. *)
THEOREM TypeCorrect == Spec => []TypeOK
<1>1. PlacementInv => TypeOK
  BY DEF PlacementInv
<1> QED
  BY <1>1, PlacementInvariant, PTL

(* No idempotency key reaches the runner twice: for every interleaving of    *)
(* placements, lost answers, restarts, deletes and re-creations.             *)
THEOREM KeysAreFresh == Spec => []FreshKey
<1>1. PlacementInv => FreshKey
  BY DEF PlacementInv
<1> QED
  BY <1>1, PlacementInvariant, PTL

(* At most one running task per generation of the name, unless a lookup      *)
(* failed and the client token that would have stood in for it is forgotten. *)
THEOREM OneTask == Spec => []OneTaskPerGeneration
<1>1. Init => OneTaskPerGeneration
  BY DEF Init, OneTaskPerGeneration
<1>2. PlacementInv /\ OneTaskPerGeneration /\ [Next]_vars
        => OneTaskPerGeneration'
  <2> SUFFICES ASSUME TypeOK, NamedTasksStarted, OneTaskPerGeneration, [Next]_vars
               PROVE  OneTaskPerGeneration'
    BY DEF PlacementInv
  <2>1. CASE /\ \A r \in Ref : life'[r] = "running" => life[r] = "running"
             /\ tokens' \subseteq tokens /\ blind' = blind
    BY <2>1 DEF OneTaskPerGeneration
  <2>2. ASSUME NEW q \in startReq, RunnerStart(q) PROVE OneTaskPerGeneration'
    <3> DEFINE new == [inc |-> q.inc, gen |-> q.gen]
    <3>1. /\ new \in Ref /\ new.gen = q.gen
          /\ \A r \in Ref \ {new} : life'[r] = life[r]
          /\ \A r \in tokens : r.gen # q.gen
          /\ tokens' = tokens \cup {new} /\ blind \subseteq blind'
      BY <2>2, KeyNumbers DEF RunnerStart, Repeats, TypeOK
    <3>2. \A r \in Ref : r.gen = q.gen /\ life[r] = "running" => new \in blind'
      BY <2>2 DEF RunnerStart, Existing
    <3> HIDE DEF new
    <3> SUFFICES ASSUME NEW r1 \in Ref, NEW r2 \in Ref, r1 # r2, r1.gen = r2.gen,
                        life'[r1] = "running", life'[r2] = "running"
                 PROVE  {r1, r2} \cap blind' # {} /\ ~({r1, r2} \subseteq tokens')
      BY DEF OneTaskPerGeneration
    <3>3. CASE r1 # new /\ r2 # new
      <4>1. {r1, r2} \cap blind # {} /\ ~({r1, r2} \subseteq tokens)
        BY <3>1, <3>3 DEF OneTaskPerGeneration
      <4> QED
        BY <3>1, <3>3, <4>1
    <3>4. CASE r1 = new
      BY <3>1, <3>2, <3>4
    <3>5. CASE r2 = new
      BY <3>1, <3>2, <3>5
    <3> QED
      BY <3>3, <3>4, <3>5
  <2>3. \/ /\ \A r \in Ref : life'[r] = "running" => life[r] = "running"
           /\ tokens' \subseteq tokens /\ blind' = blind
        \/ \E q \in startReq : RunnerStart(q)
    <3>1. ASSUME NEW p \in Callers, TakeGeneration(p) \/ SendStart(p)
          PROVE  life' = life /\ tokens' = tokens /\ blind' = blind
      BY <3>1 DEF TakeGeneration, SendStart, taskVars, ecsVars
    <3> QED
      BY <3>1, QuietStep DEF Quiet, Loud
  <2> QED
    BY <2>1, <2>2, <2>3
<1> QED
  BY <1>1, <1>2, PlacementInvariant, PTL DEF Spec

(* No placement is undercut: the generation moves by one, and not while      *)
(* another placement waits for the task of its own.                          *)
THEOREM NotUndercut == Spec => PlacementNotUndercut
<1>1. PlacementInv /\ [Next]_vars =>
        [ row'.inc = row.inc /\ row'.gen # row.gen
            => /\ row'.gen = row.gen + 1
               /\ \A p \in Callers : pc[p] \notin AwaitingTask ]_vars
  <2> SUFFICES ASSUME PlacementInv, [Next]_vars,
                      row'.inc = row.inc, row'.gen # row.gen
               PROVE  /\ row'.gen = row.gen + 1
                      /\ \A p \in Callers : pc[p] \notin AwaitingTask
    OBVIOUS
  <2>1. PICK p \in Callers : TakeGeneration(p)
    <3>1. row.inc \in Nat /\ row.inc # row.inc + 1
      BY KeyNumbers DEF PlacementInv
    <3>2. ASSUME NEW q \in startReq, RunnerStart(q) PROVE row' = row
      BY <3>2 DEF RunnerStart
    <3>3. ASSUME NEW p \in Callers, SendStart(p) PROVE row' = row
      BY <3>3 DEF SendStart
    <3> QED
      BY <3>1, <3>2, <3>3, QuietStep DEF Quiet, Loud, PlacementInv
  <2>2. row'.gen = row.gen + 1 /\ pc[p] = "place" /\ p \in Proc
    BY <2>1 DEF TakeGeneration, NextGeneration, PlacementInv, TypeOK, Row, Proc
  <2>3. \A o \in Proc \ {p} : pc[o] \notin Placing
    BY <2>2 DEF PlacementInv, LockHeld, Placing
  <2> QED
    BY <2>2, <2>3 DEF Placing, AwaitingTask, Proc
<1> QED
  BY <1>1, PlacementInvariant, PTL DEF Spec, PlacementNotUndercut

(* A placement is answered with a running task, or else with one that an     *)
(* earlier record of the name placed under the same client token: within one *)
(* record no token is ever used twice.                                       *)
THEOREM AnsweredByRunning == Spec => AnsweredByRunningTask
<1>1. ASSUME TypeOK, NamedTasksStarted, FreshKey, NEW q \in startReq,
             NEW r \in Repeats(q)
      PROVE  r \in tokens /\ r.gen = q.gen /\ r.inc # q.inc
  <2>1. r \in tokens /\ r.gen = q.gen /\ r \in Ref
    BY <1>1 DEF Repeats, TypeOK
  <2>2. r = [inc |-> r.inc, gen |-> r.gen]
    BY <2>1 DEF Ref
  <2>3. life[r] # "none" /\ life[[inc |-> q.inc, gen |-> q.gen]] = "none"
    BY <1>1, <2>1 DEF NamedTasksStarted, FreshKey
  <2> QED
    BY <2>1, <2>2, <2>3
<1>2. PlacementInv /\ [Next]_vars =>
        [ \A p \in Callers :
            pc[p] = "dispatch" /\ ans'[p] # ans[p] /\ ans'[p].kind = "ok"
              => \/ life'[ans'[p].ref] = "running"
                 \/ /\ ans'[p].ref.inc # ws[p].inc
                    /\ ans'[p].ref.gen = gen[p]
                    /\ ans'[p].ref \in tokens ]_vars
  <2> SUFFICES ASSUME PlacementInv, [Next]_vars, NEW p \in Callers,
                      pc[p] = "dispatch", ans'[p] # ans[p], ans'[p].kind = "ok"
               PROVE  \/ life'[ans'[p].ref] = "running"
                      \/ /\ ans'[p].ref.inc # ws[p].inc
                         /\ ans'[p].ref.gen = gen[p]
                         /\ ans'[p].ref \in tokens
    OBVIOUS
  <2>1. TypeOK /\ NamedTasksStarted /\ FreshKey /\ p \in Proc
    BY DEF PlacementInv, Proc
  <2>2. ASSUME NEW q \in startReq, RunnerRepeat(q)
        PROVE  /\ ans'[p].ref.inc # ws[p].inc /\ ans'[p].ref.gen = gen[p]
               /\ ans'[p].ref \in tokens
    <3>1. PICK r \in Repeats(q) : AnswerStart(q, Ok(r))
      BY <2>2 DEF RunnerRepeat
    <3>2. gen[p] = q.gen /\ ws[p].inc = q.inc /\ ans'[p] = Ok(r)
      BY <2>1, <3>1 DEF AnswerStart
    <3>3. ans'[p].ref = r
      BY <3>2 DEF Ok
    <3> QED
      BY <1>1, <2>1, <3>1, <3>2, <3>3
  <2>3. CASE Quiet
    BY <2>1, <2>2, <2>3 DEF Quiet
  <2>4. ASSUME NEW o \in Callers, TakeGeneration(o) \/ SendStart(o) PROVE FALSE
    BY <2>1, <2>4 DEF TakeGeneration, SendStart, TypeOK
  <2>5. ASSUME NEW q \in startReq, RunnerStart(q)
        PROVE  life'[ans'[p].ref] = "running"
    <3> DEFINE new == [inc |-> q.inc, gen |-> q.gen]
    <3>1. new \in Ref /\ life'[new] = "running"
      BY <2>1, <2>5, KeyNumbers DEF RunnerStart, TypeOK
    <3>2. ans'[p] = Ok(new)
      BY <2>1, <2>5 DEF RunnerStart, AnswerStart
    <3> HIDE DEF new
    <3> QED
      BY <3>1, <3>2 DEF Ok
  <2> QED
    BY <2>1, <2>3, <2>4, <2>5, QuietStep DEF Loud
<1> QED
  BY <1>2, PlacementInvariant, PTL DEF Spec, AnsweredByRunningTask

-----------------------------------------------------------------------------
(* Snapshots, when nothing is deleted. *)

(* A stop runs in the reaper only.  What it was answered with exists until   *)
(* the row names it, and what it goes on to drop is not what the row names.  *)
Stops == {"stop", "stopping", "drop", "collect", "delete"}
SnapshotsHeld ==
  /\ \A p \in Callers : pc[p] \notin Stops
  /\ pc[Reaper] \in {"idle", "sweep", "stop", "stopping", "drop", "reaped"}
  /\ row.snap # None => row.snap \in snaps
  /\ pc[Reaper] = "stopping" /\ ans[Reaper].kind = "ok" =>
       ans[Reaper].ref \in snaps \cup {None}
  /\ pc[Reaper] = "drop" => ans[Reaper].ref \notin {row.snap, None}

(* A step that leaves the reaper and the snapshots alone. *)
Aside ==
  /\ row'.snap \in {row.snap, None} /\ snaps' = snaps
  /\ pc'[Reaper] = pc[Reaper] /\ ans'[Reaper] = ans[Reaper]
  /\ \A p \in Callers : pc'[p] \in Stops => pc[p] \in Stops

(* A caller that creates a workspace or places takes such steps only. *)
LEMMA CallerAside ==
  ASSUME TypeOK, NEW p \in Callers, CreateWorkspace(p) \/ Ensure(p)
  PROVE  Aside
<1> p \in Proc /\ p # Reaper /\ Reaper \in Proc /\ \A o \in Callers : o \in Proc
  BY PlacementAssumption DEF Proc
<1>0. ASSUME Ends(p), row'.snap = row.snap, snaps' = snaps PROVE Aside
  BY <1>0, EndsFields DEF Aside, Stops
<1>1. CASE CreateWorkspace(p)
  <2>1. row'.snap = None
    BY <1>1 DEF CreateWorkspace, Inserted
  <2>2. pc' = [pc EXCEPT ![p] = "lock"] /\ ans' = ans /\ snaps' = snaps
    BY <1>1 DEF CreateWorkspace, diskVars
  <2> QED
    BY <2>1, <2>2 DEF Aside, Stops, TypeOK
<1>2. CASE ReadWorkspace(p) \/ PickMiss(p) \/ GraceOver(p)
  <2>1. row' = row /\ ans' = ans /\ snaps' = snaps
    BY <1>2 DEF ReadWorkspace, PickMiss, GraceOver, diskVars
  <2>2. \E l \in {"lock", "grace", "place"} : pc' = [pc EXCEPT ![p] = l]
    BY <1>2 DEF ReadWorkspace, PickMiss, GraceOver
  <2> QED
    BY <2>1, <2>2 DEF Aside, Stops, TypeOK
<1>3. CASE PickHit(p) \/ GraceHit(p) \/ OutOfGenerations(p)
  <2>1. row' = row /\ snaps' = snaps /\ Ends(p)
    BY <1>3 DEF PickHit, GraceHit, OutOfGenerations, Return, diskVars
  <2> QED
    BY <1>0, <2>1
<1>4. CASE NoRunner(p) \/ NoGeneration(p) \/ SendFail(p) \/ DispatchFail(p)
  <2>1. NotePlacementFailure(p, None) /\ snaps' = snaps
    BY <1>4 DEF NoRunner, NoGeneration, SendFail, DispatchFail, diskVars
  <2> QED
    BY <1>0, <2>1, FailureFields
<1>5. CASE WaitOver(p)
  <2>1. NotePlacementFailure(p, ans[p].ref) /\ snaps' = snaps
    BY <1>5 DEF WaitOver, diskVars
  <2>2. ans[p].ref \in Ref \cup {None}
    BY DEF TypeOK, Answer
  <2> QED
    BY <1>0, <2>1, <2>2, FailureFields
<1>6. CASE TakeGeneration(p)
  <2>1. row'.snap = row.snap
    BY <1>6 DEF TakeGeneration, TypeOK, Row
  <2>2. pc' = [pc EXCEPT ![p] = "send"] /\ ans' = ans /\ snaps' = snaps
    BY <1>6 DEF TakeGeneration, diskVars
  <2> QED
    BY <2>1, <2>2 DEF Aside, Stops, TypeOK
<1>7. CASE SendStart(p)
  <2>1. row' = row
    BY <1>7 DEF SendStart
  <2>2. /\ pc' = [pc EXCEPT ![p] = "dispatch"]
        /\ ans' = [ans EXCEPT ![p] = NoAnswer] /\ snaps' = snaps
    BY <1>7 DEF SendStart, diskVars
  <2> QED
    BY <2>1, <2>2 DEF Aside, Stops, TypeOK
<1>8. ans[p].ref \in Ref \cup {None}
  BY DEF TypeOK, Answer
<1>11. CASE MarkStarting(p)
  <2>1. row'.snap = row.snap
    BY <1>11, SetStatusFields DEF MarkStarting
  <2>2. pc' = [pc EXCEPT ![p] = "command"] /\ ans' = ans /\ snaps' = snaps
    BY <1>11 DEF MarkStarting, diskVars
  <2> QED
    BY <2>1, <2>2 DEF Aside, Stops, TypeOK
<1>9. CASE Dispatched(p)
  <2>1. row'.snap = row.snap
    BY <1>8, <1>9, SetStatusFields DEF Dispatched
  <2>2. pc' = [pc EXCEPT ![p] = "wait"] /\ ans' = ans /\ snaps' = snaps
    BY <1>9 DEF Dispatched, diskVars
  <2> QED
    BY <2>1, <2>2 DEF Aside, Stops, TypeOK
<1>10. CASE WaitHit(p)
  <2>1. row'.snap = row.snap
    BY <1>8, <1>10, SetStatusFields DEF WaitHit
  <2>2. Ends(p) /\ snaps' = snaps
    BY <1>10 DEF WaitHit, Return, diskVars
  <2> QED
    BY <1>0, <2>1, <2>2
<1> QED
  BY <1>1, <1>2, <1>3, <1>4, <1>5, <1>6, <1>7, <1>9, <1>10, <1>11 DEF Ensure

(* So do the tasks, the runner's starts and the environment. *)
LEMMA OthersAside ==
  ASSUME TypeOK, SnapshotsHeld,
         \/ \E q \in startReq : RunnerAdopt(q) \/ RunnerStart(q) \/ RunnerRepeat(q)
                                  \/ RunnerRefuse(q)
         \/ \E q \in stopReq : RunnerStop(q)
         \/ \E r \in Ref : Task(r) \/ Forget(r)
         \/ SweepGone \/ HoldElapses \/ ReportStale \/ RunnerLink \/ UNCHANGED vars
  PROVE  Aside
<1> Reaper \in Proc
  BY DEF Proc
<1>1. ASSUME NEW q \in startReq,
             RunnerAdopt(q) \/ RunnerStart(q) \/ RunnerRepeat(q) \/ RunnerRefuse(q)
      PROVE  Aside
  <2>1. row' = row /\ snaps' = snaps /\ pc' = pc /\ \E a : AnswerStart(q, a)
    BY <1>1 DEF RunnerAdopt, RunnerStart, RunnerRepeat, RunnerRefuse, diskVars
  <2>2. pc[Reaper] # "dispatch"
    BY DEF SnapshotsHeld
  <2>3. ans'[Reaper] = ans[Reaper]
    BY <2>1, <2>2 DEF AnswerStart
  <2> QED
    BY <2>1, <2>3 DEF Aside
<1>2. ASSUME NEW r \in Ref, Task(r) \/ Forget(r) PROVE Aside
  BY <1>2 DEF Task, Dial, Unauthorized, Register, TunnelDrops, TaskExits, TaskStops,
              Gone, Headroom, Forget, Aside, procVars, diskVars
<1>3. CASE HoldElapses
  BY <1>3, HoldFields DEF HoldElapses, Aside, procVars, diskVars
<1>4. CASE \/ \E q \in stopReq : RunnerStop(q)
           \/ SweepGone \/ ReportStale \/ RunnerLink \/ UNCHANGED vars
  BY <1>4 DEF RunnerStop, SweepGone, ReportStale, RunnerLink, vars, Aside, procVars,
              diskVars
<1> QED
  BY <1>1, <1>2, <1>3, <1>4

(* Nothing drops the snapshot the row names. *)
LEMMA SnapshotStep ==
  ASSUME ~Deleting, PlacementInv, SnapshotsHeld, [Next]_vars
  PROVE  SnapshotsHeld'
<1>0. /\ TypeOK /\ Reaper \in Proc /\ Reaper \notin Callers
      /\ \A p \in Callers : p \in Proc /\ p # Reaper
  BY PlacementAssumption DEF PlacementInv, Proc
<1>1. ASSUME Aside PROVE SnapshotsHeld'
  BY <1>1 DEF Aside, SnapshotsHeld
<1>2. ASSUME row' = row, ans' = ans, snaps' = snaps, NEW l,
             l \in {"idle", "sweep", "stop", "reaped"},
             pc' = [pc EXCEPT ![Reaper] = l]
      PROVE  SnapshotsHeld'
  <2>1. pc'[Reaper] = l /\ \A p \in Callers : pc'[p] = pc[p]
    BY <1>0, <1>2 DEF TypeOK
  <2> QED
    BY <1>2, <2>1 DEF SnapshotsHeld
<1>3. ASSUME Ends(Reaper), row'.snap = row.snap, snaps' = snaps
      PROVE  SnapshotsHeld'
  <2>1. pc'[Reaper] = "idle" /\ \A p \in Callers : pc'[p] = pc[p]
    BY <1>0, <1>3, EndsFields
  <2> QED
    BY <1>3, <2>1 DEF SnapshotsHeld
<1>4. ASSUME NEW p \in Callers, Delete(p) \/ StopTask(p) PROVE FALSE
  BY <1>4 DEF Delete, DeleteRead, DeleteCollect, DeleteRow, StopTask, StopSkip,
              StopSend, StopFail, StopRecord, DropDisplaced, SnapshotsHeld, Stops
<1>5. CASE StopSkip(Reaper) \/ StopFail(Reaper)
  BY <1>2, <1>5 DEF StopSkip, StopFail, StopDone, diskVars
<1>6. CASE StopSend(Reaper)
  <2>1. /\ row' = row /\ snaps' = snaps
        /\ ans' = [ans EXCEPT ![Reaper] = NoAnswer]
        /\ pc' = [pc EXCEPT ![Reaper] = "stopping"]
    BY <1>6 DEF StopSend, diskVars
  <2>2. /\ ans'[Reaper].kind # "ok" /\ pc'[Reaper] = "stopping"
        /\ \A p \in Callers : pc'[p] = pc[p]
    BY <1>0, <2>1, AnswerType DEF TypeOK
  <2> QED
    BY <2>1, <2>2 DEF SnapshotsHeld
<1>7. CASE StopRecord(Reaper)
  <2>1. pc[Reaper] = "stopping" /\ ans[Reaper].kind = "ok" /\ snaps' = snaps
    BY <1>7 DEF StopRecord, diskVars
  <2>2. /\ pc'[Reaper] \in {"reaped", "drop", "collect"}
        /\ \A o \in Proc \ {Reaper} : pc'[o] = pc[o]
        /\ \/ row' = row /\ ans' = ans /\ pc'[Reaper] # "drop"
           \/ /\ row'.snap = ans[Reaper].ref /\ ans[Reaper].ref # None
              /\ ans'[Reaper].ref = Displaced(Reaper)
              /\ pc'[Reaper] = "drop" <=> Displaced(Reaper) # None
    BY <1>0, <1>7, RecordFields
  <2>3. pc'[Reaper] # "collect"
    BY <1>0, <1>7 DEF StopRecord, StopDone, TypeOK
  <2>4. ans[Reaper].ref \in snaps \cup {None}
    BY <2>1 DEF SnapshotsHeld
  <2> QED
    BY <1>0, <2>1, <2>2, <2>3, <2>4 DEF SnapshotsHeld, Displaced
<1>8. CASE DropDisplaced(Reaper)
  <2>1. /\ pc[Reaper] = "drop" /\ row' = row
        /\ snaps' = snaps \ {ans[Reaper].ref} \/ snaps' = snaps
        /\ pc' = [pc EXCEPT ![Reaper] = "reaped"]
    BY <1>8 DEF DropDisplaced, DropSnapshot, StopDone
  <2>2. pc'[Reaper] = "reaped" /\ \A p \in Callers : pc'[p] = pc[p]
    BY <1>0, <2>1 DEF TypeOK
  <2> QED
    BY <2>1, <2>2 DEF SnapshotsHeld
<1>9. CASE SweepRead \/ SweepStop
  BY <1>2, <1>9 DEF SweepRead, SweepStop, diskVars
<1>10. CASE SweepHold
  <2>1. row'.snap = row.snap
    BY <1>0, <1>10, HoldFields DEF SweepHold, SetHold
  <2> QED
    BY <1>3, <1>10, <2>1 DEF SweepHold, diskVars
<1>11. CASE Reaped
  BY <1>0, <1>3, <1>11, ReapedFields DEF Reaped, diskVars
<1>12. ASSUME NEW q \in stopReq, RunnerStopRefuse(q) \/ RunnerPreserve(q)
       PROVE  SnapshotsHeld'
  <2>1. row' = row /\ pc' = pc
    BY <1>12 DEF RunnerStopRefuse, RunnerPreserve
  <2>2. q.ref \in Ref /\ q.by \in Proc
    BY <1>0 DEF TypeOK
  <2>3. /\ snaps \subseteq snaps'
        /\ \/ ans'[Reaper] = ans[Reaper] \/ ans'[Reaper] = Error
           \/ ans'[Reaper] = Ok(None)
           \/ ans'[Reaper] = Ok(q.ref) /\ q.ref \in snaps'
        /\ ans'[Reaper] # ans[Reaper] => pc[Reaper] = "stopping"
    <3>1. CASE RunnerStopRefuse(q)
      BY <1>0, <2>2, <3>1 DEF RunnerStopRefuse, AnswerStop, TypeOK, diskVars
    <3>2. CASE RunnerPreserve(q)
      BY <1>0, <2>2, <3>2 DEF RunnerPreserve, Preserve, AnswerStop, TypeOK, diskVars
    <3> QED
      BY <1>12, <3>1, <3>2
  <2>4. ans'[Reaper] # ans[Reaper] =>
          ans'[Reaper].kind # "ok" \/ ans'[Reaper].ref \in snaps' \cup {None}
    BY <2>2, <2>3, AnswerType DEF Ref
  <2> QED
    BY <2>1, <2>3, <2>4 DEF SnapshotsHeld
<1>13. CASE Restart
  <2>1. row' = row /\ snaps' = snaps /\ \A p \in Proc : pc'[p] = "idle"
    BY <1>13 DEF Restart, diskVars
  <2> QED
    BY <1>0, <2>1 DEF SnapshotsHeld, Stops
<1>14. ASSUME NEW p \in Callers, CreateWorkspace(p) \/ Ensure(p) PROVE SnapshotsHeld'
  BY <1>0, <1>1, <1>14, CallerAside
<1>15. CASE \/ \E q \in startReq : RunnerAdopt(q) \/ RunnerStart(q) \/ RunnerRepeat(q)
                                     \/ RunnerRefuse(q)
            \/ \E q \in stopReq : RunnerStop(q)
            \/ \E r \in Ref : Task(r) \/ Forget(r)
            \/ SweepGone \/ HoldElapses \/ ReportStale \/ RunnerLink \/ UNCHANGED vars
  BY <1>0, <1>1, <1>15, OthersAside
<1>16. CASE Runner
  BY <1>12, <1>15, <1>16 DEF Runner
<1>17. CASE \E p \in Proc : StopTask(p)
  <2>1. PICK p \in Proc : StopTask(p)
    BY <1>17
  <2>2. p = Reaper
    BY <1>4, <2>1 DEF Proc
  <2> QED
    BY <2>1, <2>2, <1>5, <1>6, <1>7, <1>8 DEF StopTask
<1>18. CASE Sweep
  BY <1>9, <1>10, <1>11, <1>15, <1>18 DEF Sweep
<1> QED
  BY <1>4, <1>13, <1>14, <1>15, <1>16, <1>17, <1>18 DEF Next

(* While nothing is deleted the row never names a snapshot that is not       *)
(* there, whatever stops, statements and restarts fail or come between.      *)
THEOREM RowsSnapshotStays ==
  ASSUME ~Deleting
  PROVE  Spec => []RowSnapshotExists
<1>1. Init => SnapshotsHeld
  BY InsertedType DEF Init, SnapshotsHeld, Stops, Proc
<1>2. PlacementInv /\ SnapshotsHeld /\ [Next]_vars => SnapshotsHeld'
  BY SnapshotStep
<1>3. SnapshotsHeld => RowSnapshotExists
  BY DEF SnapshotsHeld, RowSnapshotExists
<1> QED
  BY <1>1, <1>2, <1>3, PlacementInvariant, PTL DEF Spec

(* A sweep's writes after a stop that took long are for the row it read, not *)
(* for one created since: every statement of the reaper goes by the id.      *)
THEOREM SuccessorsSpared == Spec => SweepSparesSuccessor
<1>1. PlacementInv /\ [Next]_vars =>
        [ pc'[Reaper] # pc[Reaper] /\ row' # row => row.inc = ws[Reaper].inc ]_vars
  <2> SUFFICES ASSUME PlacementInv, [Next]_vars,
                      pc'[Reaper] # pc[Reaper], row' # row
               PROVE  Hit(Reaper)
    BY DEF Hit
  <2>0. TypeOK /\ Reaper \in Proc /\ \A p \in Callers : p \in Proc /\ p # Reaper
    BY PlacementAssumption DEF PlacementInv, Proc
  <2>1. ASSUME NEW p \in Callers, CreateWorkspace(p) \/ Ensure(p) PROVE FALSE
    BY <2>0, <2>1, CallerAside DEF Aside
  <2>2. ASSUME NEW p \in Callers, Delete(p) PROVE FALSE
    <3>1. CASE DeleteRead(p) \/ DeleteCollect(p)
      BY <3>1 DEF DeleteRead, DeleteCollect
    <3>2. CASE DeleteRow(p)
      BY <2>0, <3>2, EndsFields DEF DeleteRow
    <3> QED
      BY <2>2, <3>1, <3>2 DEF Delete
  <2>3. ASSUME NEW p \in Proc, StopTask(p) PROVE Hit(Reaper)
    <3>1. StopRecord(p)
      BY <2>3 DEF StopTask, StopSkip, StopSend, StopFail, DropDisplaced
    <3> QED
      BY <3>1 DEF StopRecord
  <2>4. CASE Sweep
    <3>1. SweepHold \/ Reaped
      BY <2>4 DEF Sweep, SweepGone, SweepRead, SweepStop, procVars
    <3> QED
      BY <3>1 DEF SweepHold, SetHold, Reaped
  <2>5. CASE HoldElapses \/ ReportStale \/ RunnerLink \/ UNCHANGED vars
    BY <2>5 DEF HoldElapses, ReportStale, RunnerLink, vars, procVars
  <2>6. CASE Restart
    BY <2>6 DEF Restart
  <2>7. CASE Runner
    BY <2>7 DEF Runner, RunnerAdopt, RunnerStart, RunnerRepeat, RunnerRefuse,
                RunnerStop, RunnerStopRefuse, RunnerPreserve
  <2>8. ASSUME NEW r \in Ref, Task(r) \/ Forget(r) PROVE FALSE
    BY <2>8 DEF Task, Dial, Unauthorized, Register, TunnelDrops, TaskExits, TaskStops,
                Gone, Headroom, Forget
  <2> QED
    BY <2>1, <2>2, <2>3, <2>4, <2>5, <2>6, <2>7, <2>8 DEF Next
<1> QED
  BY <1>1, PlacementInvariant, PTL DEF Spec, SweepSparesSuccessor
=============================================================================
