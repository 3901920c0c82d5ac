--------------------------- MODULE BenchRunProofs ----------------------------
(***************************************************************************)
(* Theorems about the measurement loop of bench.c, for any number of       *)
(* iterations, of threads and of runs.                                     *)
(***************************************************************************)
EXTENDS BenchRun, TLAPS

(* The parameters, and iteration 0, which computes the results. *)
LEMMA Sizes == 0 \in TID /\ TID \subseteq Nat /\ NRUNS \in Nat
BY SizeAssumption DEF TID

(* A step of one iteration moves no other one. *)
LEMMA Elsewhere ==
  ASSUME NEW tid \in TID, NEW here, NEW there, At(tid, here, there), TypeOK
  PROVE  /\ pc[tid] = here /\ pc'[tid] = there
         /\ \A u \in TID : u # tid => pc'[u] = pc[u]
         /\ \A u \in TID \ {tid} :
              /\ Made(u)' = Made(u) /\ Met(u)' = Met(u)
              /\ StartRead(u)' = StartRead(u) /\ StartStored(u)' = StartStored(u)
              /\ StopRead(u)' = StopRead(u) /\ StopStored(u)' = StopStored(u)
BY DEF At, TypeOK, Made, Met, StartRead, StartStored, StopRead, StopStored

LEMMA InitInv == Init => IInv
<1> SUFFICES ASSUME Init PROVE IInv
  OBVIOUS
<1> USE Sizes DEF Init, None
<1>1. TypeOK
  BY DEF TypeOK, Barrier!Init
<1>2. TwoCallsPerRun /\ MeetTwice
  BY DEF TwoCallsPerRun, MeetTwice, Made, Met, Barrier!Init
<1>3. StartsFirst /\ StopsLast
  BY DEF StartsFirst, StopsLast, StartRead, StartStored, StopRead, StopStored, Met
<1>4. ComputedLast /\ MeasuresItsRun
  BY DEF ComputedLast, MeasuresItsRun
<1> QED
  BY <1>1, <1>2, <1>3, <1>4 DEF IInv, StartRead

(* While an iteration is between its two calls all have made the first,    *)
(* and once one has returned from the second all have.                     *)
LEMMA Meetings ==
  ASSUME MeetTwice, NEW t \in TID, NEW u \in TID
  PROVE  /\ Met(t) >= 1 => Made(u) >= 1
         /\ Met(t) >= 2 => Made(u) >= 2
         /\ Made(u) \in 0 .. 2 /\ Met(u) \in 0 .. 2
BY DEF MeetTwice, Made, Met

(* Every action preserves the types. *)
LEMMA TypeStep == IInv /\ [Next]_vars => TypeOK' /\ (time \in Nat \ {0})'
<1> SUFFICES ASSUME IInv, [Next]_vars PROVE TypeOK' /\ (time \in Nat \ {0})'
  OBVIOUS
<1> USE Sizes
<1>i. /\ TypeOK /\ time \in Nat \ {0} /\ TwoCallsPerRun
      /\ \A tid \in TID : StartRead(tid) => RunsLeft
  BY DEF IInv
<1>1. ASSUME NEW tid \in TID, ReadStart(tid) PROVE TypeOK' /\ (time \in Nat \ {0})'
  BY <1>i, <1>1 DEF ReadStart, At, Tick, TypeOK, shared, barrier
<1>2. ASSUME NEW tid \in TID, StoreStart(tid) PROVE TypeOK' /\ (time \in Nat \ {0})'
  BY <1>i, <1>2 DEF StoreStart, At, TypeOK, barrier
<1>3. ASSUME NEW tid \in TID, Enter(tid) PROVE TypeOK' /\ (time \in Nat \ {0})'
  <2>1. calls[tid] = returns[tid] /\ calls[tid] = 2 * run + Made(tid) /\ run < NRUNS
    BY <1>i, <1>3 DEF Enter, At, Barrier!Call, Barrier!Outside, TwoCallsPerRun, StartRead, RunsLeft
  <2>2. Made(tid) \in 0 .. 1 /\ run \in Nat
    BY <1>i, <1>3 DEF Enter, At, Made, TypeOK
  <2>3. calls' = [calls EXCEPT ![tid] = @ + 1] /\ calls[tid] + 1 \in 0 .. 2 * NRUNS
    BY <2>1, <2>2, <1>3 DEF Enter, Barrier!Call
  <2>4. calls' \in [TID -> 0 .. 2 * NRUNS]
    BY <2>3, <1>i DEF TypeOK
  <2> QED
    BY <1>i, <1>3, <2>4 DEF Enter, At, TypeOK, Barrier!Call, shared
<1>4. ASSUME NEW tid \in TID, Barrier!Return(tid) PROVE returns' \in [TID -> 0 .. 2 * NRUNS]
  <2>1. returns[tid] < calls[tid]
    BY <1>i, <1>4 DEF Barrier!Return, Barrier!Outside, TwoCallsPerRun, Made, Met, TypeOK
  <2> QED
    BY <1>i, <1>4, <2>1 DEF Barrier!Return, TypeOK
<1>5. ASSUME NEW tid \in TID, BeginWork(tid) PROVE TypeOK' /\ (time \in Nat \ {0})'
  <2> DEFINE first == IF work[1] = 0 THEN time ELSE work[1]
  <2>1. first \in 0 .. time /\ work[2] \in 0 .. time
    BY <1>i DEF TypeOK
  <2>2. work' = [work EXCEPT ![1] = first]
    BY <1>5 DEF BeginWork
  <2> HIDE DEF first
  <2>3. work' = <<first, work[2]>>
    BY <1>i, <2>2 DEF TypeOK
  <2>4. work' \in (0 .. time' - 1) \X (0 .. time' - 1)
    BY <1>i, <1>5, <2>1, <2>3 DEF BeginWork, Tick
  <2>5. returns' \in [TID -> 0 .. 2 * NRUNS] /\ calls' = calls
    BY <1>4, <1>5 DEF BeginWork, Barrier!Return
  <2>6. /\ UNCHANGED <<run, t0, t1, start, stop, interval, joined>>
        /\ pc' = [pc EXCEPT ![tid] = "work"] /\ time' = time + 1
    BY <1>5 DEF BeginWork, At, Tick, shared
  <2> QED
    BY <1>i, <2>4, <2>5, <2>6 DEF TypeOK
<1>6. ASSUME NEW tid \in TID, EndWork(tid) PROVE TypeOK' /\ (time \in Nat \ {0})'
  BY <1>i, <1>6 DEF EndWork, At, Tick, TypeOK, shared, barrier
<1>7. ASSUME NEW tid \in TID, Leave(tid) PROVE TypeOK' /\ (time \in Nat \ {0})'
  BY <1>i, <1>4, <1>7 DEF Leave, Barrier!Return, At, TypeOK, shared
<1>8. ASSUME NEW tid \in TID, ReadStop(tid) PROVE TypeOK' /\ (time \in Nat \ {0})'
  BY <1>i, <1>8 DEF ReadStop, At, Tick, TypeOK, shared, barrier
<1>9. ASSUME NEW tid \in TID, StoreStop(tid) PROVE TypeOK' /\ (time \in Nat \ {0})'
  BY <1>i, <1>9 DEF StoreStop, At, TypeOK, barrier
<1>10. ASSUME NEW m \in Metric, Compute(m) PROVE TypeOK' /\ (time \in Nat \ {0})'
  BY <1>i, <1>10 DEF Compute, At, NextLine, Metric, TypeOK, shared, barrier
<1>11. CASE Join
  BY <1>i, <1>11 DEF Join, RunsLeft, None, TypeOK, shared, barrier
<1>12. CASE UNCHANGED vars
  BY <1>i, <1>12 DEF vars, TypeOK, shared, barrier
<1> QED
  BY <1>1, <1>2, <1>3, <1>5, <1>6, <1>7, <1>8, <1>9, <1>10, <1>11, <1>12
     DEF Next, Step, Spin, Results


(* Each call of an iteration is counted in its run, a call that returns    *)
(* leaves nobody behind, and only a run that is left is entered.           *)
LEMMA CallsStep ==
  IInv /\ [Next]_vars
    => /\ TwoCallsPerRun' /\ MeetTwice'
       /\ (\A tid \in TID : StartRead(tid) => RunsLeft)'
<1> DEFINE Left == \A tid \in TID : StartRead(tid) => RunsLeft
           Goal == TwoCallsPerRun' /\ MeetTwice' /\ Left'
<1> SUFFICES ASSUME IInv, [Next]_vars PROVE Goal
  OBVIOUS
<1> USE Sizes
<1>i. TypeOK /\ Left /\ TwoCallsPerRun /\ MeetTwice
  BY DEF IInv
(* A step between two calls. *)
<1>q. ASSUME NEW tid \in TID, NEW here, NEW there, At(tid, here, there),
             UNCHANGED <<run, barrier>>, here = "start" => RunsLeft, there # "start",
             Made(tid)' = Made(tid), Met(tid)' = Met(tid)
      PROVE  Goal
  <2>1. Left'
    BY <1>i, <1>q, Elsewhere DEF StartRead, RunsLeft
  <2>2. \A u \in TID : Made(u)' = Made(u) /\ Met(u)' = Met(u)
    BY <1>i, <1>q, Elsewhere
  <2> QED
    BY <1>i, <1>q, <2>1, <2>2 DEF TwoCallsPerRun, MeetTwice, barrier
<1>1. ASSUME NEW tid \in TID, ReadStart(tid) PROVE Goal
  BY <1>i, <1>1, <1>q, Elsewhere DEF ReadStart, Made, Met
<1>2. ASSUME NEW tid \in TID, StoreStart(tid) PROVE Goal
  BY <1>i, <1>2, <1>q, Elsewhere DEF StoreStart, Made, Met
<1>3. ASSUME NEW tid \in TID, Enter(tid) PROVE Goal
  <2> PICK here, there : /\ At(tid, here, there)
                         /\ <<here, there>> \in {<<"enter_first", "in_first">>,
                                               <<"enter_second", "in_second">>}
    BY <1>3 DEF Enter
  <2>1. /\ calls' = [calls EXCEPT ![tid] = @ + 1] /\ returns' = returns /\ run' = run
    BY <1>3 DEF Enter, Barrier!Call
  <2>2. Made(tid)' = Made(tid) + 1 /\ Met(tid)' = Met(tid) /\ Made(tid) \in 0 .. 2
    BY <1>i, Elsewhere DEF Made, Met
  <2>3. Left'
    BY <1>i, <2>1, Elsewhere DEF StartRead, RunsLeft
  <2>4. TwoCallsPerRun'
    <3> SUFFICES ASSUME NEW u \in TID
                 PROVE  calls'[u] = 2 * run' + Made(u)' /\ returns'[u] = 2 * run' + Met(u)'
      BY DEF TwoCallsPerRun
    <3> QED
      BY <1>i, <2>1, <2>2, Elsewhere DEF TwoCallsPerRun, TypeOK
  <2>5. MeetTwice'
    BY <1>i, <2>2, Elsewhere, Meetings DEF MeetTwice
  <2> QED
    BY <2>3, <2>4, <2>5
(* A call returns: everybody has made it. *)
<1>r. ASSUME NEW tid \in TID, NEW here, NEW there, At(tid, here, there),
             Barrier!Return(tid), run' = run, here # "start", there # "start",
             Made(tid)' = Made(tid), Met(tid)' = Met(tid) + 1
      PROVE  Goal
  <2>1. /\ returns' = [returns EXCEPT ![tid] = @ + 1] /\ calls' = calls
        /\ \A u \in TID : calls[u] >= calls[tid]
        /\ calls[tid] # returns[tid]
    BY <1>r DEF Barrier!Return, Barrier!Outside
  <2>2. Left'
    BY <1>i, <1>r, Elsewhere DEF StartRead, RunsLeft
  <2>3. TwoCallsPerRun'
    <3> SUFFICES ASSUME NEW u \in TID
                 PROVE  calls'[u] = 2 * run' + Made(u)' /\ returns'[u] = 2 * run' + Met(u)'
      BY DEF TwoCallsPerRun
    <3> QED
      BY <1>i, <1>r, <2>1, Elsewhere, Meetings DEF TwoCallsPerRun, TypeOK
  <2>4. \A u \in TID : Met(tid)' <= Made(u)'
    <3> TAKE u \in TID
    <3>1. Met(tid) <= Made(tid) /\ Met(tid) # Made(tid) /\ Made(tid) <= Made(u)
      BY <1>i, <2>1, Meetings DEF TwoCallsPerRun, MeetTwice, TypeOK
    <3>2. Made(u)' = Made(u)
      BY <1>i, <1>r, Elsewhere
    <3> QED
      BY <1>i, <1>r, <3>1, <3>2, Meetings
  <2>5. MeetTwice'
    BY <1>i, <1>r, <2>4, Elsewhere DEF MeetTwice
  <2> QED
    BY <2>2, <2>3, <2>5
<1>4. ASSUME NEW tid \in TID, BeginWork(tid) PROVE Goal
  BY <1>i, <1>4, <1>r, Elsewhere DEF BeginWork, Made, Met
<1>5. ASSUME NEW tid \in TID, EndWork(tid) PROVE Goal
  BY <1>i, <1>5, <1>q, Elsewhere DEF EndWork, Made, Met
<1>6. ASSUME NEW tid \in TID, Leave(tid) PROVE Goal
  BY <1>i, <1>6, <1>r, Elsewhere DEF Leave, Made, Met
<1>7. ASSUME NEW tid \in TID, ReadStop(tid) PROVE Goal
  BY <1>i, <1>7, <1>q, Elsewhere DEF ReadStop, Made, Met
<1>8. ASSUME NEW tid \in TID, StoreStop(tid) PROVE Goal
  BY <1>i, <1>8, <1>q, Elsewhere DEF StoreStop, Made, Met
<1>9. ASSUME NEW m \in Metric, Compute(m) PROVE Goal
  <2>1. m \in {"flops", "bandwidth", "execTime"} /\ NextLine[m] \in {"bandwidth", "execTime", "done"}
    BY DEF Metric, NextLine
  <2> QED
    BY <1>i, <1>9, <2>1, <1>q, Elsewhere DEF Compute, Made, Met
<1>10. CASE Join
  <2>1. \A u \in TID : pc[u] = "done" /\ pc'[u] = "start"
    BY <1>10 DEF Join
  <2>2. \A u \in TID : Made(u) = 2 /\ Met(u) = 2 /\ Made(u)' = 0 /\ Met(u)' = 0
    BY <2>1 DEF Made, Met
  <2>3. run' = run + 1 /\ run \in Nat /\ calls' = calls /\ returns' = returns
    BY <1>i, <1>10 DEF Join, TypeOK, barrier
  <2> QED
    BY <1>i, <2>1, <2>2, <2>3 DEF TwoCallsPerRun, MeetTwice, StartRead
<1>11. CASE UNCHANGED vars
  BY <1>i, <1>11 DEF vars, barrier, TwoCallsPerRun, MeetTwice, Made, Met, StartRead, RunsLeft
<1> QED
  BY <1>1, <1>2, <1>3, <1>4, <1>5, <1>6, <1>7, <1>8, <1>9, <1>10, <1>11
     DEF Next, Step, Spin, Results


(* Stamps and work are times the clock has passed. *)
LEMMA Times ==
  ASSUME TypeOK, time \in Nat \ {0}
  PROVE  /\ \A tid \in TID : /\ start[tid] \in Nat /\ start[tid] < time
                            /\ stop[tid] \in Nat /\ stop[tid] < time
         /\ t0 \in Nat /\ t0 < time /\ t1 \in Nat /\ t1 < time
         /\ joined \in Nat /\ joined <= time
         /\ work[1] \in Nat /\ work[1] < time /\ work[2] \in Nat /\ work[2] < time
         /\ work = <<work[1], work[2]>>
BY DEF TypeOK

(* The stamps of the start of a run precede its work: t0 is not stored any *)
(* more when an iteration is past the first Barrier.                       *)
LEMMA StartsStep == IInv /\ [Next]_vars => StartsFirst'
<1> SUFFICES ASSUME IInv, [Next]_vars PROVE StartsFirst'
  OBVIOUS
<1> USE Sizes
<1>i. /\ TypeOK /\ time \in Nat \ {0} /\ MeetTwice /\ StartsFirst
  BY DEF IInv
<1>t. \A u \in TID : Met(u) > 0 => \A v \in TID : Made(v) > 0
  BY <1>i DEF MeetTwice, Made, Met
(* A step that stamps no start and begins no work. *)
<1>q. ASSUME NEW tid \in TID, NEW here, NEW there, At(tid, here, there),
             UNCHANGED <<joined, start, t0>>, work'[1] = work[1],
             here \notin {"start", "store_t0", "in_first"},
             there \notin {"start", "store_t0", "enter_first"},
             here = "enter_first" => there = "in_first"
      PROVE  StartsFirst'
  <2>1. /\ StartRead(tid) /\ StartStored(tid) /\ (Met(tid)' > 0 => Met(tid) > 0)
        /\ Made(tid)' > 0
    BY <1>i, <1>q DEF At, StartRead, StartStored, Met, Made, TypeOK
  <2> QED
    BY <1>i, <1>q, <2>1, Elsewhere DEF StartsFirst
<1>1. ASSUME NEW tid \in TID, ReadStart(tid) PROVE StartsFirst'
  <2>1. /\ At(tid, "start", "store_t0") /\ UNCHANGED <<joined, t0, work>>
        /\ start' = [start EXCEPT ![tid] = time]
    BY <1>1 DEF ReadStart, shared
  <2>2. /\ ~StartStored(tid)' /\ Met(tid)' = 0 /\ Made(tid) = 0
    BY <1>i, <2>1 DEF At, StartStored, Met, Made, TypeOK
  <2>3. work[1] = 0
    BY <1>i, <2>2 DEF StartsFirst
  <2>4. start' \in [TID -> Nat] /\ start'[tid] = time
        /\ \A u \in TID : u # tid => start'[u] = start[u]
    BY <1>i, <2>1 DEF TypeOK
  <2> QED
    BY <1>i, <2>1, <2>2, <2>3, <2>4, Elsewhere, Times DEF StartsFirst
<1>2. ASSUME NEW tid \in TID, StoreStart(tid) PROVE StartsFirst'
  <2>1. /\ At(tid, "store_t0", "enter_first") /\ UNCHANGED <<joined, start, work>>
        /\ t0' = start[tid]
    BY <1>2 DEF StoreStart
  <2>2. /\ StartRead(tid) /\ Met(tid)' = 0 /\ Made(tid) = 0
    BY <1>i, <2>1 DEF At, StartRead, Met, Made, TypeOK
  <2>3. work[1] = 0
    BY <1>i, <2>2 DEF StartsFirst
  <2> QED
    BY <1>i, <2>1, <2>2, <2>3, Elsewhere DEF StartsFirst
<1>3. ASSUME NEW tid \in TID, Enter(tid) PROVE StartsFirst'
  BY <1>3, <1>q DEF Enter, shared
<1>4. ASSUME NEW tid \in TID, BeginWork(tid) PROVE StartsFirst'
  <2>1. /\ At(tid, "in_first", "work") /\ UNCHANGED <<joined, start, t0>>
        /\ Barrier!Return(tid)
        /\ work' = [work EXCEPT ![1] = IF @ = 0 THEN time ELSE @]
    BY <1>4 DEF BeginWork, shared
  <2>2. work'[1] = IF work[1] = 0 THEN time ELSE work[1]
    BY <1>i, <2>1 DEF TypeOK
  <2>3. StartRead(tid) /\ StartStored(tid) /\ Made(tid)' = 1
    BY <1>i, <2>1 DEF At, StartRead, StartStored, Made, TypeOK
  <2>4. \A u \in TID : Made(u)' > 0
    <3>1. MeetTwice'
      BY CallsStep
    <3>2. Met(tid)' = 1
      BY <1>i, <2>1 DEF At, Met, TypeOK
    <3> QED
      BY <3>1, <3>2 DEF MeetTwice, Made
  <2> QED
    BY <1>i, <2>1, <2>2, <2>3, <2>4, Elsewhere, Times DEF StartsFirst
<1>5. ASSUME NEW tid \in TID, EndWork(tid) PROVE StartsFirst'
  <2>1. work'[1] = work[1]
    BY <1>i, <1>5 DEF EndWork, TypeOK
  <2> QED
    BY <1>5, <2>1, <1>q DEF EndWork, shared
<1>6. ASSUME NEW tid \in TID, Leave(tid) PROVE StartsFirst'
  BY <1>6, <1>q DEF Leave, shared
<1>7. ASSUME NEW tid \in TID, ReadStop(tid) PROVE StartsFirst'
  BY <1>7, <1>q DEF ReadStop, shared
<1>8. ASSUME NEW tid \in TID, StoreStop(tid) PROVE StartsFirst'
  BY <1>8, <1>q DEF StoreStop
<1>9. ASSUME NEW m \in Metric, Compute(m) PROVE StartsFirst'
  <2>1. m \in {"flops", "bandwidth", "execTime"} /\ NextLine[m] \in {"bandwidth", "execTime", "done"}
    BY DEF Metric, NextLine
  <2> QED
    BY <1>9, <2>1, <1>q DEF Compute, shared
<1>10. CASE Join
  BY <1>i, <1>10, Times DEF Join, StartsFirst, StartRead, StartStored, Met, None
<1>11. CASE UNCHANGED vars
  BY <1>i, <1>11 DEF vars, shared, StartsFirst, StartRead, StartStored, Met, Made
<1> QED
  BY <1>1, <1>2, <1>3, <1>4, <1>5, <1>6, <1>7, <1>8, <1>9, <1>10, <1>11
     DEF Next, Step, Spin, Results


(* The stamps of the stop of a run follow its work: nobody works any more  *)
(* when an iteration is past the second Barrier.                           *)
LEMMA StopsStep == IInv /\ [Next]_vars => StopsLast'
<1> SUFFICES ASSUME IInv, [Next]_vars PROVE StopsLast'
  OBVIOUS
<1> USE Sizes
<1>i. /\ TypeOK /\ time \in Nat \ {0} /\ MeetTwice /\ StopsLast
  BY DEF IInv
<1>t. \A u \in TID : StopRead(u) \/ StopStored(u) => \A v \in TID : Made(v) = 2
  BY <1>i DEF MeetTwice, Made, Met, StopRead, StopStored
(* A step that takes and stores no stop. *)
<1>q. ASSUME NEW tid \in TID, NEW here, NEW there, At(tid, here, there),
             UNCHANGED <<stop, t1>>,
             work'[2] = work[2] \/ Made(tid) = 1,
             StopRead(tid)' => StopRead(tid), StopStored(tid)' => StopStored(tid)
      PROVE  StopsLast'
  <2>1. ASSUME NEW u \in TID, StopRead(u)' PROVE StopRead(u) /\ work'[2] = work[2]
    BY <1>i, <1>t, <1>q, <2>1, Elsewhere
  <2>2. ASSUME NEW u \in TID, StopStored(u)' PROVE StopStored(u) /\ work'[2] = work[2]
    BY <1>i, <1>t, <1>q, <2>2, Elsewhere
  <2> QED
    BY <1>i, <1>q, <2>1, <2>2 DEF StopsLast
<1>1. ASSUME NEW tid \in TID, ReadStart(tid) PROVE StopsLast'
  BY <1>i, <1>1, <1>q, Elsewhere DEF ReadStart, shared, StopRead, StopStored
<1>2. ASSUME NEW tid \in TID, StoreStart(tid) PROVE StopsLast'
  BY <1>i, <1>2, <1>q, Elsewhere DEF StoreStart, StopRead, StopStored
<1>3. ASSUME NEW tid \in TID, Enter(tid) PROVE StopsLast'
  BY <1>i, <1>3, <1>q, Elsewhere DEF Enter, shared, StopRead, StopStored
<1>4. ASSUME NEW tid \in TID, BeginWork(tid) PROVE StopsLast'
  <2>1. work'[2] = work[2]
    BY <1>i, <1>4 DEF BeginWork, TypeOK
  <2> QED
    BY <1>i, <1>4, <2>1, <1>q, Elsewhere DEF BeginWork, shared, StopRead, StopStored
<1>5. ASSUME NEW tid \in TID, EndWork(tid) PROVE StopsLast'
  <2>1. Made(tid) = 1
    BY <1>5 DEF EndWork, At, Made
  <2> QED
    BY <1>i, <1>5, <2>1, <1>q, Elsewhere DEF EndWork, shared, StopRead, StopStored
<1>6. ASSUME NEW tid \in TID, Leave(tid) PROVE StopsLast'
  BY <1>i, <1>6, <1>q, Elsewhere DEF Leave, shared, StopRead, StopStored
<1>7. ASSUME NEW tid \in TID, ReadStop(tid) PROVE StopsLast'
  <2>1. /\ At(tid, "read_t1", "store_t1") /\ UNCHANGED <<work, t1>>
        /\ stop'[tid] = time /\ \A u \in TID : u # tid => stop'[u] = stop[u]
    BY <1>i, <1>7 DEF ReadStop, shared, TypeOK
  <2>2. ~StopStored(tid)'
    BY <1>i, <2>1, Elsewhere DEF StopStored
  <2> QED
    BY <1>i, <2>1, <2>2, Elsewhere, Times DEF StopsLast
<1>8. ASSUME NEW tid \in TID, StoreStop(tid) PROVE StopsLast'
  <2>1. /\ At(tid, "store_t1", IF tid = 0 THEN "flops" ELSE "done") /\ UNCHANGED <<work, stop>>
        /\ t1' = stop[tid] /\ StopRead(tid)
    BY <1>8 DEF StoreStop, At, StopRead
  <2> QED
    BY <1>i, <2>1, Elsewhere DEF StopsLast
<1>9. ASSUME NEW m \in Metric, Compute(m) PROVE StopsLast'
  <2>1. m \in {"flops", "bandwidth", "execTime"} /\ NextLine[m] \in {"bandwidth", "execTime", "done"}
    BY DEF Metric, NextLine
  <2>2. StopRead(0) /\ StopStored(0)
    BY <1>9, <2>1 DEF Compute, At, StopRead, StopStored
  <2> QED
    BY <1>9, <2>2, <1>q DEF Compute, shared
<1>10. CASE Join
  BY <1>10 DEF Join, StopsLast, StopRead, StopStored
<1>11. CASE UNCHANGED vars
  BY <1>i, <1>11 DEF vars, shared, StopsLast, StopRead, StopStored
<1> QED
  BY <1>1, <1>2, <1>3, <1>4, <1>5, <1>6, <1>7, <1>8, <1>9, <1>10, <1>11
     DEF Next, Step, Spin, Results

(* A result is computed when the run's work is over, of stamps that hold   *)
(* it, and is not overtaken by work: what it was computed of stands.       *)
LEMMA ResultsStep == IInv /\ [Next]_vars => ComputedLast' /\ MeasuresItsRun'
<1> DEFINE Goal == ComputedLast' /\ MeasuresItsRun'
<1> SUFFICES ASSUME IInv, [Next]_vars PROVE Goal
  OBVIOUS
<1> USE Sizes
<1>i. /\ TypeOK /\ time \in Nat \ {0} /\ MeetTwice /\ StartsFirst /\ StopsLast
      /\ ComputedLast /\ MeasuresItsRun
  BY DEF IInv
<1>t. pc[0] \in {"bandwidth", "execTime", "done"} => \A v \in TID : Made(v) = 2
  BY <1>i DEF MeetTwice, Made, Met
(* A step that computes nothing. *)
<1>q. ASSUME NEW tid \in TID, NEW here, NEW there, At(tid, here, there),
             UNCHANGED <<interval, joined>>, here \notin {"bandwidth", "execTime", "done"},
             work' = work \/ Made(tid) < 2
      PROVE  Goal
  <2>1. ASSUME NEW m \in Metric, interval'[m] # None
        PROVE  /\ pc'[0] \in {"bandwidth", "execTime", "done"}
               /\ work' = work
    <3>1. pc[0] \in {"bandwidth", "execTime", "done"}
      BY <1>i, <1>q, <2>1 DEF ComputedLast
    <3>2. tid # 0
      BY <1>q, <3>1 DEF At
    <3> QED
      BY <1>i, <1>t, <1>q, <3>1, <3>2, Elsewhere
  <2> QED
    BY <1>i, <1>q, <2>1 DEF ComputedLast, MeasuresItsRun
<1>1. ASSUME NEW tid \in TID, ReadStart(tid) PROVE Goal
  BY <1>1, <1>q DEF ReadStart
<1>2. ASSUME NEW tid \in TID, StoreStart(tid) PROVE Goal
  BY <1>2, <1>q DEF StoreStart
<1>3. ASSUME NEW tid \in TID, Enter(tid) PROVE Goal
  BY <1>3, <1>q DEF Enter
<1>4. ASSUME NEW tid \in TID, BeginWork(tid) PROVE Goal
  <2>1. Made(tid) = 1
    BY <1>4 DEF BeginWork, At, Made
  <2> QED
    BY <1>4, <2>1, <1>q DEF BeginWork
<1>5. ASSUME NEW tid \in TID, EndWork(tid) PROVE Goal
  <2>1. Made(tid) = 1
    BY <1>5 DEF EndWork, At, Made
  <2> QED
    BY <1>5, <2>1, <1>q DEF EndWork
<1>6. ASSUME NEW tid \in TID, Leave(tid) PROVE Goal
  BY <1>6, <1>q DEF Leave
<1>7. ASSUME NEW tid \in TID, ReadStop(tid) PROVE Goal
  BY <1>7, <1>q DEF ReadStop
<1>8. ASSUME NEW tid \in TID, StoreStop(tid) PROVE Goal
  BY <1>8, <1>q DEF StoreStop
<1>9. ASSUME NEW m \in Metric, Compute(m) PROVE Goal
  <2>1. m \in {"flops", "bandwidth", "execTime"} /\ NextLine[m] \in {"bandwidth", "execTime", "done"}
    BY DEF Metric, NextLine
  <2>2. /\ pc[0] = m /\ pc'[0] = NextLine[m] /\ UNCHANGED <<joined, work>>
    BY <1>9, Elsewhere, <1>i DEF Compute
  <2>3. /\ StartRead(0) /\ StartStored(0) /\ StopRead(0) /\ StopStored(0) /\ Met(0) > 0
    BY <2>1, <2>2 DEF StartRead, StartStored, StopRead, StopStored, Met
  <2>4. PICK from \in {t0, start[0]}, to \in {t1, stop[0]} :
          interval' = [interval EXCEPT ![m] = <<from, to>>]
    BY <1>9 DEF Compute
  <2>5. joined <= from /\ from < work[1] /\ work[2] < to
    BY <1>i, <2>3 DEF StartsFirst, StopsLast
  <2>6. \A k \in Metric : interval'[k] = IF k = m THEN <<from, to>> ELSE interval[k]
    BY <1>i, <2>4 DEF TypeOK
  <2>7. ComputedLast'
    BY <2>1, <2>2 DEF ComputedLast
  <2>8. MeasuresItsRun'
    BY <1>i, <2>2, <2>5, <2>6 DEF MeasuresItsRun
  <2> QED
    BY <2>7, <2>8
<1>10. CASE Join
  BY <1>10 DEF Join, ComputedLast, MeasuresItsRun
<1>11. CASE UNCHANGED vars
  BY <1>i, <1>11 DEF vars, ComputedLast, MeasuresItsRun
<1> QED
  BY <1>1, <1>2, <1>3, <1>4, <1>5, <1>6, <1>7, <1>8, <1>9, <1>10, <1>11
     DEF Next, Step, Spin, Results

(* IInv is an invariant of the measurement loop of bench.c.                *)
THEOREM Invariance == Spec => []IInv
<1>1. IInv /\ [Next]_vars => IInv'
  BY TypeStep, CallsStep, StartsStep, StopsStep, ResultsStep DEF IInv
<1> QED
  BY InitInv, <1>1, PTL DEF Spec

(* The loop counters, the stamps and the counters of Barrier keep to their *)
(* ranges: an iteration calls Barrier at most twice in every run.          *)
THEOREM TypeCorrect == Spec => []TypeOK
<1>1. IInv => TypeOK
  BY DEF IInv
<1> QED
  BY Invariance, <1>1, PTL

(* Every (t1 - t0) a result of bench.c is computed of holds all the work   *)
(* of all the threads in its run and nothing of an earlier run, although   *)
(* the threads overwrite one t0 and one t1.                                *)
THEOREM MeasuresItsRunHolds == Spec => []MeasuresItsRun
<1>1. IInv => MeasuresItsRun
  BY DEF IInv
<1> QED
  BY Invariance, <1>1, PTL

-----------------------------------------------------------------------------
(* Whether the runs end: it is the size of the team that decides.          *)

(* Dividing the iterations among a team that is not larger.                *)
LEMMA Division ==
  /\ nthreads \div Team \in Nat \ {0} /\ nthreads % Team \in 0 .. Team - 1
  /\ nthreads = Team * (nthreads \div Team) + (nthreads % Team)
<1> DEFINE q == nthreads \div Team
           r == nthreads % Team
<1>1. Team \in Nat \ {0} /\ nthreads \in Nat \ {0} /\ Team <= nthreads
  BY SizeAssumption
<1>2. q \in Nat /\ r \in 0 .. Team - 1 /\ nthreads = Team * q + r
  BY <1>1
<1>3. q # 0
  BY <1>1, <1>2
<1> QED
  BY <1>2, <1>3

(* In a team smaller than the loop the first member has iterations 0 and 1 *)
(* in its chunk.                                                           *)
LEMMA SecondIteration == Team < nthreads => 1 \in TID /\ 1 \notin First
<1> DEFINE q == nthreads \div Team
           r == nthreads % Team
           Extra(k) == IF k < r THEN k ELSE r
<1> SUFFICES ASSUME Team < nthreads PROVE 1 \in TID /\ 1 \notin First
  OBVIOUS
<1>1. Team \in Nat \ {0} /\ nthreads \in Nat \ {0} /\ Team < nthreads
  BY SizeAssumption
<1>2. q \in Nat \ {0} /\ r \in 0 .. Team - 1 /\ nthreads = Team * q + r
  BY Division
<1>3. ASSUME NEW k \in 0 .. Team - 1, ChunkStart(k) = 1 PROVE FALSE
  <2> HIDE DEF q, r
  <2>1. k * q + Extra(k) = 1
    BY <1>3 DEF ChunkStart, q, r
  <2>2. k # 0
    BY <1>2, <2>1
  <2>3. k * q >= k /\ k * q >= q /\ k * q \in Nat
    BY <1>2, <2>2
  <2>4. Extra(k) \in Nat /\ (r > 0 => Extra(k) > 0)
    BY <1>2, <2>2
  <2>5. r = 0 /\ q = 1
    BY <1>2, <2>1, <2>2, <2>3, <2>4
  <2> QED
    BY <1>1, <1>2, <2>5
<1> QED
  BY <1>1, <1>3 DEF First, TID

(* In a team of one thread per iteration each begins its own.              *)
LEMMA EveryIteration == Team = nthreads => First = TID
<1> SUFFICES ASSUME Team = nthreads PROVE First = TID
  OBVIOUS
<1>1. nthreads \in Nat \ {0}
  BY SizeAssumption
<1>2. nthreads \div Team = 1 /\ nthreads % Team = 0
  <2> DEFINE q == nthreads \div Team
             r == nthreads % Team
  <2>1. q \in Nat \ {0} /\ r \in 0 .. nthreads - 1 /\ nthreads = nthreads * q + r
    BY Division
  <2> HIDE DEF q, r
  <2>2. nthreads * q >= nthreads
    BY <1>1, <2>1
  <2>3. r = 0 /\ nthreads * q = nthreads
    BY <1>1, <2>1, <2>2
  <2>4. q = 1
    BY <1>1, <2>1, <2>3
  <2> QED
    BY <2>3, <2>4 DEF q, r
<1>3. \A k \in TID : ChunkStart(k) = k
  BY <1>1, <1>2 DEF ChunkStart, TID
<1> QED
  BY <1>3 DEF First, TID

(* An iteration that is behind the first one in its chunk never starts:    *)
(* the first one waits in Barrier for it, and it waits for the first one   *)
(* to be done.  With fewer threads than nthreads bench.c never ends a run, *)
(* whatever the schedule.                                                  *)
THEOREM SmallTeamHangs == Team < nthreads => (Spec => [](run = 0 /\ pc[1] = "start"))
<1> DEFINE Stuck == run = 0 /\ pc[1] = "start"
<1> SUFFICES ASSUME Team < nthreads PROVE Spec => []Stuck
  OBVIOUS
<1>1. 0 \in TID /\ 1 \in TID /\ 1 \notin First
  BY SecondIteration, Sizes
<1>2. Init => Stuck
  BY <1>1 DEF Init
<1>3. Stuck /\ IInv /\ [Next]_vars => Stuck'
  <2> SUFFICES ASSUME Stuck, IInv, [Next]_vars PROVE Stuck'
    OBVIOUS
  <2>1. TypeOK /\ pc[0] # "done"
    <3>1. Met(0) <= Made(1) /\ Made(1) = 0
      BY <1>1 DEF IInv, MeetTwice, Made
    <3> QED
      BY <3>1 DEF IInv, Met
  <2>2. ~ReadStart(1) /\ ~Join
    BY <1>1, <2>1 DEF ReadStart, Join
  <2>3. ASSUME NEW tid \in TID, Step(tid), ~Spin(tid) PROVE Stuck'
    <3>1. tid # 1
      BY <2>2, <2>3 DEF Step, StoreStart, Enter, BeginWork, EndWork, Leave, ReadStop, StoreStop, At
    <3>2. run' = run /\ \E there : pc' = [pc EXCEPT ![tid] = there]
      BY <2>3 DEF Step, ReadStart, StoreStart, Enter, BeginWork, EndWork, Leave, ReadStop, StoreStop, At
    <3> QED
      BY <1>1, <2>1, <3>1, <3>2 DEF TypeOK
  <2>4. ASSUME NEW m \in Metric, Compute(m) PROVE Stuck'
    BY <1>1, <2>1, <2>4 DEF Compute, At, TypeOK
  <2>5. CASE UNCHANGED vars
    BY <2>5 DEF vars
  <2> QED
    BY <2>2, <2>3, <2>4, <2>5 DEF Next, Results, Spin
<1> QED
  BY <1>2, <1>3, Invariance, PTL DEF Spec

(* Iteration tid can do nothing of its own before another one has moved:   *)
(* it spins in a call of Barrier, its executor has not come to it, or it   *)
(* is done.                                                                *)
Held(tid) ==
  \/ pc[tid] \in {"in_first", "in_second"} /\ \E u \in TID : calls[u] < calls[tid]
  \/ pc[tid] = "start" /\ tid \notin First /\ pc[tid - 1] # "done"
  \/ pc[tid] = "done"

(* With one thread per iteration the calls of Barrier never hold all of    *)
(* them: until the last run is over some iteration can go on, or all are   *)
(* done and joined.                                                        *)
THEOREM FullTeamMoves ==
  Team = nthreads =>
    (Spec => [](run = NRUNS \/ (\A tid \in TID : pc[tid] = "done") \/ \E tid \in TID : ~Held(tid)))
<1> DEFINE Moves == run = NRUNS \/ (\A tid \in TID : pc[tid] = "done") \/ \E tid \in TID : ~Held(tid)
<1> SUFFICES ASSUME Team = nthreads PROVE Spec => []Moves
  OBVIOUS
<1>1. IInv => Moves
  <2> SUFFICES ASSUME IInv, \A tid \in TID : Held(tid), NEW t \in TID, pc[t] # "done" PROVE FALSE
    OBVIOUS
  <2>1. First = TID /\ TwoCallsPerRun /\ MeetTwice /\ run \in Nat
    BY EveryIteration, Sizes DEF IInv, TypeOK
  <2>2. \A tid \in TID : Held(tid) => pc[tid] \in {"in_first", "in_second", "done"}
    BY <2>1 DEF Held
  <2>3. PICK u \in TID : calls[u] < calls[t]
    BY <2>1 DEF Held
  <2>4. Made(u) < Made(t)
    BY <2>1, <2>3 DEF TwoCallsPerRun, Made
  <2>5. pc[u] = "in_first"
    BY <2>2, <2>4 DEF Made
  <2>6. PICK v \in TID : calls[v] < calls[u]
    BY <2>5 DEF Held
  <2>7. Made(v) < Made(u) /\ Made(u) = 1
    BY <2>1, <2>5, <2>6 DEF TwoCallsPerRun, Made
  <2> QED
    BY <2>2, <2>7 DEF Made
<1> QED
  BY <1>1, Invariance, PTL

=============================================================================
