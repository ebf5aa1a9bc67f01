------------------------- MODULE WorkerPool_proofs --------------------------
(***************************************************************************)
(* The pool keeps its limits and leaves nothing running, for every manager *)
(* and every depth of the queues.                                          *)
(***************************************************************************)
EXTENDS WorkerPool, TLAPS

\* An engine that still runs, or will, is one whose stop() is yet to be called.
Covered == \A e \in 1 .. made : phase[e] \in {"new", "running"} => e \in calls

\* Where the manager is decides whether it runs, and what it has made.
Stages ==
  /\ api = "up" => cleared = 0
  /\ api = "up" /\ ~running => monitor = "none" /\ made = 0
  /\ api # "up" => ~running /\ monitor = "ended"
  /\ api = "stopping" => Covered
  /\ NothingLeftRunning

PoolInv == TypeOK /\ Stages /\ PoolWithinLimits

\* How many engines are made, and that they leave room.
LEMMA SpawnedBounds ==
  ASSUME TypeOK, NEW n \in Nat
  PROVE  /\ Spawned(n) \in Nat
         /\ n = 0 \/ Size >= limits.max => Spawned(n) = 0
         /\ Size <= limits.max =>
              /\ Size + Spawned(n) <= limits.max
              /\ Size + Spawned(n) = Least(Size + n, limits.max)
<1>1. limits.max \in Nat /\ Size \in Nat
  BY LimitsAssumption DEF TypeOK, Size
<1>2. QED
  BY <1>1 DEF Spawned, Least

\* The number of engines a pass wants is a number.
LEMMA DesiredNat ==
  ASSUME TypeOK, NEW n \in Nat
  PROVE  Desired(n) \in Nat
BY LimitsAssumption DEF TypeOK, Desired

\* The initial state satisfies the invariant.
LEMMA InitPool == Init => PoolInv
<1>1. SUFFICES ASSUME Init PROVE PoolInv
  OBVIOUS
<1>2. TypeOK
  <2>1. phase \in [1 .. made -> {"new", "running", "stopping", "stopped"}]
    BY <1>1 DEF Init
  <2>2. reads \in 0 .. Queues - 1 /\ total \in Nat
    BY <1>1 DEF Init, Queues
  <2>3. made \in Nat /\ cleared \in 0 .. made /\ handler \in 0 .. made
    BY <1>1 DEF Init
  <2>4. calls \subseteq 1 .. made /\ waits \subseteq 1 .. made
    BY <1>1 DEF Init
  <2>5. QED
    BY <1>1, <2>1, <2>2, <2>3, <2>4 DEF Init, TypeOK
<1>3. Stages /\ PoolWithinLimits
  BY <1>1 DEF Init, Stages, NothingLeftRunning, PoolWithinLimits
<1>4. QED
  BY <1>2, <1>3 DEF PoolInv

\* Engines that are added are new and all within the limits.
LEMMA ScaleUpKeeps ==
  ASSUME TypeOK, NEW n \in Nat, ScaleUp(n)
  PROVE  /\ made' \in Nat /\ made <= made' /\ cleared' = cleared
         /\ phase' \in [1 .. made' -> {"new", "running", "stopping", "stopped"}]
         /\ Size <= limits.max => Size' = Least(Size + n, limits.max)
<1>1. Spawned(n) \in Nat
  BY SpawnedBounds
<1>2. made' = made + Spawned(n) /\ cleared' = cleared
  BY DEF ScaleUp
<1>3. phase' \in [1 .. made' -> {"new", "running", "stopping", "stopped"}]
  BY <1>1, <1>2 DEF ScaleUp, TypeOK
<1>4. Size \in Nat /\ Size' = Size + Spawned(n)
  BY <1>1, <1>2 DEF Size, TypeOK
<1>5. made' \in Nat /\ made <= made'
  BY <1>1, <1>2 DEF TypeOK
<1>6. Size <= limits.max => Size + Spawned(n) = Least(Size + n, limits.max)
  BY SpawnedBounds
<1>7. QED
  BY <1>2, <1>3, <1>4, <1>5, <1>6

\* What a pass makes keeps the pool within its maximum.
LEMMA ScaleKeeps ==
  ASSUME TypeOK, NEW depth \in Nat, Scale(depth), Size <= limits.max
  PROVE  /\ made' \in Nat /\ made <= made' /\ cleared' = cleared
         /\ phase' \in [1 .. made' -> {"new", "running", "stopping", "stopped"}]
         /\ Size <= Size' /\ Size' <= limits.max
<1>0. limits.max \in Nat /\ Size \in Nat /\ Desired(depth) \in Nat
  BY LimitsAssumption, DesiredNat DEF TypeOK, Size
<1>1. CASE CleanupRaises \/ Size >= Desired(depth)
  BY <1>0, <1>1 DEF Scale, engineVars, TypeOK, Size
<1>2. CASE ~(CleanupRaises \/ Size >= Desired(depth))
  <2>1. Desired(depth) - Size \in Nat /\ ScaleUp(Desired(depth) - Size)
    BY <1>0, <1>2 DEF Scale
  <2>2. Size' = Least(Size + (Desired(depth) - Size), limits.max)
    BY <2>1, ScaleUpKeeps
  <2>3. Size <= Size' /\ Size' <= limits.max
    BY <2>2, <1>0, <1>2 DEF Least
  <2>4. QED
    BY <2>1, <2>3, ScaleUpKeeps
<1>3. QED
  BY <1>1, <1>2

\* A step keeps the invariant.
LEMMA StepKeeps ==
  ASSUME PoolInv, [Next]_vars
  PROVE  PoolInv'
<1> USE DEF PoolInv
<1>0. /\ TypeOK /\ Stages /\ PoolWithinLimits
      /\ limits.min \in Nat /\ limits.max \in Nat
  BY LimitsAssumption DEF TypeOK
<1>1. CASE Start
  <2>1. ScaleUp(limits.min) /\ made = 0 /\ cleared = 0 /\ limits' = limits /\ running'
    BY <1>0, <1>1 DEF Start, Stages
  <2>2. /\ made' \in Nat /\ made <= made' /\ cleared' = cleared
        /\ phase' \in [1 .. made' -> {"new", "running", "stopping", "stopped"}]
        /\ Size <= limits.max => Size' = Least(Size + limits.min, limits.max)
    BY <1>0, <2>1, ScaleUpKeeps
  <2>3. Size = 0 /\ Size' = Least(limits.min, limits.max)
    BY <1>0, <2>1, <2>2 DEF Size
  <2>4. PoolWithinLimits'
    BY <1>0, <2>1, <2>3 DEF PoolWithinLimits, Least
  <2>5. TypeOK'
    BY <1>0, <1>1, <2>1, <2>2 DEF Start, TypeOK, stopVars
  <2>6. Stages'
    BY <1>0, <1>1, <2>1, <2>2 DEF Start, Stages, NothingLeftRunning, Covered
  <2>7. QED
    BY <2>4, <2>5, <2>6
<1>2. CASE Read
  <2>1. PICK depth \in Depths :
          IF LastRead
          THEN /\ Scale(total + depth)
               /\ monitor' = "asleep" /\ reads' = 0 /\ total' = 0
          ELSE /\ reads' = reads + 1 /\ total' = total + depth
               /\ UNCHANGED <<monitor, engineVars>>
    BY <1>2 DEF Read
  <2>2. depth \in Nat /\ total + depth \in Nat
    BY <1>0, DepthsAssumption DEF TypeOK
  <2>3. running /\ api = "up" /\ cleared = 0
    BY <1>0, <1>2 DEF Read, Stages, TypeOK
  <2>4. CASE LastRead
    <3>1. Size <= limits.max /\ Size >= Least(limits.min, limits.max)
      BY <1>0, <2>3 DEF PoolWithinLimits
    <3>2. /\ made' \in Nat /\ made <= made' /\ cleared' = cleared
          /\ phase' \in [1 .. made' -> {"new", "running", "stopping", "stopped"}]
          /\ Size <= Size' /\ Size' <= limits.max
      BY <1>0, <2>1, <2>2, <2>4, <3>1, ScaleKeeps
    <3>3. TypeOK'
      BY <1>0, <1>2, <2>1, <2>4, <3>2 DEF Read, TypeOK, stopVars, Queues
    <3>4. Stages'
      BY <1>0, <1>2, <2>3, <3>2 DEF Read, Stages, NothingLeftRunning
    <3>5. PoolWithinLimits'
      <4>1. Size \in Int /\ Size' \in Int
        BY <1>0, <3>2 DEF Size, TypeOK
      <4>2. limits' = limits
        BY <1>2 DEF Read
      <4>3. QED
        BY <1>0, <3>1, <3>2, <4>1, <4>2 DEF PoolWithinLimits, Least
    <3>6. QED
      BY <3>3, <3>4, <3>5
  <2>5. CASE ~LastRead
    <3>1. TypeOK'
      BY <1>0, <1>2, <2>1, <2>2, <2>5
      DEF Read, TypeOK, stopVars, engineVars, LastRead, Queues
    <3>2. Stages' /\ PoolWithinLimits'
      BY <1>0, <1>2, <2>1, <2>3, <2>5
      DEF Read, Stages, NothingLeftRunning, PoolWithinLimits, Size, engineVars
    <3>3. QED
      BY <3>1, <3>2
  <2>6. QED
    BY <2>4, <2>5
<1>3. CASE Poll \/ ReadFails \/ Wake
  <2>1. /\ UNCHANGED <<limits, api, running, made, cleared, phase, calls, waits, handler>>
        /\ monitor' \in {"top", "llen", "asleep", "ended"}
        /\ monitor # "none" /\ monitor # "ended"
        /\ reads' \in 0 .. Queues - 1 /\ total' \in Nat
    BY <1>0, <1>3 DEF Poll, ReadFails, Wake, TypeOK, engineVars, stopVars, Queues
  <2>2. TypeOK'
    BY <1>0, <2>1 DEF TypeOK
  <2>3. Stages' /\ PoolWithinLimits'
    BY <1>0, <2>1 DEF Stages, NothingLeftRunning, PoolWithinLimits, Size, TypeOK
  <2>4. QED
    BY <2>2, <2>3
<1>4. CASE Stop
  <2>1. Active = 1 .. made
    BY <1>0, <1>4 DEF Active, Stages, Stop, TypeOK
  <2>2. TypeOK'
    <3>1. /\ UNCHANGED <<limits, made, cleared, phase, waits, handler>>
          /\ api' = "stopping" /\ running' = FALSE /\ monitor' = "ended"
          /\ reads' = 0 /\ total' = 0 /\ calls' = 1 .. made
      BY <1>4, <2>1 DEF Stop, engineVars
    <3>2. reads' \in 0 .. Queues - 1
      BY <3>1 DEF Queues
    <3>3. QED
      BY <1>0, <3>1, <3>2 DEF TypeOK
  <2>3. Stages' /\ PoolWithinLimits'
    BY <1>0, <1>4, <2>1
    DEF Stop, Stages, Covered, NothingLeftRunning, PoolWithinLimits, engineVars
  <2>4. QED
    BY <2>2, <2>3
<1>5. CASE Stopped
  <2>1. TypeOK'
    BY <1>0, <1>5 DEF Stopped, TypeOK, monitorVars, stopVars
  <2>2. Stages' /\ PoolWithinLimits'
    BY <1>0, <1>5
    DEF Stopped, Stages, Covered, NothingLeftRunning, PoolWithinLimits, monitorVars,
        stopVars, TypeOK
  <2>3. QED
    BY <2>1, <2>2
<1>6. CASE Signal \/ \E e \in 1 .. made : EngineStarts(e) \/ CallStop(e) \/ StopEnds(e)
  <2>1. /\ UNCHANGED <<limits, api, running, monitor, reads, total, made, cleared>>
        /\ \E e \in 1 .. made :
             /\ \/ phase[e] = "new" /\ Enters(e, "running") /\ UNCHANGED calls
                \/ phase[e] = "running" /\ Enters(e, "stopping")
                   /\ calls' \in {calls, calls \ {e}}
                \/ phase[e] \in {"stopping", "stopped"} /\ UNCHANGED phase
                   /\ calls' = calls \ {e}
                \/ phase[e] = "stopping" /\ Enters(e, "stopped") /\ UNCHANGED calls
             /\ waits' \in {waits, waits \cup {e}, waits \ {e}}
             /\ handler' \in {handler, e}
    <3>1. CASE Signal
      BY <1>0, <3>1 DEF Signal, TypeOK, monitorVars, stopVars
    <3>2. CASE \E e \in 1 .. made : EngineStarts(e)
      BY <1>0, <3>2 DEF EngineStarts, monitorVars, stopVars
    <3>3. CASE \E e \in 1 .. made : CallStop(e)
      BY <1>0, <3>3 DEF CallStop, monitorVars, TypeOK
    <3>4. CASE \E e \in 1 .. made : StopEnds(e)
      BY <1>0, <3>4 DEF StopEnds, monitorVars
    <3>5. QED
      BY <1>6, <3>1, <3>2, <3>3, <3>4
  <2>2. PICK e \in 1 .. made :
          /\ \/ phase[e] = "new" /\ Enters(e, "running") /\ UNCHANGED calls
             \/ phase[e] = "running" /\ Enters(e, "stopping")
                /\ calls' \in {calls, calls \ {e}}
             \/ phase[e] \in {"stopping", "stopped"} /\ UNCHANGED phase
                /\ calls' = calls \ {e}
             \/ phase[e] = "stopping" /\ Enters(e, "stopped") /\ UNCHANGED calls
          /\ waits' \in {waits, waits \cup {e}, waits \ {e}}
          /\ handler' \in {handler, e}
    BY <2>1
  <2>3. phase' \in [1 .. made -> {"new", "running", "stopping", "stopped"}]
    BY <1>0, <2>2 DEF TypeOK, Enters
  <2>4. /\ calls' \subseteq 1 .. made /\ waits' \subseteq 1 .. made
        /\ handler' \in 0 .. made
    <3>1. /\ calls \subseteq 1 .. made /\ waits \subseteq 1 .. made
          /\ handler \in 0 .. made /\ made \in Nat
      BY <1>0 DEF TypeOK
    <3>2. calls' \subseteq calls
      BY <2>2
    <3>3. waits' \subseteq waits \cup {e}
      BY <2>2
    <3>4. handler' = handler \/ handler' = e
      BY <2>2
    <3>5. QED
      BY <3>1, <3>2, <3>3, <3>4
  <2>5. TypeOK'
    BY <1>0, <2>1, <2>3, <2>4 DEF TypeOK
  <2>6. Covered => Covered'
    BY <1>0, <2>1, <2>2, <2>3 DEF Covered, Enters, TypeOK
  <2>7. NothingLeftRunning => NothingLeftRunning'
    BY <1>0, <2>1, <2>2, <2>3 DEF NothingLeftRunning, Enters, TypeOK
  <2>8. Stages' /\ PoolWithinLimits'
    BY <1>0, <2>1, <2>6, <2>7 DEF Stages, PoolWithinLimits, Size
  <2>9. QED
    BY <2>5, <2>8
<1>7. CASE UNCHANGED vars
  BY <1>0, <1>7
  DEF vars, monitorVars, engineVars, stopVars, TypeOK, Stages, Covered,
      NothingLeftRunning, PoolWithinLimits, Size
<1>8. QED
  BY <1>1, <1>2, <1>3, <1>4, <1>5, <1>6, <1>7 DEF Next

\* The types, for every execution of WorkerPool.
THEOREM PoolTypes == Spec => []TypeOK
<1>1. PoolInv /\ [Next]_vars => PoolInv'
  BY StepKeeps
<1>2. PoolInv => TypeOK
  BY DEF PoolInv
<1>3. QED
  BY InitPool, <1>1, <1>2, PTL DEF Spec

\* The pool stays within the limits while the manager runs: every engine that
\* _scale_up makes passes its ceiling, and none leaves before stop().
THEOREM LimitsKept == Spec => []PoolWithinLimits
<1>1. PoolInv /\ [Next]_vars => PoolInv'
  BY StepKeeps
<1>2. PoolInv => PoolWithinLimits
  BY DEF PoolInv
<1>3. QED
  BY InitPool, <1>1, <1>2, PTL DEF Spec

\* After stop() nothing runs: the loop was cancelled before the engines were
\* told, so that the engines it stops are all there are.
THEOREM NothingLeft == Spec => []NothingLeftRunning
<1>1. PoolInv /\ [Next]_vars => PoolInv'
  BY StepKeeps
<1>2. PoolInv => NothingLeftRunning
  BY DEF PoolInv, Stages
<1>3. QED
  BY InitPool, <1>1, <1>2, PTL DEF Spec
=============================================================================
