-------------------------- MODULE CompareRunProofs --------------------------
(***************************************************************************)
(* Proofs about CompareRun, for any tables, any choice of them and any     *)
(* number of threads: the safety of the pool, of the exit code and of the  *)
(* report.                                                                 *)
(***************************************************************************)
EXTENDS CompareRun, SumTheorems, TLAPS

(***************************************************************************)
(* Where main is before it has filled the pool, while the pool works, and  *)
(* when all results are in.                                                *)
(***************************************************************************)
Before == {"arguments", "connect", "plan"}

Pooling == {"phase1", "raising"}

After == {"phase2", "locate", "verify", "verifying", "summary", "report"}

RunTypes ==
  /\ chosen \in SUBSET Tables
  /\ main \in Before \cup Pooling \cup After \cup {"exited"}
  /\ queue \in SUBSET Tables
  /\ job \in [Workers -> Tables \cup {None}]
  /\ stage \in [Workers -> {"idle", "compare"} \cup Connecting]
  /\ future \in [Tables -> {"none", "waiting", "returned", "failed"}]
  /\ result \in [Tables -> Results \cup {None}]
  /\ leaked \in Nat
  /\ collected \in SUBSET Tables
  /\ pending \in SUBSET Tables /\ located \in SUBSET Tables
  /\ verified \in [Tables -> KeyVerdicts \cup {None}]
  /\ report.file \in {"none", "broken", "whole"}
  /\ exit \in {None, 0, 1, 2}

(***************************************************************************)
(* Every task is in the queue, with one thread, or over; a connection is   *)
(* lost only with a failed task.                                           *)
(***************************************************************************)
TaskPlace ==
  /\ \A w \in Workers : stage[w] = "idle" <=> job[w] = None
  /\ \A w \in Workers : job[w] # None => future[job[w]] = "waiting" /\ job[w] \notin queue
  /\ \A v, w \in Workers : v # w /\ job[v] # None => job[v] # job[w]
  /\ \A t \in queue : future[t] = "waiting"

TaskResult ==
  /\ \A t \in Tables : future[t] = "returned" <=> result[t] \in Results
  /\ \A t \in Tables : future[t] # "none" => t \in chosen

PoolInv ==
  /\ TaskPlace
  /\ TaskResult
  /\ leaked <= 2 * Cardinality(FailedTasks)

Done == collected = chosen /\ \A t \in chosen : future[t] = "returned"

MainInv ==
  /\ main \in Before => collected = {} /\ \A t \in Tables : future[t] = "none"
  /\ main \notin Pooling => PoolIdle
  /\ main = "phase1" => \A t \in collected : future[t] = "returned"
  /\ main \in After => Done

ExitInv ==
  /\ main # "exited" => exit = None /\ report.file = "none"
  /\ report.file = "whole" => Done /\ report.says = BuildReport /\ exit = ExitCode
  /\ exit = 0 /\ "plan" \notin options =>
       Done /\ Hard \cup Errors = {} /\ ("json" \in options => report.file = "whole")
  /\ exit = 2 => \A t \in Tables : future[t] = "none"

RunInv == RunTypes /\ PoolInv /\ MainInv /\ ExitInv

-----------------------------------------------------------------------------
(* The run has finitely many tables. *)
LEMMA TablesFinite == IsFiniteSet(Tables)
<1>1. Tables = {TableOrder[i] : i \in 1 .. Len(TableOrder)} /\ Len(TableOrder) \in Nat
  BY RunAssumption DEF Tables, ToSet
<1>2. IsFiniteSet(1 .. Len(TableOrder))
  BY <1>1, FS_Interval
<1> QED
  BY <1>1, <1>2, ImageFinite

(* The first state satisfies the invariant. *)
LEMMA InitRun == Init => RunInv
<1> SUFFICES ASSUME Init PROVE RunInv
  OBVIOUS
<1> USE RunAssumption DEF Init
<1>1. RunTypes
  BY DEF RunTypes, Before
<1>2. FailedTasks = {}
  BY DEF FailedTasks
<1>3. PoolInv
  BY <1>2, FS_EmptySet DEF PoolInv, TaskPlace, TaskResult
<1>4. MainInv
  BY DEF MainInv, Before, After, PoolIdle
<1>5. ExitInv
  BY DEF ExitInv
<1> QED
  BY <1>1, <1>3, <1>4, <1>5 DEF RunInv

-----------------------------------------------------------------------------
(* A thread only works while main waits for the pool. *)
LEMMA WorkWhilePooling ==
  ASSUME RunInv, NEW w \in Workers, Work(w)
  PROVE  main \in Pooling /\ exit = None /\ report.file = "none"
<1>1. queue # {} \/ stage[w] # "idle"
  BY DEF Work, Take, Connected, ConnectFails, Compare, Heads, Connecting
<1>2. main \in Pooling
  BY <1>1 DEF RunInv, MainInv, PoolIdle
<1> QED
  BY <1>2 DEF RunInv, ExitInv, Pooling

(* The parts of the invariant about main follow when a thread moves. *)
LEMMA WorkKeepsMain ==
  ASSUME RunInv, NEW w \in Workers, Work(w),
         UNCHANGED <<arguments, main, collected, mainConns, extras, exit>>,
         \A t \in Tables : future[t] = "returned" => future'[t] = "returned"
  PROVE  MainInv' /\ ExitInv'
<1>1. main \in Pooling /\ exit = None /\ report.file = "none"
  BY WorkWhilePooling
<1>2. main' = main /\ exit' = exit /\ report' = report /\ collected' = collected
  BY DEF extras
<1>3. MainInv'
  BY <1>1, <1>2 DEF RunInv, RunTypes, MainInv, Pooling, Before, After
<1>4. ExitInv'
  BY <1>1, <1>2, RunAssumption DEF ExitInv, Pooling
<1> QED
  BY <1>3, <1>4

(* The invariant survives a thread that takes the head of the queue. *)
LEMMA TakeInv ==
  ASSUME RunInv, NEW w \in Workers, Take(w)
  PROVE  RunInv'
<1>1. PICK t \in queue : /\ job' = [job EXCEPT ![w] = t] /\ queue' = queue \ {t}
                        /\ stage[w] = "idle" /\ stage' = [stage EXCEPT ![w] = "connect1"]
                        /\ UNCHANGED <<arguments, main, future, result, collected, mainConns, leaked, extras, exit>>
  BY DEF Take, Heads
<1>2. RunTypes /\ TaskPlace /\ TaskResult /\ leaked <= 2 * Cardinality(FailedTasks)
  BY DEF RunInv, PoolInv
<1>3. RunTypes'
  BY <1>1, <1>2 DEF RunTypes, Connecting, arguments, extras
<1>4. TaskPlace'
  BY <1>1, <1>2, RunAssumption DEF TaskPlace, RunTypes
<1>5. TaskResult' /\ leaked' <= 2 * Cardinality(FailedTasks)'
  BY <1>1, <1>2 DEF TaskResult, FailedTasks, arguments
<1>6. MainInv' /\ ExitInv'
  BY <1>1, WorkKeepsMain DEF Work
<1> QED
  BY <1>3, <1>4, <1>5, <1>6 DEF RunInv, PoolInv

(* Connecting goes on to a later stage. *)
LEMMA StageMoves ==
  \A x \in Connecting : AfterStage[x] \in {"compare"} \cup Connecting /\ AfterStage[x] # "idle"
BY DEF Connecting, AfterStage

(* It survives a connection that opens. *)
LEMMA ConnectedInv ==
  ASSUME RunInv, NEW w \in Workers, Connected(w)
  PROVE  RunInv'
<1>1. /\ stage[w] \in Connecting
      /\ stage' = [stage EXCEPT ![w] = AfterStage[@]]
      /\ UNCHANGED <<arguments, main, queue, job, future, result, collected, mainConns, leaked, extras, exit>>
  BY DEF Connected
<1>2. RunTypes /\ TaskPlace /\ TaskResult /\ leaked <= 2 * Cardinality(FailedTasks)
  BY DEF RunInv, PoolInv
<1>3. RunTypes'
  BY <1>1, <1>2, StageMoves DEF RunTypes, arguments, extras
<1>4. TaskPlace'
  <2>1. stage[w] # "idle" /\ stage'[w] # "idle"
    BY <1>1, <1>2, StageMoves DEF RunTypes, Connecting
  <2> QED
    BY <1>1, <1>2, <2>1 DEF TaskPlace, RunTypes
<1>5. TaskResult' /\ leaked' <= 2 * Cardinality(FailedTasks)'
  BY <1>1, <1>2 DEF TaskResult, FailedTasks, arguments
<1>6. MainInv' /\ ExitInv'
  BY <1>1, WorkKeepsMain DEF Work
<1> QED
  BY <1>3, <1>4, <1>5, <1>6 DEF RunInv, PoolInv

(***************************************************************************)
(* It survives a connect that fails: the connections the task holds, two   *)
(* at most, are lost with it.                                              *)
(***************************************************************************)
LEMMA ConnectFailsInv ==
  ASSUME RunInv, NEW w \in Workers, ConnectFails(w)
  PROVE  RunInv'
<1>1. /\ stage[w] \in Connecting
      /\ future' = [future EXCEPT ![job[w]] = "failed"]
      /\ leaked' = leaked + Held(w)
      /\ stage' = [stage EXCEPT ![w] = "idle"]
      /\ job' = [job EXCEPT ![w] = None]
      /\ UNCHANGED <<arguments, main, queue, result, collected, mainConns, extras, exit>>
  BY DEF ConnectFails
<1>2. RunTypes /\ TaskPlace /\ TaskResult /\ leaked <= 2 * Cardinality(FailedTasks)
  BY DEF RunInv, PoolInv
<1> DEFINE t == job[w]
<1>3. t \in Tables /\ future[t] = "waiting" /\ t \notin queue /\ t # None
  BY <1>1, <1>2 DEF TaskPlace, RunTypes, Connecting
<1>4. Held(w) \in 0 .. 2
  BY <1>1 DEF Held, Connecting
<1>5. RunTypes'
  BY <1>1, <1>2, <1>3, <1>4 DEF RunTypes, arguments, extras
<1>6. TaskPlace'
  BY <1>1, <1>2, <1>3 DEF TaskPlace, RunTypes
<1>7. TaskResult'
  BY <1>1, <1>2, <1>3 DEF TaskResult, RunTypes, arguments
<1>8. leaked' <= 2 * Cardinality(FailedTasks')
  <2>1. FailedTasks' = FailedTasks \cup {t} /\ t \notin FailedTasks
    BY <1>1, <1>2, <1>3 DEF FailedTasks, RunTypes
  <2>2. FailedTasks \in SUBSET Tables
    BY DEF FailedTasks
  <2>3. IsFiniteSet(FailedTasks)
    BY <2>2, TablesFinite, FS_Subset
  <2>4. /\ Cardinality(FailedTasks \cup {t}) = Cardinality(FailedTasks) + 1
        /\ Cardinality(FailedTasks) \in Nat
    BY <2>1, <2>3, FS_AddElement, FS_CardinalityType
  <2>5. leaked' \in Nat /\ leaked' <= leaked + 2 /\ leaked \in Nat
    BY <1>1, <1>2, <1>4 DEF RunTypes
  <2> QED
    BY <1>2, <2>1, <2>4, <2>5
<1>9. MainInv' /\ ExitInv'
  <2>1. \A u \in Tables : future[u] = "returned" => future'[u] = "returned"
    BY <1>1, <1>2, <1>3 DEF RunTypes
  <2> QED
    BY <1>1, <2>1, WorkKeepsMain DEF Work
<1> QED
  BY <1>5, <1>6, <1>7, <1>8, <1>9 DEF RunInv, PoolInv

(* It survives a comparison that ends. *)
LEMMA CompareInv ==
  ASSUME RunInv, NEW w \in Workers, Compare(w)
  PROVE  RunInv'
<1>1. PICK r \in Results :
        /\ stage[w] = "compare"
        /\ result' = [result EXCEPT ![job[w]] = r]
        /\ future' = [future EXCEPT ![job[w]] = "returned"]
        /\ stage' = [stage EXCEPT ![w] = "idle"]
        /\ job' = [job EXCEPT ![w] = None]
        /\ UNCHANGED <<arguments, main, queue, leaked, collected, mainConns, extras, exit>>
  BY DEF Compare
<1>2. RunTypes /\ TaskPlace /\ TaskResult /\ leaked <= 2 * Cardinality(FailedTasks)
  BY DEF RunInv, PoolInv
<1> DEFINE t == job[w]
<1>3. t \in Tables /\ future[t] = "waiting" /\ t \notin queue /\ t # None
  BY <1>1, <1>2 DEF TaskPlace, RunTypes
<1>4. RunTypes'
  BY <1>1, <1>2, <1>3 DEF RunTypes, arguments, extras
<1>5. TaskPlace'
  BY <1>1, <1>2, <1>3 DEF TaskPlace, RunTypes
<1>6. TaskResult'
  BY <1>1, <1>2, <1>3 DEF TaskResult, RunTypes, arguments
<1>7. leaked' <= 2 * Cardinality(FailedTasks)'
  <2>1. FailedTasks' = FailedTasks
    BY <1>1, <1>2, <1>3 DEF FailedTasks, RunTypes
  <2> QED
    BY <1>1, <1>2, <2>1
<1>8. MainInv' /\ ExitInv'
  <2>1. \A u \in Tables : future[u] = "returned" => future'[u] = "returned"
    BY <1>1, <1>2, <1>3 DEF RunTypes
  <2> QED
    BY <1>1, <2>1, WorkKeepsMain DEF Work
<1> QED
  BY <1>4, <1>5, <1>6, <1>7, <1>8 DEF RunInv, PoolInv
-----------------------------------------------------------------------------
(***************************************************************************)
(* A step of main leaves the pool as it is, and with it what the results   *)
(* say.                                                                    *)
(***************************************************************************)
LEMMA PoolKept ==
  ASSUME RunInv, UNCHANGED <<arguments, pool>>
  PROVE  /\ PoolInv' /\ PoolIdle' = PoolIdle
         /\ Mismatches' = Mismatches /\ CountDeltas' = CountDeltas
         /\ Hard' = Hard /\ Errors' = Errors /\ ExitCode' = ExitCode
         /\ UNCHANGED <<options, chosen, queue, job, stage, future, result, leaked>>
<1>1. UNCHANGED <<options, chosen, queue, job, stage, future, result, leaked>>
  BY DEF arguments, pool
<1>2. PoolInv'
  BY <1>1 DEF RunInv, PoolInv, TaskPlace, TaskResult, FailedTasks
<1>3. Hard' = Hard /\ Errors' = Errors
  BY <1>1 DEF Hard, Errors
<1>4. ExitCode' = ExitCode
  BY <1>3 DEF ExitCode
<1> QED
  BY <1>1, <1>2, <1>3, <1>4 DEF PoolIdle, Mismatches, CountDeltas

(* The invariant survives the steps of main before the pool is filled. *)
LEMMA EarlyInv ==
  ASSUME RunInv, Arguments \/ Connect
  PROVE  RunInv'
<1>1. /\ UNCHANGED <<arguments, pool, collected, extras>>
      /\ main \in {"arguments", "connect"}
      /\ \/ main' \in {"connect", "plan"} /\ exit' = exit
         \/ main' = "exited" /\ exit' \in {1, 2}
  BY DEF Arguments, Connect, Exit
<1>2. /\ PoolInv' /\ PoolIdle' = PoolIdle
      /\ UNCHANGED <<options, chosen, queue, job, stage, future, result, leaked>>
  BY <1>1, PoolKept
<1>3. UNCHANGED <<collected, pending, located, verified, report>>
  BY <1>1 DEF extras
<1>4. RunTypes'
  BY <1>1, <1>2, <1>3 DEF RunInv, RunTypes, Before
<1>5. MainInv'
  BY <1>1, <1>2, <1>3 DEF RunInv, MainInv, Before, Pooling, After
<1>6. ExitInv'
  BY <1>1, <1>2, <1>3, RunAssumption DEF RunInv, ExitInv, MainInv, Before
<1> QED
  BY <1>2, <1>4, <1>5, <1>6 DEF RunInv

(* It survives the plan, which fills the pool or ends the run. *)
LEMMA PlanInv ==
  ASSUME RunInv, Plan
  PROVE  RunInv'
<1>1. /\ main = "plan" /\ RunTypes /\ TaskPlace /\ TaskResult /\ leaked <= 2 * Cardinality(FailedTasks)
      /\ PoolIdle /\ \A t \in Tables : future[t] = "none"
  BY DEF Plan, RunInv, PoolInv, MainInv, Before, Pooling
<1>2. UNCHANGED <<arguments, job, stage, result, leaked, collected, mainConns, extras>>
  BY DEF Plan
<1>3. CASE "plan" \in options
  <2>1. main' = "exited" /\ exit' = 0 /\ UNCHANGED <<queue, future>>
    BY <1>3 DEF Plan, Exit
  <2>2. PoolInv' /\ PoolIdle' = PoolIdle
    BY <1>2, <2>1, PoolKept DEF pool
  <2>3. RunTypes'
    BY <1>1, <1>2, <2>1 DEF RunTypes, arguments, extras
  <2>4. MainInv'
    BY <1>1, <2>1, <2>2 DEF MainInv, Before, Pooling, After
  <2>5. ExitInv'
    BY <1>1, <1>2, <1>3, <2>1 DEF RunInv, ExitInv, arguments, extras
  <2> QED
    BY <2>2, <2>3, <2>4, <2>5 DEF RunInv
<1>4. CASE "plan" \notin options
  <2>1. /\ main' = "phase1" /\ queue' = chosen /\ exit' = exit
        /\ future' = [t \in Tables |-> IF t \in chosen THEN "waiting" ELSE "none"]
    BY <1>4 DEF Plan
  <2>2. UNCHANGED <<options, chosen, job, stage, result, leaked, collected, pending, located, verified, report>>
    BY <1>2 DEF arguments, extras
  <2>3. RunTypes'
    BY <1>1, <2>1, <2>2 DEF RunTypes, Pooling
  <2>4. TaskPlace'
    BY <1>1, <2>1, <2>2 DEF TaskPlace, PoolIdle, RunTypes
  <2>5. TaskResult'
    BY <1>1, <2>1, <2>2 DEF TaskResult, RunTypes
  <2>6. leaked' <= 2 * Cardinality(FailedTasks')
    <3>1. FailedTasks = {} /\ FailedTasks' = {}
      BY <1>1, <2>1 DEF FailedTasks
    <3> QED
      BY <1>1, <2>2, <3>1
  <2>7. MainInv'
    <3>1. collected = {}
      BY <1>1 DEF RunInv, MainInv, Before
    <3> QED
      BY <1>1, <2>1, <2>2, <3>1 DEF MainInv, Before, Pooling, After, RunTypes
  <2>8. ExitInv'
    BY <1>1, <2>1, <2>2, RunAssumption DEF RunInv, ExitInv
  <2> QED
    BY <2>3, <2>4, <2>5, <2>6, <2>7, <2>8 DEF RunInv, PoolInv
<1> QED
  BY <1>3, <1>4

(* It survives the ends of the run that an exception brings about. *)
LEMMA AbortInv ==
  ASSUME RunInv, Crash \/ RaiseAfterPool
  PROVE  RunInv'
<1>1. /\ UNCHANGED <<arguments, pool, collected, extras>>
      /\ main' = "exited" /\ exit' = 1 /\ main # "exited"
  BY DEF Crash, RaiseAfterPool, Exit
<1>2. /\ PoolInv' /\ PoolIdle' = PoolIdle
      /\ UNCHANGED <<options, chosen, queue, job, stage, future, result, leaked>>
  BY <1>1, PoolKept
<1>3. UNCHANGED <<collected, pending, located, verified, report>>
  BY <1>1 DEF extras
<1>4. PoolIdle
  BY DEF RunInv, MainInv, Crash, RaiseAfterPool, Pooling
<1>5. RunTypes'
  BY <1>1, <1>2, <1>3 DEF RunInv, RunTypes
<1>6. MainInv'
  BY <1>1, <1>2, <1>4 DEF MainInv, Before, Pooling, After
<1>7. ExitInv'
  BY <1>1, <1>3 DEF RunInv, ExitInv
<1> QED
  BY <1>2, <1>5, <1>6, <1>7 DEF RunInv

(* It survives the collection of a future. *)
LEMMA CollectInv ==
  ASSUME RunInv, NEW t \in Tables, Collect(t)
  PROVE  RunInv'
<1>1. /\ UNCHANGED <<arguments, pool, extras, exit>> /\ main = "phase1"
      /\ future[t] \in {"returned", "failed"} /\ collected' = collected \cup {t}
      /\ main' = IF future[t] = "failed" THEN "raising" ELSE main
  BY DEF Collect
<1>2. /\ PoolInv' /\ PoolIdle' = PoolIdle
      /\ UNCHANGED <<options, chosen, queue, job, stage, future, result, leaked>>
  BY <1>1, PoolKept
<1>3. UNCHANGED <<pending, located, verified, report>>
  BY <1>1 DEF extras
<1>4. RunTypes'
  BY <1>1, <1>2, <1>3 DEF RunInv, RunTypes, Pooling
<1>5. MainInv'
  BY <1>1, <1>2 DEF RunInv, MainInv, Before, Pooling, After
<1>6. ExitInv'
  BY <1>1, <1>3, RunAssumption DEF RunInv, ExitInv
<1> QED
  BY <1>2, <1>4, <1>5, <1>6 DEF RunInv

(* It survives the end of phase 1, which plans what phase 2 looks at. *)
LEMMA EndPhase1Inv ==
  ASSUME RunInv, EndPhase1
  PROVE  RunInv'
<1>1. /\ UNCHANGED <<arguments, pool, collected, located, verified, report, exit>>
      /\ main = "phase1" /\ collected = chosen /\ PoolIdle
      /\ pending' = IF "localize" \in options /\ "window" \notin options THEN Mismatches ELSE {}
      /\ main' = IF pending' # {} THEN "phase2" ELSE "verify"
  BY DEF EndPhase1
<1>2. /\ PoolInv' /\ PoolIdle' = PoolIdle /\ Mismatches' = Mismatches
      /\ UNCHANGED <<options, chosen, queue, job, stage, future, result, leaked>>
  BY <1>1, PoolKept
<1>3. Mismatches \subseteq Tables
  BY DEF Mismatches, RunInv, RunTypes
<1>4. RunTypes'
  BY <1>1, <1>2, <1>3 DEF RunInv, RunTypes, After
<1>5. MainInv'
  BY <1>1, <1>2 DEF RunInv, MainInv, Before, Pooling, After, Done
<1>6. ExitInv'
  BY <1>1, RunAssumption DEF RunInv, ExitInv
<1> QED
  BY <1>2, <1>4, <1>5, <1>6 DEF RunInv

(***************************************************************************)
(* It survives phase 2 and the deep check, which work off what is pending. *)
(***************************************************************************)
LEMMA LookInv ==
  ASSUME RunInv,
         \/ ConnectPhase2 \/ EndPhase2 \/ StartVerify \/ EndVerify
         \/ \E t \in Tables : Locate(t) \/ VerifyOne(t)
  PROVE  RunInv'
<1>1. /\ UNCHANGED <<arguments, pool, collected, report, exit>>
      /\ main \in After /\ main' \in After
  BY DEF ConnectPhase2, EndPhase2, StartVerify, EndVerify, Locate, VerifyOne, After, extras
<1>2. /\ PoolInv' /\ PoolIdle' = PoolIdle /\ Mismatches' = Mismatches /\ CountDeltas' = CountDeltas
      /\ UNCHANGED <<options, chosen, queue, job, stage, future, result, leaked>>
  BY <1>1, PoolKept
<1>3. /\ pending' \in SUBSET Tables /\ located' \in SUBSET Tables
      /\ verified' \in [Tables -> KeyVerdicts \cup {None}]
  <2>1. CountDeltas \subseteq Tables
    BY DEF CountDeltas, RunInv, RunTypes
  <2> QED
    BY <2>1 DEF ConnectPhase2, EndPhase2, StartVerify, EndVerify, Locate, VerifyOne,
                extras, RunInv, RunTypes
<1>4. RunTypes'
  BY <1>1, <1>2, <1>3 DEF RunInv, RunTypes
<1>5. MainInv'
  BY <1>1, <1>2 DEF RunInv, MainInv, Before, Pooling, After, Done
<1>6. ExitInv'
  BY <1>1, RunAssumption DEF RunInv, ExitInv, After
<1> QED
  BY <1>2, <1>4, <1>5, <1>6 DEF RunInv

(* It survives the summary and the report, where the exit code is given. *)
LEMMA SummaryInv ==
  ASSUME RunInv, Summarise \/ WriteReport
  PROVE  RunInv'
<1>1. /\ UNCHANGED <<arguments, pool, collected, pending, located, verified>>
      /\ main \in {"summary", "report"} /\ main' \in {"report", "exited"}
  BY DEF Summarise, WriteReport, Exit, extras
<1>2. /\ PoolInv' /\ PoolIdle' = PoolIdle
      /\ Hard' = Hard /\ Errors' = Errors /\ ExitCode' = ExitCode
      /\ UNCHANGED <<options, chosen, queue, job, stage, future, result, leaked>>
  BY <1>1, PoolKept
<1>3. Done /\ PoolIdle /\ exit = None /\ report.file = "none"
  BY <1>1 DEF RunInv, MainInv, ExitInv, After, Pooling
<1>4. Done' /\ BuildReport' = BuildReport
  BY <1>1, <1>2, <1>3 DEF Done, BuildReport
<1>5. \/ main' = "report" /\ exit' = exit /\ report' = report
      \/ main' = "exited" /\ exit' = ExitCode /\ report' = report /\ "json" \notin options
      \/ main' = "exited" /\ exit' = ExitCode /\ report'.file = "whole" /\ report'.says = BuildReport
      \/ main' = "exited" /\ exit' = 1 /\ report'.file \in {"none", "broken"}
  BY <1>3 DEF Summarise, WriteReport, Exit, extras
<1>6. ExitCode \in {0, 1} /\ (ExitCode = 0 => Hard \cup Errors = {})
  BY DEF ExitCode
<1>7. RunTypes'
  BY <1>1, <1>2, <1>3, <1>5, <1>6 DEF RunInv, RunTypes, After
<1>8. MainInv'
  BY <1>1, <1>2, <1>3, <1>4 DEF MainInv, Before, Pooling, After
<1>9. ExitInv'
  BY <1>1, <1>2, <1>3, <1>4, <1>5, <1>6, RunAssumption DEF ExitInv
<1> QED
  BY <1>2, <1>7, <1>8, <1>9 DEF RunInv

-----------------------------------------------------------------------------
(* The invariant holds in every reachable state. *)
THEOREM RunInvariance == Spec => []RunInv
<1>1. RunInv /\ [Next]_vars => RunInv'
  <2> SUFFICES ASSUME RunInv, [Next]_vars PROVE RunInv'
    OBVIOUS
  <2>1. ASSUME NEW w \in Workers, Work(w) PROVE RunInv'
    BY <2>1, TakeInv, ConnectedInv, ConnectFailsInv, CompareInv DEF Work
  <2>2. CASE Main
    BY <2>2, EarlyInv, PlanInv, AbortInv, CollectInv, EndPhase1Inv, LookInv, SummaryInv DEF Main
  <2>3. CASE UNCHANGED vars
    <3>1. UNCHANGED <<arguments, pool, main, collected, mainConns, extras, exit>>
      BY <2>3 DEF vars
    <3>2. /\ PoolInv' /\ PoolIdle' = PoolIdle
          /\ Mismatches' = Mismatches /\ CountDeltas' = CountDeltas
          /\ Hard' = Hard /\ Errors' = Errors /\ ExitCode' = ExitCode
          /\ UNCHANGED <<options, chosen, queue, job, stage, future, result, leaked>>
      BY <3>1, PoolKept
    <3>3. UNCHANGED <<main, collected, pending, located, verified, report, exit>>
      BY <3>1 DEF extras
    <3>4. Done' = Done /\ BuildReport' = BuildReport
      BY <3>2, <3>3 DEF Done, BuildReport
    <3>5. RunTypes' /\ MainInv' /\ ExitInv'
      BY <3>2, <3>3, <3>4 DEF RunInv, RunTypes, MainInv, ExitInv
    <3> QED
      BY <3>2, <3>5 DEF RunInv
  <2> QED
    BY <2>1, <2>2, <2>3 DEF Next, Exited
<1> QED
  BY InitRun, <1>1, PTL DEF Spec

(***************************************************************************)
(* Every variable keeps its type; a table has a result exactly when its    *)
(* task returned one (cli.py:301-316).                                     *)
(***************************************************************************)
THEOREM RunTypesHold == Spec => []TypeOK
<1>1. RunInv => TypeOK
  BY DEF RunInv, RunTypes, PoolInv, TaskPlace, TaskResult, TypeOK
<1> QED
  BY <1>1, RunInvariance, PTL

(***************************************************************************)
(* Exit code 0 means that every chosen table was compared and forgiven     *)
(* nothing but the count of an accumulator; exit code 2 that none was      *)
(* tried (cli.py:375-387, docs/05:238-244).                                *)
(***************************************************************************)
THEOREM ExitCodesAreTrue == Spec => []ExitCodeTrue
<1>1. RunInv => ExitCodeTrue
  <2> SUFFICES ASSUME RunInv, exit = 0, "plan" \notin options
               PROVE  /\ collected = chosen
                      /\ \A t \in chosen :
                           /\ future[t] = "returned"
                           /\ \/ result[t].status = "MATCH"
                              \/ t \in Accumulators /\ result[t].status = "COUNT_DIFF"
    BY DEF RunInv, ExitInv, ExitCodeTrue
  <2>1. Done /\ Hard \cup Errors = {}
    BY DEF RunInv, ExitInv
  <2>2. \A t \in chosen : result[t] \in Results
    BY <2>1 DEF Done, RunInv, RunTypes, PoolInv, TaskResult
  <2>3. \A r \in Results : r.status \in {"MATCH", "HASH_DIFF", "VALUE_DIFF", "ERROR", "COUNT_DIFF"}
    BY DEF Results
  <2> QED
    BY <2>1, <2>2, <2>3 DEF Done, Hard, Errors
<1> QED
  BY <1>1, RunInvariance, PTL

(***************************************************************************)
(* Whatever fails and when: the pool never holds more than two connections *)
(* a thread and two for each failed task, and none from phase 2 on         *)
(* (cli.py:301-309, db.py:23-25).                                          *)
(***************************************************************************)
THEOREM ConnectionsAreBounded == Spec => []ConnectionsBounded
<1>1. RunInv => ConnectionsBounded
  <2> SUFFICES ASSUME RunInv PROVE ConnectionsBounded
    OBVIOUS
  <2> DEFINE held == [w \in Workers |-> Held(w)]
  <2>1. PoolConns = leaked + SumFunctionOnSet(held, Workers)
    BY DEF PoolConns, SumFunction
  <2>2. \A w \in Workers : held[w] \in 0 .. 2 /\ (stage[w] = "idle" => held[w] = 0)
    <3> SUFFICES ASSUME NEW w \in Workers
                 PROVE  Held(w) \in 0 .. 2 /\ (stage[w] = "idle" => Held(w) = 0)
      OBVIOUS
    <3>1. stage[w] \in {"idle", "compare"} \cup Connecting
      BY DEF RunInv, RunTypes
    <3> QED
      BY <3>1 DEF Held, Connecting
  <2>3. IsFiniteSet(Workers) /\ IsFiniteSet(FailedTasks)
    <3>1. FailedTasks \in SUBSET Tables
      BY DEF FailedTasks
    <3> QED
      BY <3>1, TablesFinite, FS_Subset, RunAssumption
  <2> HIDE DEF held
  <2>4. leaked \in Nat /\ leaked <= 2 * Cardinality(FailedTasks) /\ Cardinality(FailedTasks) \in Nat
    BY <2>3, FS_CardinalityType DEF RunInv, RunTypes, PoolInv
  <2>5. /\ SumFunctionOnSet(held, Workers) <= 2 * Cardinality(Workers)
        /\ SumFunctionOnSet(held, Workers) \in Int /\ Cardinality(Workers) \in Nat
    <3>1. 2 \in Nat /\ \A w \in Workers : held[w] \in 0 .. 2 /\ held[w] \in Int
      BY <2>2
    <3> QED
      BY <2>3, <3>1, SumBound, SumType, FS_CardinalityType
  <2>6. ASSUME main \in {"phase2", "locate", "verify", "verifying", "summary"}
        PROVE  PoolConns = 0
    <3>1. PoolIdle /\ Done
      BY <2>6 DEF RunInv, MainInv, After, Pooling
    <3>2. SumFunctionOnSet(held, Workers) = 0
      BY <2>2, <2>3, <3>1, SumZero DEF PoolIdle
    <3>3. FailedTasks = {}
      BY <3>1 DEF Done, FailedTasks, RunInv, PoolInv, TaskResult
    <3> QED
      BY <2>1, <2>4, <3>2, <3>3, FS_EmptySet
  <2> QED
    BY <2>1, <2>4, <2>5, <2>6 DEF ConnectionsBounded
<1> QED
  BY <1>1, RunInvariance, PTL

(* What an entry of the report says. *)
LEMMA EntryReads ==
  ASSUME NEW accumulator, NEW status, NEW entry,
         entry = [accumulator |-> accumulator, status |-> status]
  PROVE  (entry.accumulator <=> accumulator) /\ entry.status = status
  OBVIOUS

(***************************************************************************)
(* A whole report and the exit code never disagree, and exit code 0 never  *)
(* comes without the report asked for (cli.py:367-387).                    *)
(***************************************************************************)
THEOREM ReportsAgree == Spec => []ReportAgrees
<1>1. RunInv => ReportAgrees
  <2> SUFFICES ASSUME RunInv, report.file = "whole"
               PROVE  /\ DOMAIN report.says = chosen
                      /\ exit = 1 <=>
                           \E t \in chosen :
                             /\ report.says[t].status # "MATCH"
                             /\ report.says[t].accumulator => report.says[t].status # "COUNT_DIFF"
    BY DEF ReportAgrees, RunInv, ExitInv
  <2>1. Done /\ report.says = BuildReport /\ exit = ExitCode
    BY DEF RunInv, ExitInv
  <2>2. /\ DOMAIN report.says = chosen
        /\ \A t \in chosen : report.says[t].status = result[t].status
        /\ \A t \in chosen : report.says[t].accumulator <=> t \in Accumulators
    <3>1. report.says = [t \in chosen |-> [accumulator |-> t \in Accumulators, status |-> result[t].status]]
      BY <2>1 DEF Done, BuildReport
    <3>2. DOMAIN report.says = chosen
      BY <3>1
    <3>3. ASSUME NEW t \in chosen
          PROVE  /\ report.says[t].status = result[t].status
                 /\ report.says[t].accumulator <=> t \in Accumulators
      <4>1. report.says[t] = [accumulator |-> t \in Accumulators, status |-> result[t].status]
        BY <3>1, <3>3, Zenon
      <4>2. report.says[t].status = result[t].status
        BY <4>1
      <4>3. report.says[t].accumulator <=> t \in Accumulators
        BY <4>1, EntryReads
      <4> QED
        BY <4>2, <4>3
    <3> QED
      BY <3>2, <3>3
  <2>3. \A t \in chosen : result[t] \in Results
    BY <2>1 DEF Done, RunInv, RunTypes, PoolInv, TaskResult
  <2>4. \A r \in Results : r.status \in {"MATCH", "HASH_DIFF", "VALUE_DIFF", "ERROR", "COUNT_DIFF"}
    BY DEF Results
  <2>5. exit = 1 <=> Hard \cup Errors # {}
    BY <2>1 DEF ExitCode
  <2>6. \A t \in chosen :
          t \in Hard \cup Errors <=> /\ result[t].status # "MATCH"
                                     /\ t \in Accumulators => result[t].status # "COUNT_DIFF"
    BY <2>3, <2>4 DEF Hard, Errors
  <2>7. \A t \in chosen :
          t \in Hard \cup Errors <=>
            /\ report.says[t].status # "MATCH"
            /\ report.says[t].accumulator => report.says[t].status # "COUNT_DIFF"
    <3> SUFFICES ASSUME NEW t \in chosen
                 PROVE  t \in Hard \cup Errors <=>
                          /\ report.says[t].status # "MATCH"
                          /\ report.says[t].accumulator => report.says[t].status # "COUNT_DIFF"
      OBVIOUS
    <3>1. report.says[t].status = result[t].status
      BY <2>2
    <3>2. report.says[t].accumulator <=> t \in Accumulators
      BY <2>2
    <3>3. t \in Hard \cup Errors <=> /\ result[t].status # "MATCH"
                                     /\ t \in Accumulators => result[t].status # "COUNT_DIFF"
      BY <2>6
    <3>4. CASE t \in Accumulators
      <4>1. report.says[t].accumulator
        BY <3>2, <3>4
      <4> QED
        BY <3>1, <3>3, <3>4, <4>1
    <3>5. CASE t \notin Accumulators
      <4>1. ~report.says[t].accumulator
        BY <3>2, <3>5
      <4> QED
        BY <3>1, <3>3, <3>5, <4>1
    <3> QED
      BY <3>4, <3>5
  <2>8. Hard \cup Errors \subseteq chosen
    BY DEF Hard, Errors
  <2> HIDE DEF Hard, Errors
  <2>9. Hard \cup Errors # {} <=>
          \E t \in chosen :
            /\ report.says[t].status # "MATCH"
            /\ report.says[t].accumulator => report.says[t].status # "COUNT_DIFF"
    BY <2>7, <2>8
  <2> QED
    BY <2>2, <2>5, <2>9
<1> QED
  BY <1>1, RunInvariance, PTL
=============================================================================
