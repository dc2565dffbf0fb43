----------------------------- MODULE CompareRun -----------------------------
(***************************************************************************)
(* A whole run of the comparator (cli.main): connections, the thread pool  *)
(* that compares the tables in phase 1, phase 2, the deep check of the     *)
(* accumulators, the summary, the report and the exit code.                *)
(*                                                                         *)
(* What compare_table, _localize_mismatch and _verify_one find out is a    *)
(* choice here; modules Comparison, Localize and Verify say what it is.    *)
(***************************************************************************)
EXTENDS Integers, FiniteSets, Sequences, SequencesExt, FiniteSetsExt

CONSTANTS
  None,
  TableOrder,     \* tables of the plan that are not excluded, in order
  Accumulators,   \* those of kind "accumulator"
  TableChoices,   \* what --tables may leave of them
  Workers         \* threads of the pool, --workers of them

Tables == ToSet(TableOrder)

Results ==
  [status : {"MATCH", "HASH_DIFF", "VALUE_DIFF", "ERROR"}, oneSided : {FALSE}]
    \cup [status : {"COUNT_DIFF"}, oneSided : BOOLEAN]

(***************************************************************************)
(* What the deep check says of a table: not verified, one key set within   *)
(* the other, or neither.                                                  *)
(***************************************************************************)
KeyVerdicts == {"unverified", "within", "neither"}

ASSUME RunAssumption ==
  /\ TableOrder \in Seq(Tables) /\ IsInjective(TableOrder)
  /\ Accumulators \subseteq Tables
  /\ TableChoices \subseteq SUBSET Tables
  /\ IsFiniteSet(Workers) /\ Workers # {}
  /\ None \notin Tables \cup Results \cup KeyVerdicts \cup {0, 1, 2}

VARIABLES
  options,     \* which of --plan, phase 2, --block-range, --verify-accumulators
               \* and --json are on
  chosen,      \* the tables to compare
  main,        \* where main() is
  queue,       \* tables no thread has taken yet, in the order of the plan
  job,         \* thread -> the table it works on
  stage,       \* thread -> where work() is
  future,      \* table -> what became of its task
  result,      \* table -> the result its task returned
  collected,   \* tables whose future main has seen
  mainConns,   \* connections main holds
  leaked,      \* connections of tasks that failed with one open
  pending,     \* tables phase 2 or the deep check has yet to look at
  located,     \* tables phase 2 has looked at
  verified,    \* table -> what the deep check says of it
  report,      \* the --json file, and what it says of each table
  exit         \* exit code of the process

pool == <<queue, job, stage, future, result, leaked>>

extras == <<pending, located, verified, report>>

arguments == <<options, chosen>>

vars == <<arguments, main, pool, collected, mainConns, extras, exit>>

Init ==
  /\ options \in SUBSET {"plan", "localize", "window", "verify", "json"}
  /\ chosen \in TableChoices
  /\ main = "arguments"
  /\ queue = {}
  /\ job = [w \in Workers |-> None]
  /\ stage = [w \in Workers |-> "idle"]
  /\ future = [t \in Tables |-> "none"]
  /\ result = [t \in Tables |-> None]
  /\ collected = {}
  /\ mainConns = 0
  /\ leaked = 0
  /\ pending = {} /\ located = {}
  /\ verified = [t \in Tables |-> None]
  /\ report = [file |-> "none", says |-> <<>>]
  /\ exit = None

Exit(code) == main' = "exited" /\ exit' = code
-----------------------------------------------------------------------------
(***************************************************************************)
(* argparse leaves with exit code 2 when it does not understand the        *)
(* arguments; a --block-range that is not LO:HI raises.                    *)
(***************************************************************************)
Arguments ==
  /\ main = "arguments"
  /\ \/ main' = "connect" /\ UNCHANGED exit
     \/ Exit(2)
     \/ "window" \in options /\ Exit(1)
  /\ UNCHANGED <<arguments, pool, collected, mainConns, extras>>

(***************************************************************************)
(* Opening the two connections, each of which sets work_mem.  Failure of   *)
(* any of these is exit code 2.                                            *)
(***************************************************************************)
Connect ==
  /\ main = "connect"
  /\ \/ mainConns' = 2 /\ main' = "plan" /\ UNCHANGED exit
     \/ mainConns' \in {0, 1, 2} /\ Exit(2)
  /\ UNCHANGED <<arguments, pool, collected, extras>>

(***************************************************************************)
(* Schemas, tips, ranges and plans, one query after the other, for the     *)
(* tables chosen.  --plan prints them and leaves; otherwise every table    *)
(* becomes a task at once.                                                 *)
(***************************************************************************)
Plan ==
  /\ main = "plan"
  /\ IF "plan" \in options
     THEN Exit(0) /\ UNCHANGED <<queue, future>>
     ELSE /\ main' = "phase1"
          /\ queue' = chosen
          /\ future' = [t \in Tables |-> IF t \in chosen THEN "waiting" ELSE "none"]
          /\ UNCHANGED exit
  /\ UNCHANGED <<arguments, job, stage, result, leaked, collected, mainConns, extras>>

(***************************************************************************)
(* An exception nothing catches: a traceback, and exit code 1.             *)
(***************************************************************************)
Crash ==
  /\ main \in {"plan", "phase2"}
  /\ Exit(1)
  /\ UNCHANGED <<arguments, pool, collected, mainConns, extras>>
-----------------------------------------------------------------------------
(***************************************************************************)
(* The queue of the pool is first in, first out, and filled once: its head *)
(* is the table of the plan that comes before the others left.             *)
(***************************************************************************)
Earlier(t, u) ==
  \E i, j \in DOMAIN TableOrder : i <= j /\ TableOrder[i] = t /\ TableOrder[j] = u

Heads == {t \in queue : \A u \in queue : Earlier(t, u)}

(***************************************************************************)
(* work(plan) on a thread of the pool: two connections of its own, opened  *)
(* before the try block, then compare_table, which turns every exception   *)
(* into a result with status ERROR, then both connections are closed.      *)
(***************************************************************************)
Take(w) ==
  /\ stage[w] = "idle"
  /\ \E t \in Heads :
       /\ job' = [job EXCEPT ![w] = t]
       /\ queue' = queue \ {t}
  /\ stage' = [stage EXCEPT ![w] = "connect1"]
  /\ UNCHANGED <<arguments, main, future, result, collected, mainConns, leaked, extras, exit>>

(***************************************************************************)
(* Each connect is two statements: the connection opens, then SET work_mem *)
(* runs on it.                                                             *)
(***************************************************************************)
Connecting == {"connect1", "set1", "connect2", "set2"}

AfterStage == [connect1 |-> "set1", set1 |-> "connect2", connect2 |-> "set2", set2 |-> "compare"]

Connected(w) ==
  /\ stage[w] \in Connecting
  /\ stage' = [stage EXCEPT ![w] = AfterStage[@]]
  /\ UNCHANGED <<arguments, main, queue, job, future, result, collected, mainConns, leaked, extras, exit>>

(***************************************************************************)
(* Connections a thread has open: one or two in a task under way.          *)
(***************************************************************************)
Held(w) == CASE stage[w] \in {"idle", "connect1"} -> 0
             [] stage[w] \in {"set1", "connect2"} -> 1
             [] stage[w] \in {"set2", "compare"}  -> 2

(***************************************************************************)
(* connect raises.  The exception is kept in the future, and with it the   *)
(* frames of work and of connect, which hold what is open by then.         *)
(***************************************************************************)
(* Slip: a failed task goes back into the queue. *)
ConnectFailsRetrying(w) ==
  /\ stage[w] \in Connecting
  /\ queue' = queue \cup {job[w]}
  /\ stage' = [stage EXCEPT ![w] = "idle"]
  /\ job' = [job EXCEPT ![w] = None]
  /\ UNCHANGED <<arguments, main, future, result, leaked, collected, mainConns, extras, exit>>

ConnectFails(w) ==
  /\ stage[w] \in Connecting
  /\ future' = [future EXCEPT ![job[w]] = "failed"]
  /\ leaked' = leaked + Held(w)
  /\ stage' = [stage EXCEPT ![w] = "idle"]
  /\ job' = [job EXCEPT ![w] = None]
  /\ UNCHANGED <<arguments, main, queue, result, collected, mainConns, extras, exit>>

(* Slip: the result of a comparison that raised is not returned. *)
CompareLosingErrors(w) ==
  /\ stage[w] = "compare"
  /\ result' \in {[result EXCEPT ![job[w]] = r] :
                     r \in {x \in Results : x.status # "ERROR"} \cup {None}}
  /\ future' = [future EXCEPT ![job[w]] = "returned"]
  /\ stage' = [stage EXCEPT ![w] = "idle"]
  /\ job' = [job EXCEPT ![w] = None]
  /\ UNCHANGED <<arguments, main, queue, leaked, collected, mainConns, extras, exit>>

(* Slip: the connections are not closed after the comparison. *)
CompareLeaking(w) ==
  /\ stage[w] = "compare"
  /\ result' \in {[result EXCEPT ![job[w]] = r] : r \in Results}
  /\ future' = [future EXCEPT ![job[w]] = "returned"]
  /\ leaked' = leaked + 2
  /\ stage' = [stage EXCEPT ![w] = "idle"]
  /\ job' = [job EXCEPT ![w] = None]
  /\ UNCHANGED <<arguments, main, queue, collected, mainConns, extras, exit>>

Compare(w) ==
  /\ stage[w] = "compare"
  /\ result' \in {[result EXCEPT ![job[w]] = r] : r \in Results}
  /\ future' = [future EXCEPT ![job[w]] = "returned"]
  /\ stage' = [stage EXCEPT ![w] = "idle"]
  /\ job' = [job EXCEPT ![w] = None]
  /\ UNCHANGED <<arguments, main, queue, leaked, collected, mainConns, extras, exit>>

Work(w) == Take(w) \/ Connected(w) \/ ConnectFails(w) \/ Compare(w)
-----------------------------------------------------------------------------
(***************************************************************************)
(* main takes the futures as they complete.  result() raises for a failed  *)
(* one, which leaves the loop; the with statement still waits for the pool *)
(* to work off its whole queue.                                            *)
(***************************************************************************)
PoolIdle == queue = {} /\ \A w \in Workers : stage[w] = "idle"

Collect(t) ==
  /\ main = "phase1"
  /\ t \notin collected
  /\ future[t] \in {"returned", "failed"}
  /\ collected' = collected \cup {t}
  /\ main' = IF future[t] = "failed" THEN "raising" ELSE main
  /\ UNCHANGED <<arguments, pool, mainConns, extras, exit>>

RaiseAfterPool ==
  /\ main = "raising"
  /\ PoolIdle
  /\ Exit(1)
  /\ UNCHANGED <<arguments, pool, collected, mainConns, extras>>

(***************************************************************************)
(* Phase 2 looks at mismatches that are no accumulator and empty on        *)
(* neither side, over two more connections.                                *)
(***************************************************************************)
Mismatches ==
  {t \in chosen \ Accumulators :
     result[t].status \in {"HASH_DIFF", "COUNT_DIFF", "VALUE_DIFF"} /\ ~result[t].oneSided}

EndPhase1 ==
  /\ main = "phase1"
  /\ collected = chosen
  /\ PoolIdle
  /\ pending' = IF "localize" \in options /\ "window" \notin options THEN Mismatches ELSE {}
  /\ main' = IF pending' # {} THEN "phase2" ELSE "verify"
  /\ UNCHANGED <<arguments, pool, collected, mainConns, located, verified, report, exit>>

ConnectPhase2 ==
  /\ main = "phase2"
  /\ mainConns' = 4
  /\ main' = "locate"
  /\ UNCHANGED <<arguments, pool, collected, extras, exit>>

Locate(t) ==
  /\ main = "locate"
  /\ t \in pending
  /\ pending' = pending \ {t}
  /\ located' = located \cup {t}
  /\ UNCHANGED <<arguments, main, pool, collected, mainConns, verified, report, exit>>

EndPhase2 ==
  /\ main = "locate"
  /\ pending = {}
  /\ mainConns' = 2
  /\ main' = "verify"
  /\ UNCHANGED <<arguments, pool, collected, extras, exit>>

(***************************************************************************)
(* The deep check of the accumulators whose counts differ.                 *)
(***************************************************************************)
CountDeltas == {t \in chosen \cap Accumulators : result[t].status = "COUNT_DIFF"}

StartVerify ==
  /\ main = "verify"
  /\ pending' = IF "verify" \in options THEN CountDeltas ELSE {}
  /\ main' = "verifying"
  /\ UNCHANGED <<arguments, pool, collected, mainConns, located, verified, report, exit>>

VerifyOne(t) ==
  /\ main = "verifying"
  /\ t \in pending
  /\ pending' = pending \ {t}
  /\ \E v \in KeyVerdicts : verified' = [verified EXCEPT ![t] = v]
  /\ UNCHANGED <<arguments, main, pool, collected, mainConns, located, report, exit>>

EndVerify ==
  /\ main = "verifying"
  /\ pending = {}
  /\ main' = "summary"
  /\ UNCHANGED <<arguments, pool, collected, mainConns, extras, exit>>

(***************************************************************************)
(* print_summary, and what makes the exit code 1.                          *)
(***************************************************************************)
(* Slip: a count difference is informational for any table. *)
HardContentOnly == {t \in chosen : result[t].status \in {"HASH_DIFF", "VALUE_DIFF"}}

Hard ==
  {t \in chosen :
     \/ result[t].status \in {"HASH_DIFF", "VALUE_DIFF"}
     \/ result[t].status = "COUNT_DIFF" /\ t \notin Accumulators}

Errors == {t \in chosen : result[t].status = "ERROR"}

ExitCode == IF Hard \cup Errors # {} THEN 1 ELSE 0

Summarise ==
  /\ main = "summary"
  /\ IF "json" \in options THEN main' = "report" /\ UNCHANGED exit ELSE Exit(ExitCode)
  /\ UNCHANGED <<arguments, pool, collected, mainConns, extras>>

(***************************************************************************)
(* The report holds every result with the kind of its table.  Opening the  *)
(* file may fail, and so may writing it once what it held is gone.         *)
(***************************************************************************)
BuildReport == [t \in collected |-> [accumulator |-> t \in Accumulators, status |-> result[t].status]]

(* Slip: a report that cannot be written is no reason to fail. *)
WriteReportQuietly ==
  /\ main = "report"
  /\ report' \in {[file |-> "whole", says |-> BuildReport], [file |-> "broken", says |-> <<>>]}
  /\ Exit(ExitCode)
  /\ UNCHANGED <<arguments, pool, collected, mainConns, pending, located, verified>>

WriteReport ==
  /\ main = "report"
  /\ \/ report' = [file |-> "whole", says |-> BuildReport] /\ Exit(ExitCode)
     \/ report' \in {report, [file |-> "broken", says |-> <<>>]} /\ Exit(1)
  /\ UNCHANGED <<arguments, pool, collected, mainConns, pending, located, verified>>

Main ==
  \/ Arguments \/ Connect \/ Plan \/ Crash
  \/ \E t \in Tables : Collect(t) \/ Locate(t) \/ VerifyOne(t)
  \/ RaiseAfterPool \/ EndPhase1
  \/ ConnectPhase2 \/ EndPhase2
  \/ StartVerify \/ EndVerify
  \/ Summarise \/ WriteReport

Exited == main = "exited" /\ UNCHANGED vars

Next == Main \/ (\E w \in Workers : Work(w)) \/ Exited

(***************************************************************************)
(* The main thread and every thread of the pool are scheduled, and every   *)
(* connect and every query ends.                                           *)
(***************************************************************************)
Spec ==
  /\ Init /\ [][Next]_vars
  /\ WF_vars(Main)
  /\ \A w \in Workers : WF_vars(Work(w))
-----------------------------------------------------------------------------
(***************************************************************************)
(* Connections of the pool: those of tasks under way, and those that tasks *)
(* failed with.                                                            *)
(***************************************************************************)
PoolConns == leaked + SumFunction([w \in Workers |-> Held(w)])

FailedTasks == {t \in Tables : future[t] = "failed"}

TypeOK ==
  /\ queue \subseteq Tables
  /\ job \in [Workers -> Tables \cup {None}]
  /\ \A w \in Workers : stage[w] = "idle" <=> job[w] = None
  /\ future \in [Tables -> {"none", "waiting", "returned", "failed"}]
  /\ \A t \in Tables : future[t] = "returned" <=> result[t] \in Results
  /\ collected \subseteq Tables
  /\ pending \cup located \subseteq Tables
  /\ verified \in [Tables -> KeyVerdicts \cup {None}]
  /\ report.file \in {"none", "broken", "whole"}
  /\ exit \in {None, 0, 1, 2}

(***************************************************************************)
(* Exit code 0 is only given when every table was compared and matches, or *)
(* differs in the count of an accumulator; exit code 2 only before any     *)
(* table was tried (docs/05:238-244).                                      *)
(***************************************************************************)
ExitCodeTrue ==
  /\ exit = 0 /\ "plan" \notin options =>
       /\ collected = chosen
       /\ \A t \in chosen :
            /\ future[t] = "returned"
            /\ result[t].status = "MATCH" \/ (t \in Accumulators /\ result[t].status = "COUNT_DIFF")
  /\ exit = 2 => \A t \in Tables : future[t] = "none"

(***************************************************************************)
(* A thread holds at most two connections and gives them back; only a task *)
(* whose connect failed keeps some, two at most, beyond the 2 x --workers  *)
(* of docs/11:150, and from phase 2 on main's are the only ones            *)
(* (cli.py:301-309, db.py:23-25).                                          *)
(***************************************************************************)
ConnectionsBounded ==
  /\ PoolConns <= 2 * Cardinality(Workers) + 2 * Cardinality(FailedTasks)
  /\ main \in {"phase2", "locate", "verify", "verifying", "summary"} => PoolConns = 0

(***************************************************************************)
(* The file and the exit code tell the same story: a report that is whole  *)
(* names every table chosen, shows a difference or an error exactly when   *)
(* the exit code is 1, and exit code 0 never comes without the report that *)
(* was asked for (cli.py:367-387).                                         *)
(***************************************************************************)
ReportAgrees ==
  main = "exited" =>
    /\ report.file = "whole" =>
         /\ DOMAIN report.says = chosen
         /\ exit = 1 <=>
              \E t \in chosen :
                /\ report.says[t].status # "MATCH"
                /\ report.says[t].accumulator => report.says[t].status # "COUNT_DIFF"
    /\ exit = 0 /\ "json" \in options /\ "plan" \notin options => report.file = "whole"

(***************************************************************************)
(* The run comes to an end.                                                *)
(***************************************************************************)
Termination == <>(main = "exited")

(***************************************************************************)
(* A run that started its tasks ends with a result of every table, ERROR   *)
(* perhaps (docs/11:180-181: an exception gives ERROR for that table only, *)
(* the run continues, a bad table never aborts the others).                *)
(***************************************************************************)
BadTableNeverAborts ==
  main = "exited" /\ (\E t \in Tables : future[t] # "none") =>
    \A t \in chosen : t \in collected /\ future[t] = "returned"
=============================================================================
