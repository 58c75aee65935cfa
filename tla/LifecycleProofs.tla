-------------------------- MODULE LifecycleProofs --------------------------
(***************************************************************************)
(* The wait for a runner is right for every choice of deadlines, polling   *)
(* period, lead and wall-clock timeout: the delivery contract, the ledger's *)
(* phase and the verdict.                                                  *)
(***************************************************************************)
EXTENDS Lifecycle, TLAPS



\* The deadlines of what has not been observed are armed, and a job is searched
\* for only if none has been observed.
DeadlinesArmed ==
    /\ pc = "correlate" => ~assigned
    /\ pc \in {"observe", "select"} /\ ~online => "online" \in timers
    /\ pc \in {"observe", "select"} /\ ~assigned => "assignment" \in timers

\* What GitHub has been heard to say of a job is true.
ReportsTrue ==
    /\ gh = "busy" => job # "none"
    /\ assigned => job # "none"
    /\ answer \in {"busy", "found"} => job # "none"

\* The wait's answer has been taken for an exit.
AfterExit == pc \in {"classify", "correlate"} \/ (pc = "observe" /\ after = "exit")

\* With compose an exit that is acted upon has happened, and a search that found
\* no job was right.
ExitTrue ==
    backend = "compose" =>
        /\ wait = "exited" /\ ~cancelled => proc = "exited"
        /\ AfterExit => proc = "exited"
        /\ pc = "correlate" /\ answer = "notFound" => job # "inReach"

\* A call that failed counts as one that GitHub did not answer, and a runner that
\* is gone does not come back.
CallsTrue ==
    /\ answer \in Errors => ~prompt
    /\ answer = "gone" => gh = "gone"

\* The final observation before each deadline, what it is for and when it is due.
Finals == {"onlineFinal", "assignmentFinal"}
Flag(t) == IF t = "onlineFinal" THEN online ELSE assigned
FinalAt(t) == IF t = "onlineFinal" THEN OnlineTimeout - Lead ELSE AssignmentTimeout - Lead

\* While GitHub answers at once a final observation is not late; once it has been
\* made, a runner that is busy all the same has been so only since it was due.
FinalSeen(t) ==
    /\ prompt /\ t \in timers => now <= FinalAt(t)
    /\ t \notin timers /\ ~Flag(t) => now >= FinalAt(t)
    /\ prompt /\ t \notin timers /\ ~Flag(t) /\ gh = "busy" =>
          busySince >= FinalAt(t) \/ (pc = "observe" /\ answer \in {"none", "busy"})

ResultAtEnd == result # "none" => pc = "done"

IInv ==
    /\ LifecycleTypeOK
    /\ DeadlinesArmed
    /\ DeliveryContract
    /\ PhaseFollows
    /\ ReportsTrue
    /\ ExitTrue
    /\ ResultAtEnd
    /\ VerdictTrue
    /\ CallsTrue
    /\ \A t \in Finals : FinalSeen(t)
    /\ BusyRunnerKept

-----------------------------------------------------------------------------
\* The ticker's next tick is a moment in time.
LEMMA NextTickType ==
    ASSUME now \in Nat, pollAt \in Nat, now >= pollAt
    PROVE  NextTick \in Nat
<1> DEFINE missed == (now - pollAt) \div PollInterval
<1>1. PollInterval \in Nat /\ PollInterval > 0
  BY TimingAssumption
<1>2. missed \in Nat
  <2>1. now - pollAt \in Nat
    OBVIOUS
  <2> QED
    BY <1>1, <2>1
<1>3. PollInterval * (missed + 1) \in Nat
  BY <1>1, <1>2
<1> QED
  BY <1>1, <1>3 DEF NextTick

\* The type invariant is inductive.
LEMMA TypeNext ==
    ASSUME LifecycleTypeOK, [Next]_vars
    PROVE  LifecycleTypeOK'
<1> USE TimingAssumption DEF LifecycleTypeOK, Statuses, Timers, Errors, Results
<1>1. CASE World
  <2>1. /\ proc' \in {"running", "exited"} /\ gh' \in Statuses
        /\ job' \in Jobs /\ busySince' \in 0 .. MaxTime
    BY <1>1 DEF World, RunnerConnects, RunnerDrops, JobStarts, JobEnds, ProcessExits
  <2>2. UNCHANGED <<now, waitVars, loopVars>>
    BY <1>1 DEF World, RunnerConnects, RunnerDrops, JobStarts, JobEnds, ProcessExits,
                WorldOnly
  <2> QED
    BY <2>1, <2>2 DEF waitVars, loopVars
<1>2. CASE Serve
  <2>1. prompt' \in BOOLEAN
    BY <1>2, Zenon DEF Serve
  <2>2. answer' \in Statuses \cup Errors \cup {"none", "found", "notFound"}
    BY <1>2 DEF Serve, SearchAnswer
  <2> QED
    BY <1>2, <2>1, <2>2 DEF Serve, LoopOnly, worldVars, waitVars
<1>3. CASE Cancel
  BY <1>3 DEF Cancel, worldVars, loopVars
<1>4. CASE WaitForExit
  <2>1. wait' \in {"exited", "timedOut"}
    BY <1>4 DEF WaitForExit, WaitSeesExit, WaitTimesOut, WaitCancelled, KubeWatchLost,
                WaitAnswers
  <2>2. UNCHANGED <<now, worldVars, backend, cancelled, loopVars>>
    BY <1>4 DEF WaitForExit, WaitSeesExit, WaitTimesOut, WaitCancelled, KubeWatchLost,
                WaitAnswers
  <2> QED
    BY <2>1, <2>2 DEF worldVars, loopVars
<1>5. CASE Observed
  BY <1>5 DEF Observed, Continue, Disarm, PhaseAfter, LoopOnly, worldVars, waitVars
<1>6. CASE ObservationFails
  <2>1. prompt' \in BOOLEAN
    BY <1>6, Zenon DEF ObservationFails
  <2> QED
    BY <1>6, <2>1 DEF ObservationFails, Continue, Disarm, LoopOnly, worldVars, waitVars
<1>7. CASE ObservationRefused \/ SelectCancelled \/ SelectDeadline
  <2>1. pc' = "done" /\ result' \in Results /\ answer' = "none"
    BY <1>7 DEF ObservationRefused, SelectCancelled, SelectDeadline, End
  <2>2. /\ UNCHANGED <<now, worldVars, waitVars>>
        /\ UNCHANGED <<after, online, assigned, timers, pollAt, phase, prompt>>
    BY <1>7 DEF ObservationRefused, SelectCancelled, SelectDeadline, LoopOnly
  <2> QED
    BY <2>1, <2>2 DEF worldVars, waitVars
<1>8. CASE SelectObserves
  <2>1. pollAt' \in Nat
    <3>1. Ready("poll") => NextTick \in Nat
      BY NextTickType DEF Ready, FiresAt
    <3> QED
      BY <1>8, <3>1 DEF SelectObserves
  <2> QED
    BY <1>8, <2>1 DEF SelectObserves, StartCall, LoopOnly, worldVars, waitVars
<1>9. CASE SelectExit
  BY <1>9 DEF SelectExit, StartCall, End, worldVars
<1>10. CASE Classify
  BY <1>10 DEF Classify, StartCall, End, LoopOnly, worldVars, waitVars
<1>11. CASE Correlate
  <2>1. /\ assigned' \in BOOLEAN
        /\ phase' \in {"pending", "online", "assigned"}
        /\ pc' = "done" /\ result' \in Results /\ answer' = "none"
    BY <1>11 DEF Correlate, End
  <2>2. UNCHANGED <<now, worldVars, waitVars, after, online, timers, pollAt, prompt>>
    BY <1>11 DEF Correlate, LoopOnly
  <2> QED
    BY <2>1, <2>2 DEF worldVars, waitVars
<1>12. CASE Tick
  <2>1. prompt' \in BOOLEAN
    BY <1>12, Zenon DEF Tick
  <2> QED
    BY <1>12, <2>1 DEF Tick, worldVars, waitVars
<1>13. CASE UNCHANGED vars
  BY <1>13 DEF vars, worldVars, waitVars, loopVars
<1> QED
  BY <1>1, <1>2, <1>3, <1>4, <1>5, <1>6, <1>7, <1>8, <1>9, <1>10, <1>11, <1>12, <1>13
     DEF Next, waitForLifecycle, Returned

\* The world and the waiting goroutine leave the loop alone, and the loop leaves
\* the world alone.
LEMMA Frames ==
    /\ World => UNCHANGED <<now, waitVars, loopVars>>
    /\ Cancel => UNCHANGED <<now, worldVars, backend, wait, loopVars>>
    /\ WaitForExit => UNCHANGED <<now, worldVars, backend, cancelled, loopVars>>
    /\ waitForLifecycle => UNCHANGED <<now, worldVars, backend, cancelled>>
<1>1. World => UNCHANGED <<now, waitVars, loopVars>>
  BY DEF World, RunnerConnects, RunnerDrops, JobStarts, JobEnds, ProcessExits, WorldOnly
<1>2. Cancel => UNCHANGED <<now, worldVars, backend, wait, loopVars>>
  BY DEF Cancel
<1>3. WaitForExit => UNCHANGED <<now, worldVars, backend, cancelled, loopVars>>
  BY DEF WaitForExit, WaitSeesExit, WaitTimesOut, WaitCancelled, KubeWatchLost, WaitAnswers
<1>4. waitForLifecycle => UNCHANGED <<now, worldVars, backend, cancelled>>
  BY DEF waitForLifecycle, Observed, ObservationFails, ObservationRefused, SelectCancelled,
         SelectObserves, SelectDeadline, SelectExit, Classify, Correlate, LoopOnly, waitVars
<1> QED
  BY <1>1, <1>2, <1>3, <1>4

\* No step lets an unmet deadline pass: the loop does not wait beyond an armed
\* deadline, and a call does not last beyond the next one.
LEMMA DeadlineNext ==
    ASSUME LifecycleTypeOK, DeadlinesArmed, DeliveryContract, [Next]_vars
    PROVE  DeadlinesArmed' /\ DeliveryContract'
<1> USE DEF DeadlinesArmed, DeliveryContract, Live
<1>1. CASE World \/ Cancel \/ WaitForExit
  BY <1>1, Frames DEF loopVars
<1>2. CASE Serve
  BY <1>2 DEF Serve, LoopOnly
<1>3. CASE Observed \/ ObservationFails
  <2>1. PICK on, as \in BOOLEAN :
           /\ Continue(on, as) /\ (online => on) /\ (assigned => as)
    <3>1. CASE Observed
      BY <3>1 DEF Observed, LifecycleTypeOK
    <3>2. CASE ObservationFails
      BY <3>2 DEF ObservationFails, LifecycleTypeOK
    <3> QED
      BY <1>3, <3>1, <3>2
  <2>2. pc = "observe" /\ now' = now
    BY <1>3 DEF Observed, ObservationFails, LoopOnly
  <2> QED
    BY <2>1, <2>2 DEF Continue, Disarm, LifecycleTypeOK
<1>4. CASE ObservationRefused \/ SelectCancelled \/ SelectDeadline
  BY <1>4 DEF ObservationRefused, SelectCancelled, SelectDeadline, End
<1>5. CASE SelectObserves
  BY <1>5 DEF SelectObserves, StartCall, LoopOnly
<1>6. CASE SelectExit
  BY <1>6 DEF SelectExit, StartCall, End
<1>7. CASE Classify
  BY <1>7 DEF Classify, StartCall, End, LoopOnly
<1>8. CASE Correlate
  BY <1>8 DEF Correlate, End
<1>9. CASE Tick
  <2>1. now \in Nat /\ OnlineTimeout \in Nat /\ AssignmentTimeout \in Nat
    BY TimingAssumption DEF LifecycleTypeOK
  <2>2. CASE InCall
    <3>1. now < CallDeadline
      BY <1>9, <2>1, <2>2
         DEF Tick, Blocked, InCall, CallOver, CallDeadline, ObservationDeadline
    <3>2. CallDeadline <= AssignmentTimeout
      BY <2>1 DEF CallDeadline, ObservationDeadline
    <3>3. pc = "observe" /\ ~online => CallDeadline <= OnlineTimeout
      BY <2>1 DEF CallDeadline, ObservationDeadline
    <3> QED
      BY <1>9, <2>1, <2>2, <3>1, <3>2, <3>3
         DEF Tick, InCall, CallDeadline, ObservationDeadline
  <2>3. CASE ~InCall
    <3>1. pc = "select" /\ \A t \in Timers : ~Ready(t)
      BY <1>9, <2>3 DEF Tick, Blocked
    <3>2. /\ ~online => now < OnlineTimeout
          /\ ~assigned => now < AssignmentTimeout
      BY <2>1, <3>1 DEF Ready, FiresAt, Timers
    <3> QED
      BY <1>9, <2>1, <3>1, <3>2 DEF Tick
  <2> QED
    BY <2>2, <2>3
<1>10. CASE UNCHANGED vars
  BY <1>10 DEF vars, loopVars
<1> QED
  BY <1>1, <1>2, <1>3, <1>4, <1>5, <1>6, <1>7, <1>8, <1>9, <1>10
     DEF Next, waitForLifecycle, Returned

\* Every change of the two flags is told to the ledger.
LEMMA PhaseNext ==
    ASSUME LifecycleTypeOK, PhaseFollows, [Next]_vars
    PROVE  PhaseFollows'
<1> USE DEF PhaseFollows
<1>1. CASE UNCHANGED <<online, assigned, phase>>
  BY <1>1
<1>2. CASE Observed
  BY <1>2 DEF Observed, Continue, PhaseAfter, LifecycleTypeOK
<1>3. CASE ObservationFails
  BY <1>3 DEF ObservationFails, Continue
<1>4. CASE Correlate
  BY <1>4 DEF Correlate, LifecycleTypeOK
<1>5. CASE World \/ Cancel \/ WaitForExit \/ UNCHANGED vars
  BY <1>1, <1>5, Frames DEF vars, loopVars
<1>6. CASE Serve \/ Tick
  BY <1>1, <1>6 DEF Serve, Tick
<1>7. CASE \/ ObservationRefused \/ SelectCancelled \/ SelectObserves
           \/ SelectDeadline \/ SelectExit \/ Classify
  BY <1>1, <1>7 DEF ObservationRefused, SelectCancelled, SelectObserves, SelectDeadline,
                    SelectExit, Classify
<1> QED
  BY <1>2, <1>3, <1>4, <1>5, <1>6, <1>7 DEF Next, waitForLifecycle, Returned

\* A job is reported only if there was one, and with compose an exit is acted
\* upon only if it happened: after it no job can start behind the search's back.
LEMMA ReportsNext ==
    ASSUME LifecycleTypeOK, ReportsTrue, ExitTrue, [Next]_vars
    PROVE  ReportsTrue' /\ ExitTrue'
<1> USE DEF ReportsTrue, ExitTrue, AfterExit
<1>1. CASE World
  <2>1. UNCHANGED <<now, backend, wait, cancelled, pc, after, answer, assigned>>
    BY <1>1, Frames DEF waitVars, loopVars
  <2>2. /\ job # "none" => job' # "none"
        /\ proc = "exited" => proc' = "exited" /\ job' = job
        /\ gh' = "busy" => job' # "none"
    BY <1>1 DEF World, RunnerConnects, RunnerDrops, JobStarts, JobEnds, ProcessExits
  <2> QED
    BY <2>1, <2>2
<1>2. CASE Serve
  <2>1. UNCHANGED <<proc, gh, job, backend, wait, cancelled, pc, after, assigned>>
    BY <1>2 DEF Serve, LoopOnly, worldVars, waitVars
  <2>2. /\ answer' \in {"busy", "found"} => job # "none"
        /\ answer' = "notFound" => job # "inReach"
    BY <1>2 DEF Serve, SearchAnswer, Errors, Statuses, LifecycleTypeOK
  <2> QED
    BY <2>1, <2>2
<1>3. CASE Cancel
  BY <1>3 DEF Cancel, worldVars, loopVars
<1>4. CASE WaitForExit
  <2>1. UNCHANGED <<proc, gh, job, backend, cancelled, pc, after, answer, assigned>>
    BY <1>4, Frames DEF worldVars, loopVars
  <2>2. backend = "compose" /\ wait' = "exited" => proc = "exited" \/ cancelled
    BY <1>4 DEF WaitForExit, WaitSeesExit, WaitTimesOut, WaitCancelled, KubeWatchLost,
                WaitAnswers
  <2> QED
    BY <2>1, <2>2
<1>5. CASE waitForLifecycle
  <2>1. UNCHANGED <<proc, gh, job, backend, cancelled>>
    BY <1>5, Frames DEF worldVars
  <2>2. CASE Observed
    <3>1. /\ pc' = IF after = "exit" THEN "classify" ELSE "select"
          /\ pc = "observe" /\ answer' = "none" /\ wait' = wait
      BY <2>2 DEF Observed, Continue, LoopOnly, waitVars
    <3>2. assigned' => assigned \/ answer = "busy"
      BY <2>2 DEF Observed, Continue
    <3> QED
      BY <2>1, <3>1, <3>2
  <2>3. CASE ObservationFails
    BY <2>1, <2>3 DEF ObservationFails, Continue, LoopOnly, waitVars
  <2>4. CASE ObservationRefused \/ SelectCancelled \/ SelectDeadline
    BY <2>1, <2>4 DEF ObservationRefused, SelectCancelled, SelectDeadline, End, LoopOnly,
                      waitVars
  <2>5. CASE SelectObserves
    BY <2>1, <2>5 DEF SelectObserves, StartCall, LoopOnly, waitVars
  <2>6. CASE SelectExit
    BY <2>1, <2>6 DEF SelectExit, StartCall, End
  <2>7. CASE Classify
    BY <2>1, <2>7 DEF Classify, StartCall, End, LoopOnly, waitVars
  <2>8. CASE Correlate
    <3>1. pc' = "done" /\ answer' = "none" /\ wait' = wait
      BY <2>8 DEF Correlate, End, LoopOnly, waitVars
    <3>2. assigned' = assigned \/ answer = "found"
      BY <2>8 DEF Correlate
    <3> QED
      BY <2>1, <3>1, <3>2
  <2> QED
    BY <1>5, <2>2, <2>3, <2>4, <2>5, <2>6, <2>7, <2>8 DEF waitForLifecycle
<1>6. CASE Tick
  BY <1>6 DEF Tick, worldVars, waitVars
<1>7. CASE UNCHANGED vars
  BY <1>7 DEF vars, worldVars, waitVars, loopVars
<1> QED
  BY <1>1, <1>2, <1>3, <1>4, <1>5, <1>6, <1>7 DEF Next, Returned

\* The verdict is given once, from what was reported, and nothing happens to it
\* afterwards.
LEMMA VerdictNext ==
    ASSUME IInv, [Next]_vars
    PROVE  ResultAtEnd' /\ VerdictTrue'
<1> USE DEF ResultAtEnd, VerdictTrue, ExitIsReal
<1> DEFINE Kept == UNCHANGED <<proc, job, backend, pc, result, phase>>
<1>1. Kept => ResultAtEnd' /\ VerdictTrue'
  BY DEF IInv
<1>2. result = "none" /\ result' = "none" => ResultAtEnd' /\ VerdictTrue'
  OBVIOUS
<1>3. CASE World
  BY <1>2, <1>3, Frames
     DEF IInv, World, RunnerConnects, RunnerDrops, JobStarts, JobEnds, ProcessExits, Live,
         loopVars
<1>4. CASE Cancel \/ WaitForExit
  BY <1>1, <1>4, Frames DEF worldVars, loopVars
<1>5. CASE Serve \/ Tick
  BY <1>1, <1>5 DEF Serve, Tick, LoopOnly, worldVars, waitVars
<1>6. CASE UNCHANGED vars
  BY <1>1, <1>6 DEF vars, worldVars, waitVars, loopVars
<1>7. CASE waitForLifecycle
  <2>1. UNCHANGED <<proc, job, backend>>
    BY <1>7, Frames DEF worldVars
  <2>2. CASE Observed \/ ObservationFails \/ SelectObserves
    <3>1. pc # "done" /\ result' = result
      BY <2>2 DEF Observed, ObservationFails, SelectObserves, Continue
    <3> QED
      BY <1>2, <3>1 DEF IInv
  <2>3. CASE ObservationRefused \/ SelectCancelled \/ SelectDeadline
    BY <2>3 DEF ObservationRefused, SelectCancelled, SelectDeadline, End
  <2>4. CASE SelectExit
    BY <2>4 DEF SelectExit, StartCall, End, IInv
  <2>5. CASE Classify
    BY <2>1, <2>5 DEF Classify, StartCall, End, IInv, ReportsTrue, ExitTrue, AfterExit,
                      PhaseFollows
  <2>6. CASE Correlate
    BY <2>1, <2>6 DEF Correlate, End, IInv, ReportsTrue, ExitTrue, AfterExit
  <2> QED
    BY <1>7, <2>2, <2>3, <2>4, <2>5, <2>6 DEF waitForLifecycle
<1> QED
  BY <1>3, <1>4, <1>5, <1>6, <1>7 DEF Next, Returned

\* No step breaks what GitHub's answers stand for.
LEMMA CallsNext ==
    ASSUME LifecycleTypeOK, CallsTrue, [Next]_vars
    PROVE  CallsTrue'
<1> USE DEF CallsTrue
<1>1. CASE World
  BY <1>1, Frames DEF World, RunnerConnects, RunnerDrops, JobStarts, JobEnds, ProcessExits,
                      loopVars
<1>2. CASE Cancel \/ WaitForExit \/ UNCHANGED vars
  BY <1>2, Frames DEF vars, worldVars, loopVars
<1>3. CASE Serve
  BY <1>3 DEF Serve, SearchAnswer, LoopOnly, worldVars, Errors
<1>4. CASE waitForLifecycle
  <2>1. answer' = "none" \/ UNCHANGED <<answer, prompt>>
    BY <1>4 DEF waitForLifecycle, Observed, ObservationFails, ObservationRefused,
                SelectCancelled, SelectObserves, SelectDeadline, SelectExit, Classify,
                Correlate, Continue, StartCall, End
  <2> QED
    BY <1>4, <2>1, Frames DEF worldVars, Errors
<1>5. CASE Tick
  BY <1>5 DEF Tick, worldVars
<1> QED
  BY <1>1, <1>2, <1>3, <1>4, <1>5 DEF Next, Returned

\* The final observations are made when they are due and miss no busy runner.
LEMMA FinalNext ==
    ASSUME LifecycleTypeOK, CallsTrue, [Next]_vars,
           NEW t \in Finals, FinalSeen(t)
    PROVE  FinalSeen(t)'
<1> USE DEF FinalSeen, Flag
<1>1. FinalAt(t) \in Nat /\ FinalAt(t)' = FinalAt(t)
  BY TimingAssumption DEF FinalAt
<1>2. now \in Nat /\ busySince \in Nat
  BY TimingAssumption DEF LifecycleTypeOK
<1>3. CASE World
  <2>1. UNCHANGED <<now, prompt, timers, online, assigned, pc, answer>>
    BY <1>3, Frames DEF loopVars
  <2>2. gh' = "busy" => \/ gh = "busy" /\ busySince' = busySince
                        \/ busySince' = now
    BY <1>3 DEF World, RunnerConnects, RunnerDrops, JobStarts, JobEnds, ProcessExits
  <2> QED
    BY <1>1, <1>2, <2>1, <2>2
<1>4. CASE Cancel \/ WaitForExit \/ UNCHANGED vars
  BY <1>1, <1>4, Frames DEF vars, worldVars, loopVars
<1>5. CASE Serve
  <2>1. UNCHANGED <<now, gh, busySince, timers, online, assigned, pc>>
    BY <1>5 DEF Serve, LoopOnly, worldVars
  <2>2. /\ prompt' => prompt /\ answer' \notin Errors
        /\ pc = "observe" /\ answer' \notin Errors => answer' = gh
        /\ pc # "observe" => pc = "correlate"
    BY <1>5 DEF Serve, InCall
  <2> QED
    BY <1>1, <1>2, <2>1, <2>2
<1>6. CASE waitForLifecycle
  <2>1. UNCHANGED <<now, gh, busySince>>
    BY <1>6, Frames DEF worldVars
  <2>2. CASE Observed
    <3>1. /\ pc = "observe" /\ answer # "none" /\ prompt' = prompt
          /\ online => online'
          /\ assigned => assigned'
          /\ answer = "busy" => online' /\ assigned'
          /\ timers' = Disarm(online', assigned', timers)
      BY <2>2 DEF Observed, Continue, Statuses
    <3> QED
      BY <1>1, <1>2, <2>1, <3>1 DEF Disarm, Finals
  <2>3. CASE ObservationFails
    <3>1. /\ pc = "observe"
          /\ prompt' => prompt /\ answer = "gone"
          /\ UNCHANGED <<online, assigned>>
          /\ timers' = Disarm(online, assigned, timers)
      BY <2>3 DEF ObservationFails, Continue
    <3> QED
      BY <1>1, <1>2, <2>1, <3>1 DEF Disarm, Finals, CallsTrue
  <2>4. CASE ObservationRefused
    <3>1. ~prompt /\ UNCHANGED <<prompt, timers, online, assigned>>
      BY <2>4 DEF ObservationRefused, CallsTrue, Errors
    <3> QED
      BY <1>1, <2>1, <3>1
  <2>5. CASE SelectObserves
    <3>1. /\ pc' = "observe" /\ answer' = "none"
          /\ UNCHANGED <<prompt, online, assigned>>
      BY <2>5 DEF SelectObserves, StartCall
    <3>2. timers' \subseteq timers /\ (t \in timers \ timers' => now >= FinalAt(t))
      BY <2>5 DEF SelectObserves, Ready, FiresAt, FinalAt, Finals
    <3> QED
      BY <1>1, <1>2, <2>1, <3>1, <3>2
  <2>6. CASE SelectCancelled \/ SelectDeadline \/ SelectExit \/ Classify
    <3>1. pc # "observe" /\ UNCHANGED <<prompt, timers, online, assigned>>
      BY <2>6 DEF SelectCancelled, SelectDeadline, SelectExit, Classify
    <3> QED
      BY <1>1, <2>1, <3>1
  <2>7. CASE Correlate
    <3>1. /\ pc # "observe" /\ UNCHANGED <<prompt, timers, online>>
          /\ assigned => assigned'
      BY <2>7 DEF Correlate
    <3> QED
      BY <1>1, <2>1, <3>1
  <2> QED
    BY <1>6, <2>2, <2>3, <2>4, <2>5, <2>6, <2>7 DEF waitForLifecycle
<1>7. CASE Tick
  <2>1. /\ now' = now + 1
        /\ prompt' => prompt /\ pc = "select"
        /\ UNCHANGED <<gh, busySince, timers, online, assigned, pc, answer>>
    BY <1>7 DEF Tick, worldVars
  <2>2. pc = "select" /\ t \in timers => now < FinalAt(t)
    BY <1>1, <1>2, <1>7 DEF Tick, Blocked, InCall, Ready, FiresAt, FinalAt, Finals, Timers
  <2> QED
    BY <1>1, <1>2, <2>1, <2>2
<1> QED
  BY <1>3, <1>4, <1>5, <1>6, <1>7 DEF Next, Returned

\* A deadline is found missed only after its final observation.
LEMMA BusyNext ==
    ASSUME IInv, [Next]_vars
    PROVE  BusyRunnerKept'
<1> DEFINE Due(r) == FinalAt(IF r = "onlineTimeout" THEN "onlineFinal" ELSE "assignmentFinal")
           Kept == (result \in {"onlineTimeout", "assignmentTimeout"} /\ prompt /\ gh = "busy")
                      => busySince >= Due(result)
<1>1. BusyRunnerKept <=> Kept
  BY DEF BusyRunnerKept, FiresAt, FinalAt
<1>2. BusyRunnerKept' <=> Kept'
  BY DEF BusyRunnerKept, FiresAt, FinalAt
<1>3. Kept /\ (result # "none" => pc = "done") /\ CallsTrue
  BY <1>1 DEF IInv, ResultAtEnd
<1>4. /\ now \in Nat /\ busySince \in Nat
      /\ \A t \in Finals : FinalAt(t) \in Nat
      /\ FinalAt("onlineFinal") < OnlineTimeout
      /\ FinalAt("assignmentFinal") < AssignmentTimeout
      /\ OnlineTimeout \in Nat /\ AssignmentTimeout \in Nat
  BY TimingAssumption DEF IInv, LifecycleTypeOK, FinalAt, Finals
<1>5. ASSUME pc # "observe", prompt, gh = "busy"
      PROVE  /\ ~online /\ now >= OnlineTimeout => busySince >= FinalAt("onlineFinal")
             /\ ~assigned /\ now >= AssignmentTimeout =>
                   busySince >= FinalAt("assignmentFinal")
  <2>1. FinalSeen("onlineFinal") /\ FinalSeen("assignmentFinal")
    BY DEF IInv, Finals
  <2>2. ~online /\ now >= OnlineTimeout => busySince >= FinalAt("onlineFinal")
    <3>1. /\ "onlineFinal" \in timers => now <= FinalAt("onlineFinal")
          /\ "onlineFinal" \notin timers /\ ~online => busySince >= FinalAt("onlineFinal")
      BY <1>5, <2>1 DEF FinalSeen, Flag
    <3>2. FinalAt("onlineFinal") \in Nat
      BY <1>4 DEF Finals
    <3> QED
      BY <1>4, <3>1, <3>2
  <2>3. ~assigned /\ now >= AssignmentTimeout => busySince >= FinalAt("assignmentFinal")
    <3>1. /\ "assignmentFinal" \in timers => now <= FinalAt("assignmentFinal")
          /\ "assignmentFinal" \notin timers /\ ~assigned =>
                busySince >= FinalAt("assignmentFinal")
      BY <1>5, <2>1 DEF FinalSeen, Flag
    <3>2. FinalAt("assignmentFinal") \in Nat
      BY <1>4 DEF Finals
    <3> QED
      BY <1>4, <3>1, <3>2
  <2> QED
    BY <2>2, <2>3
<1>6. UNCHANGED <<result, prompt, gh, busySince>> => Kept'
  BY <1>3 DEF FinalAt
<1>7. result' \notin {"onlineTimeout", "assignmentTimeout"} => Kept'
  OBVIOUS
<1>8. CASE World
  <2>1. pc # "done" /\ result' = result
    BY <1>8, Frames
       DEF World, RunnerConnects, RunnerDrops, JobStarts, JobEnds, ProcessExits, Live, loopVars
  <2> QED
    BY <1>2, <1>3, <1>7, <2>1
<1>9. CASE Cancel \/ WaitForExit \/ UNCHANGED vars
  BY <1>2, <1>6, <1>9, Frames DEF vars, worldVars, loopVars
<1>10. CASE Serve \/ Tick
  <2>1. pc # "done" /\ result' = result
    BY <1>10 DEF Serve, Tick, InCall, Blocked
  <2> QED
    BY <1>2, <1>3, <1>7, <2>1
<1>11. CASE Observed \/ ObservationFails \/ SelectObserves
  <2>1. pc # "done" /\ result' = result
    BY <1>11 DEF Observed, ObservationFails, SelectObserves, Continue
  <2> QED
    BY <1>2, <1>3, <1>7, <2>1
<1>12. CASE ObservationRefused \/ SelectCancelled
  <2>1. result' \in {"observationRefused", "cancelled"}
    BY <1>12 DEF ObservationRefused, SelectCancelled, End
  <2> QED
    BY <1>2, <1>7, <2>1
<1>13. CASE SelectExit
  <2>1. \/ result' \in {"wallTimeout", "cancelled"}
        \/ result' = result /\ pc # "done"
    BY <1>13 DEF SelectExit, StartCall, End
  <2> QED
    BY <1>2, <1>3, <1>7, <2>1
<1>14. CASE SelectDeadline \/ Classify \/ Correlate
  <2>1. pc \in {"select", "classify", "correlate"}
    BY <1>14 DEF SelectDeadline, Classify, Correlate
  <2>2. UNCHANGED <<prompt, now, gh, busySince>>
    BY <1>14 DEF SelectDeadline, Classify, Correlate, LoopOnly, worldVars
  <2>3. result' = "onlineTimeout" => ~online /\ now >= OnlineTimeout
    <3>1. CASE SelectDeadline
      BY <3>1 DEF SelectDeadline, End, Ready, FiresAt
    <3>2. CASE Classify
      BY <1>3, <3>2 DEF Classify, End, StartCall
    <3>3. CASE Correlate
      BY <3>3 DEF Correlate, End
    <3> QED
      BY <1>14, <3>1, <3>2, <3>3
  <2>4. result' = "assignmentTimeout" => ~assigned /\ now >= AssignmentTimeout
    <3>1. CASE SelectDeadline
      BY <3>1 DEF SelectDeadline, End, Ready, FiresAt
    <3>2. CASE Classify
      BY <1>3, <3>2 DEF Classify, End, StartCall
    <3>3. CASE Correlate
      BY <3>3 DEF Correlate, End, CallDeadline, IInv, DeadlinesArmed
    <3> QED
      BY <1>14, <3>1, <3>2, <3>3
  <2>5. CASE result' = "onlineTimeout"
    BY <1>2, <1>5, <2>1, <2>2, <2>3, <2>5 DEF FinalAt
  <2>6. CASE result' = "assignmentTimeout"
    BY <1>2, <1>5, <2>1, <2>2, <2>4, <2>6 DEF FinalAt
  <2> QED
    BY <1>2, <1>7, <2>5, <2>6
<1> QED
  BY <1>8, <1>9, <1>10, <1>11, <1>12, <1>13, <1>14 DEF Next, waitForLifecycle, Returned

-----------------------------------------------------------------------------
\* The inductive invariant holds for every choice of timeouts.
THEOREM Inductive == Spec => []IInv
<1>1. Init => IInv
  <2> SUFFICES ASSUME Init PROVE IInv
    OBVIOUS
  <2> USE DEF Init
  <2>1. LifecycleTypeOK
    <3>1. now \in 0 .. MaxTime /\ busySince \in 0 .. MaxTime /\ pollAt \in Nat
      BY TimingAssumption
    <3>2. /\ job \in Jobs /\ cancelled \in BOOLEAN /\ online \in BOOLEAN
          /\ assigned \in BOOLEAN /\ prompt \in BOOLEAN
      BY DEF Jobs
    <3> QED
      BY <3>1, <3>2 DEF LifecycleTypeOK, Statuses, Results
  <2>2. DeadlinesArmed /\ DeliveryContract
    BY TimingAssumption DEF DeadlinesArmed, DeliveryContract, Timers
  <2>3. PhaseFollows /\ ReportsTrue /\ ExitTrue
    BY DEF PhaseFollows, ReportsTrue, ExitTrue, AfterExit
  <2>4. ResultAtEnd /\ VerdictTrue
    BY DEF ResultAtEnd, VerdictTrue, ExitIsReal
  <2>5. CallsTrue /\ BusyRunnerKept
    BY DEF CallsTrue, Errors, BusyRunnerKept
  <2>6. \A t \in Finals : FinalSeen(t)
    BY TimingAssumption DEF FinalSeen, Finals, FinalAt, Timers
  <2> QED
    BY <2>1, <2>2, <2>3, <2>4, <2>5, <2>6 DEF IInv
<1>2. IInv /\ [Next]_vars => IInv'
  <2> SUFFICES ASSUME IInv, [Next]_vars PROVE IInv'
    OBVIOUS
  <2>1. \A t \in Finals : FinalSeen(t)'
    BY FinalNext DEF IInv
  <2>2. (\A t \in Finals : FinalSeen(t))'
    BY <2>1 DEF Finals
  <2> QED
    BY <2>2, TypeNext, DeadlineNext, PhaseNext, ReportsNext, VerdictNext, CallsNext, BusyNext
       DEF IInv
<1> QED
  BY <1>1, <1>2, PTL DEF Spec

\* waitForLifecycle is type correct whatever the timeouts.
THEOREM LifecycleTyped == Spec => []LifecycleTypeOK
<1>1. IInv => LifecycleTypeOK
  BY DEF IInv
<1> QED
  BY <1>1, Inductive, PTL

\* For every online and assignment timeout, polling period and lead, neither a
\* stalled call to GitHub nor a race of timers extends the delivery contract.
THEOREM ContractKept == Spec => []DeliveryContract
<1>1. IInv => DeliveryContract
  BY DEF IInv
<1> QED
  BY <1>1, Inductive, PTL

\* The reservation's phase follows the observations.
THEOREM PhaseKept == Spec => []PhaseFollows
<1>1. IInv => PhaseFollows
  BY DEF IInv
<1> QED
  BY <1>1, Inductive, PTL

\* A runner said to have completed a job had one, and with compose a runner said
\* to have ended has, and if it is called unassigned it had no job in a run that
\* the search of correlateCompletedJob looks at.
THEOREM VerdictKept == Spec => []VerdictTrue
<1>1. IInv => VerdictTrue
  BY DEF IInv
<1> QED
  BY <1>1, Inductive, PTL

\* For every choice of timeouts, a runner whose deadline is called missed although
\* GitHub answered every observation had no job when the final one was due.
THEOREM BusyKept == Spec => []BusyRunnerKept
<1>1. IInv => BusyRunnerKept
  BY DEF IInv
<1> QED
  BY <1>1, Inductive, PTL

=============================================================================
