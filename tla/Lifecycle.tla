----------------------------- MODULE Lifecycle -----------------------------
(***************************************************************************)
(* The wait of one spawn worker for its runner: waitForLifecycle in        *)
(* internal/orchestrator/lifecycle.go, with the goroutine it starts for    *)
(* the backend's WaitForExit (backend/compose/compose.go, or               *)
(* backend/kube/kube.go over kube/client.go).                              *)
(*                                                                         *)
(* Time is discrete and the waiting goroutine is prompt: the clock moves   *)
(* only while it is blocked in its select or in a call.  Cases of the      *)
(* select that are ready at the same instant are chosen between freely, as *)
(* Go does.  GitHub answers a call from what it knew at some moment of the *)
(* call, late or never; the call's context ends it at its deadline.        *)
(*                                                                         *)
(* The ledger appears as the phase of this spawn's reservation.  Error     *)
(* texts, exit codes and events are left out.                              *)
(***************************************************************************)
EXTENDS Naturals

CONSTANTS
    OnlineTimeout, AssignmentTimeout,  \* the delivery contract
    PollInterval,                      \* period of the observation ticker
    Lead,                              \* finalObservationLead
    WallTimeout,                       \* the spawn's own timeout
    MaxTime,                           \* bound on the clock
    Backends                           \* the backends to consider

ASSUME TimingAssumption ==
    /\ {OnlineTimeout, AssignmentTimeout, PollInterval, Lead, WallTimeout, MaxTime}
          \subseteq Nat \ {0}
    /\ Lead < OnlineTimeout /\ Lead < AssignmentTimeout
    /\ AssignmentTimeout <= MaxTime /\ WallTimeout <= MaxTime
    /\ Backends \subseteq {"compose", "kube"}

VARIABLES
    now,
    \* The world: the runner's process, what GitHub knows of the runner, the job it
    \* was given, if any, and since when it has been busy.
    proc, gh, job, busySince,
    \* The backend, the goroutine in its WaitForExit, and the worker's context.
    backend, wait, cancelled,
    \* waitForLifecycle: where it is, the call in flight, its flags and timers.
    pc, after, answer, online, assigned, timers, pollAt, result,
    phase,    \* of the spawn's reservation in the ledger
    prompt    \* history: GitHub has answered every observation at once

worldVars == <<proc, gh, job, busySince>>
waitVars == <<backend, wait, cancelled>>
loopVars == <<pc, after, answer, online, assigned, timers, pollAt, result, phase, prompt>>
vars == <<now, worldVars, waitVars, loopVars>>

Timers == {"online", "assignment", "onlineFinal", "assignmentFinal", "poll"}
Statuses == {"offline", "online", "busy", "gone"}
\* A call is unanswered, fails in a way that is retried, or is refused
\* (authorisation, rate limit).
Errors == {"failed", "refused"}
(***************************************************************************)
(* A job is in reach of the search after the exit if it is a candidate of  *)
(* the intent, in the run of one, or the latest attempt of a job in a run  *)
(* created in the last seven days that is queued, in progress or completed *)
(* when its status is asked for.  The job of an older run that was started *)
(* again, or of a run that waits for an approval, is out of reach.         *)
(***************************************************************************)
Jobs == {"none", "inReach", "outOfReach"}

-----------------------------------------------------------------------------
(* The world.                                                              *)

Live == pc # "done"
WorldOnly == UNCHANGED <<now, waitVars, loopVars>>

RunnerConnects ==
    /\ Live /\ proc = "running" /\ gh = "offline" /\ gh' = "online"
    /\ WorldOnly /\ UNCHANGED <<proc, job, busySince>>

RunnerDrops ==
    /\ Live /\ gh = "online" /\ gh' = "offline"
    /\ WorldOnly /\ UNCHANGED <<proc, job, busySince>>

JobStarts ==
    /\ Live /\ proc = "running" /\ gh = "online" /\ gh' = "busy"
    /\ job' \in Jobs \ {"none"} /\ busySince' = now
    /\ WorldOnly /\ UNCHANGED proc

\* An ephemeral runner is removed by GitHub after its job.
JobEnds ==
    /\ Live /\ gh = "busy" /\ gh' = "gone"
    /\ WorldOnly /\ UNCHANGED <<proc, job, busySince>>

ProcessExits ==
    /\ Live /\ proc = "running" /\ proc' = "exited"
    /\ WorldOnly /\ UNCHANGED <<gh, job, busySince>>

World == RunnerConnects \/ RunnerDrops \/ JobStarts \/ JobEnds \/ ProcessExits

\* stopWorkers() after the drain deadline.
Cancel ==
    /\ Live /\ ~cancelled /\ cancelled' = TRUE
    /\ UNCHANGED <<now, worldVars, backend, wait, loopVars>>

-----------------------------------------------------------------------------
(* The goroutine in WaitForExit; its answer waits in a channel of one.     *)

WaitAnswers(x) ==
    /\ Live /\ wait = "waiting" /\ wait' = x
    /\ UNCHANGED <<now, worldVars, backend, cancelled, loopVars>>

\* Inspection, or the watch, shows a terminal state.
WaitSeesExit == proc = "exited" /\ WaitAnswers("exited")

\* Of a cancellation and a timeout at once compose reports either, kube the former.
WaitTimesOut == now >= WallTimeout /\ ~(backend = "kube" /\ cancelled) /\ WaitAnswers("timedOut")

\* A cancelled wait answers as if the process had exited, with code -1 or 1.
WaitCancelled == cancelled /\ WaitAnswers("exited")

\* waitRunner: the first Get fails; or the watch cannot be opened, or is closed
\* by the API server, and one Get is made: it fails, or tells the phase the pod
\* is in, which need not be a terminal one.  WaitForExit answers (1, false).
KubeWatchLost == backend = "kube" /\ WaitAnswers("exited")

WaitForExit == WaitSeesExit \/ WaitTimesOut \/ WaitCancelled \/ KubeWatchLost

-----------------------------------------------------------------------------
(* Calls to GitHub made by the waiting goroutine.                          *)

\* Mutant: an observation may last until the assignment deadline.
LastDeadline == AssignmentTimeout

\* The context of an observation, and of the correlation after the exit.
ObservationDeadline ==
    IF ~online /\ OnlineTimeout < AssignmentTimeout THEN OnlineTimeout ELSE AssignmentTimeout
CallDeadline == IF pc = "observe" THEN ObservationDeadline ELSE AssignmentTimeout

InCall == pc \in {"observe", "correlate"}
\* Mutant: only cancellation ends a call.
CallHasNoDeadline == cancelled
CallOver == now >= CallDeadline \/ cancelled

LoopOnly == UNCHANGED <<now, worldVars, waitVars>>

\* Mutant: a search that met its limits answers like one that is complete.
SearchCutShort == {"notFound"} \cup (IF job = "inReach" THEN {"found"} ELSE {})

\* The candidates and the bounded search: what they answer if no request of
\* theirs fails and no limit on runs and calls is met, which is an error.
SearchAnswer == {IF job = "inReach" THEN "found" ELSE "notFound"}

\* GitHub looks the runner, or its job, up.
Serve ==
    /\ InCall /\ answer = "none"
    /\ answer' \in Errors \cup (IF pc = "observe" THEN {gh} ELSE SearchAnswer)
    /\ prompt' = (prompt /\ answer' \notin Errors)
    /\ LoopOnly
    /\ UNCHANGED <<pc, after, online, assigned, timers, pollAt, result, phase>>

End(r) == pc' = "done" /\ result' = r /\ answer' = "none"

\* What the loop does after every case: satisfied deadlines are disarmed.
Disarm(on, as, live) ==
    (live \ IF on THEN {"online", "onlineFinal"} ELSE {})
          \ IF as THEN {"assignment", "assignmentFinal", "poll"} ELSE {}

\* Mutant: GitHub's word is stored as it came.
PhaseAsReported(on, as) == IF as THEN "assigned" ELSE answer

\* MarkOnline and MarkAssigned change the phase at most once each.
PhaseAfter(on, as) ==
    IF as THEN "assigned" ELSE IF on /\ phase = "pending" THEN "online" ELSE phase

\* The continuation of an observation: the loop, or the classification.
Continue(on, as) ==
    /\ pc' = IF after = "exit" THEN "classify" ELSE "select"
    /\ online' = on /\ assigned' = as
    /\ timers' = Disarm(on, as, timers)
    /\ pollAt' = IF after = "start" THEN now + PollInterval ELSE pollAt
    /\ answer' = "none"
    /\ UNCHANGED <<after, result>>

\* observe: the answer arrives in time.
Observed ==
    /\ pc = "observe" /\ answer \in Statuses \ {"gone"}
    /\ LET on == online \/ answer \in {"online", "busy"}
           as == assigned \/ answer = "busy"
       IN  Continue(on, as) /\ phase' = PhaseAfter(on, as)
    /\ LoopOnly /\ UNCHANGED prompt

\* observe: no runner, an error, or no answer by the deadline.
ObservationFails ==
    /\ pc = "observe" /\ (answer \in {"gone", "failed"} \/ CallOver)
    /\ Continue(online, assigned)
    /\ prompt' = (prompt /\ answer = "gone")
    /\ LoopOnly /\ UNCHANGED phase

ObservationRefused ==
    /\ pc = "observe" /\ answer = "refused"
    /\ End("observationRefused")
    /\ LoopOnly /\ UNCHANGED <<after, online, assigned, timers, pollAt, phase, prompt>>

-----------------------------------------------------------------------------
(* The select loop.                                                        *)

FiresAt(t) ==
    [online          |-> OnlineTimeout,
     assignment      |-> AssignmentTimeout,
     onlineFinal     |-> OnlineTimeout - Lead,
     assignmentFinal |-> AssignmentTimeout - Lead,
     poll            |-> pollAt][t]
Ready(t) == t \in timers /\ now >= FiresAt(t)

\* The ticker keeps one missed tick and then returns to its period.
NextTick == pollAt + PollInterval * (((now - pollAt) \div PollInterval) + 1)

StartCall(p, from) == pc' = p /\ after' = from /\ answer' = "none"

SelectCancelled ==
    /\ pc = "select" /\ cancelled
    /\ End("cancelled")
    /\ LoopOnly /\ UNCHANGED <<after, online, assigned, timers, pollAt, phase, prompt>>

\* Mutant: the final observations are missing.
NoFinalObservation ==
    /\ pc = "select" /\ Ready("poll")
    /\ StartCall("observe", "loop")
    /\ pollAt' = NextTick /\ timers' = timers \ {"onlineFinal", "assignmentFinal"}
    /\ LoopOnly /\ UNCHANGED <<online, assigned, result, phase, prompt>>

\* The ticker, or one of the two final observations shortly before a deadline.
SelectObserves ==
    /\ pc = "select"
    /\ \E t \in {"poll", "onlineFinal", "assignmentFinal"} :
          /\ Ready(t)
          /\ timers' = IF t = "poll" THEN timers ELSE timers \ {t}
          /\ pollAt' = IF t = "poll" THEN NextTick ELSE pollAt
    /\ StartCall("observe", "loop")
    /\ LoopOnly /\ UNCHANGED <<online, assigned, result, phase, prompt>>

SelectDeadline ==
    /\ pc = "select"
    /\ \/ Ready("online") /\ ~online /\ End("onlineTimeout")
       \/ Ready("assignment") /\ ~assigned /\ End("assignmentTimeout")
    /\ LoopOnly /\ UNCHANGED <<after, online, assigned, timers, pollAt, phase, prompt>>

\* The backend's answer.  A timeout and a cancellation are transport outcomes;
\* otherwise an unassigned runner is looked up once more.
SelectExit ==
    /\ pc = "select" /\ wait \in {"exited", "timedOut"}
    /\ wait' = "taken"
    /\ IF wait = "timedOut" THEN End("wallTimeout") /\ UNCHANGED after
       ELSE IF cancelled THEN End("cancelled") /\ UNCHANGED after
       ELSE IF assigned THEN pc' = "classify" /\ UNCHANGED <<after, answer, result>>
       ELSE StartCall("observe", "exit") /\ UNCHANGED result
    /\ UNCHANGED <<now, worldVars, backend, cancelled, online, assigned, timers, pollAt,
                   phase, prompt>>

\* After the exit: a missed deadline, a search for the job, or the end.
Classify ==
    /\ pc = "classify"
    /\ IF ~online /\ now >= OnlineTimeout
          THEN End("onlineTimeout") /\ UNCHANGED after
       ELSE IF ~assigned /\ now >= AssignmentTimeout
          THEN End("assignmentTimeout") /\ UNCHANGED after
       ELSE IF ~assigned THEN StartCall("correlate", "exit") /\ UNCHANGED result
       ELSE End("completed") /\ UNCHANGED after
    /\ LoopOnly /\ UNCHANGED <<online, assigned, timers, pollAt, phase, prompt>>

\* correlateCompletedJob: the runner's job is found, is not there, cannot be
\* looked for, or not in time.
Correlate ==
    /\ pc = "correlate"
    /\ \/ /\ answer = "found"
          /\ assigned' = TRUE /\ phase' = "assigned" /\ End("completed")
       \/ /\ answer = "notFound"
          /\ End("exitedUnassigned") /\ UNCHANGED <<assigned, phase>>
       \/ /\ answer \in Errors \/ cancelled
          /\ End("correlationFailed") /\ UNCHANGED <<assigned, phase>>
       \/ /\ now >= CallDeadline /\ ~cancelled
          /\ End("assignmentTimeout") /\ UNCHANGED <<assigned, phase>>
    /\ LoopOnly /\ UNCHANGED <<after, online, timers, pollAt, prompt>>

waitForLifecycle ==
    \/ Observed \/ ObservationFails \/ ObservationRefused
    \/ SelectCancelled \/ SelectObserves \/ SelectDeadline \/ SelectExit
    \/ Classify \/ Correlate

\* The clock moves while the goroutine is blocked.
Blocked ==
    \/ pc = "select" /\ wait \notin {"exited", "timedOut"} /\ ~cancelled
         /\ \A t \in Timers : ~Ready(t)
    \/ InCall /\ ~CallOver

Tick ==
    /\ Blocked /\ now < MaxTime /\ now' = now + 1
    /\ prompt' = (prompt /\ pc = "select")
    /\ UNCHANGED <<worldVars, waitVars, pc, after, answer, online, assigned, timers,
                   pollAt, result, phase>>

Returned == pc = "done" /\ UNCHANGED vars

-----------------------------------------------------------------------------
Init ==
    /\ now = 0
    /\ proc = "running" /\ gh = "offline" /\ job = "none" /\ busySince = 0
    /\ backend \in Backends /\ wait = "waiting" /\ cancelled = FALSE
    /\ pc = "observe" /\ after = "start" /\ answer = "none"
    /\ online = FALSE /\ assigned = FALSE
    /\ timers = Timers /\ pollAt = 0
    /\ result = "none" /\ phase = "pending" /\ prompt = TRUE

Next == World \/ Serve \/ Cancel \/ WaitForExit \/ waitForLifecycle \/ Tick \/ Returned

Spec == Init /\ [][Next]_vars

\* Time passes, both goroutines run, and calls end at their deadline; nothing is
\* assumed of GitHub, of the runner or of a signal.
FairSpec == Spec /\ WF_vars(Tick) /\ WF_vars(waitForLifecycle) /\ WF_vars(WaitForExit)

-----------------------------------------------------------------------------
Results == {"none", "onlineTimeout", "assignmentTimeout", "wallTimeout", "cancelled",
            "observationRefused", "correlationFailed", "exitedUnassigned", "completed"}

\* The variables have their types.
LifecycleTypeOK ==
    /\ now \in 0 .. MaxTime
    /\ proc \in {"running", "exited"} /\ gh \in Statuses /\ job \in Jobs
    /\ busySince \in 0 .. MaxTime
    /\ backend \in Backends
    /\ wait \in {"waiting", "exited", "timedOut", "taken"} /\ cancelled \in BOOLEAN
    /\ pc \in {"observe", "select", "classify", "correlate", "done"}
    /\ after \in {"start", "loop", "exit"}
    /\ answer \in Statuses \cup Errors \cup {"none", "found", "notFound"}
    /\ online \in BOOLEAN /\ assigned \in BOOLEAN /\ timers \subseteq Timers
    /\ pollAt \in Nat /\ result \in Results
    /\ phase \in {"pending", "online", "assigned"} /\ prompt \in BOOLEAN

\* Execute takes a result without an error for a job that was delivered and is
\* over, and "exited unassigned" for a runner that is over.  WaitForExit is
\* documented to block until the runner has ended or its timeout elapsed.
ExitIsReal == result \in {"completed", "exitedUnassigned"} => proc = "exited"

\* The verdict is true: completed runners had a job, and with compose a runner is
\* over when it is said to be, and called unassigned only if it never had a job
\* that the search can reach, however short that was and whichever observations
\* were missed.  The exception is the code's: a clean no-match speaks for the runs
\* inside the time bound only, and for three of their statuses.
VerdictTrue ==
    /\ result = "completed" => job # "none" /\ phase = "assigned"
    /\ backend = "compose" =>
          ExitIsReal /\ (result = "exitedUnassigned" => job # "inReach")

\* No stalled call and no race of timers extends the delivery contract: while the
\* runner lives it is online, and then assigned, by the deadline or given up.
DeliveryContract ==
    /\ pc \in {"observe", "select"} /\ ~online => now <= OnlineTimeout
    /\ Live /\ ~assigned => now <= AssignmentTimeout

\* A runner that is at work is not torn down for a missed delivery: if GitHub
\* answers, the final observation before each deadline sees it.
BusyRunnerKept ==
    (result \in {"onlineTimeout", "assignmentTimeout"} /\ prompt /\ gh = "busy") =>
        busySince >= FiresAt(IF result = "onlineTimeout" THEN "onlineFinal"
                                                          ELSE "assignmentFinal")

\* The ledger hears of every observation: the phase that demand coverage is
\* computed from never lags behind the flags the deadlines are judged by.
PhaseFollows ==
    /\ phase = "assigned" <=> assigned
    /\ phase = "pending" => ~online

\* The wait ends, whatever GitHub, the runner and the backend do.
WaitEnds == <>(pc = "done")

=============================================================================
