------------------------- MODULE SequentialExecutor -------------------------
(***************************************************************************)
(* The two-rank executor of sequential.py: two worker threads that run the *)
(* callbacks of run(), the coordinator that pairs their collectives and,   *)
(* in sequential mode, hands the one compute stream back and forth, and    *)
(* the callers of __enter__, run and close.                                *)
(*                                                                         *)
(* A section under the coordinator's condition is one step.  What lies     *)
(* between two of them is another: an exception that has been raised but   *)
(* has not reached abort(), a callback that has returned but has not       *)
(* settled its result.  A callback is any sequence of collectives that     *)
(* returns or raises, and may swallow the error of a collective.           *)
(***************************************************************************)
EXTENDS Integers, FiniteSets, Sequences

CONSTANTS
    Callers,        \* threads that open, run and close the executor
    Groups,         \* the process groups its callbacks use
    Nobody,         \* the holder of a free lock
    Timeouts,       \* whether waits may time out and callers be interrupted
    MaxCalls,       \* bound: run() and close() calls in a behaviour
    MaxCollectives  \* bound: collectives a rank completes in one callback

ASSUME ExecutorAssumption ==
    /\ Nobody \notin Callers
    /\ Timeouts \in BOOLEAN
    /\ MaxCalls \in Nat /\ MaxCollectives \in Nat

VARIABLES
    isolation,      \* "new", "live" while _runtime is entered, "restored" afterwards
    closing,        \* _closing
    callLock,       \* the caller that holds _call_lock, or Nobody
    pendingJob,     \* _pending_job, 0 for None
    localOnly,      \* _Job.local_only of every job made; a job is its index here
    results,        \* _Job.results: per job and rank "none", "value" or "error"
    sequential, turn, finished, error,  \* the coordinator's fields
    round,          \* pending.calls: the ranks in the pending round, {} for no round
    group,          \* pending.group
    at,             \* where each rank's worker stands
    job,            \* the job it works on, 0 for none
    inbox,          \* its queue; 0 is the None that stops it
    ready,          \* the future its start-up settles
    asked,          \* the group of its latest collective
    reached,        \* the groups of the collectives its callback completed, in order
    step,           \* where each caller stands
    arg,            \* the `sequential` its run() was given, then whether it is not local_only
    opener,         \* the caller inside __enter__, or Nobody
    calls           \* run() and close() calls made

coordination == <<sequential, turn, finished, error, round, group>>
jobVars == <<pendingJob, localOnly, results>>
workerVars == <<at, job, inbox, ready, asked, reached>>
callerVars == <<callLock, step, arg, opener, calls>>
sessionVars == <<isolation, closing>>
inside == <<jobVars, coordination, workerVars>>
outside == <<sessionVars, jobVars, callerVars>>
vars == <<inside, sessionVars, callerVars>>

Ranks == {0, 1}
Jobs == DOMAIN localOnly

Gone == {"none", "dead"}
Waiting == {"joined", "turning"}
Places == Gone \cup Waiting \cup
    {"starting", "idle", "entering", "callback", "aborting", "finishing", "settling",
     "failing", "failed", "leaving"}
Steps == {"idle", "starting", "run", "choose", "settling", "submit", "await", "raising",
          "ending", "close", "joining", "broken"}

TypeOK ==
    /\ isolation \in {"new", "live", "restored"} /\ closing \in BOOLEAN
    /\ callLock \in Callers \cup {Nobody} /\ opener \in Callers \cup {Nobody}
    /\ localOnly \in Seq(BOOLEAN) /\ pendingJob \in 0 .. Len(localOnly)
    /\ results \in Seq([Ranks -> {"none", "value", "error"}])
    /\ Len(results) = Len(localOnly)
    /\ sequential \in BOOLEAN /\ finished \in BOOLEAN /\ error \in BOOLEAN
    /\ turn \in Ranks /\ round \subseteq Ranks /\ group \in Groups
    /\ at \in [Ranks -> Places] /\ job \in [Ranks -> 0 .. Len(localOnly)]
    /\ inbox \in [Ranks -> Seq(0 .. Len(localOnly))]
    /\ ready \in [Ranks -> {"none", "ok", "failed"}]
    /\ asked \in [Ranks -> Groups] /\ reached \in [Ranks -> Seq(Groups)]
    /\ step \in [Callers -> Steps] /\ arg \in [Callers -> BOOLEAN]
    /\ calls \in 0 .. MaxCalls

Init ==
    /\ isolation = "new" /\ closing = FALSE /\ callLock = Nobody /\ opener = Nobody
    /\ pendingJob = 0 /\ localOnly = <<>> /\ results = <<>>
    /\ sequential = FALSE /\ turn = 0 /\ finished = FALSE /\ error = FALSE
    /\ round = {} /\ group \in Groups
    /\ at = [r \in Ranks |-> "none"] /\ job = [r \in Ranks |-> 0]
    /\ inbox = [r \in Ranks |-> <<>>] /\ ready = [r \in Ranks |-> "none"]
    /\ asked = [r \in Ranks |-> group] /\ reached = [r \in Ranks |-> <<>>]
    /\ step = [c \in Callers |-> "idle"] /\ arg = [c \in Callers |-> FALSE]
    /\ calls = 0

-----------------------------------------------------------------------------
(* The coordinator *)

Go(r, place) == at' = [at EXCEPT ![r] = place]
Move(r, place) ==
    /\ Go(r, place)
    /\ UNCHANGED <<outside, coordination, job, inbox, ready, asked, reached>>

\* The condition a rank waits for before it computes, which `error` interrupts.
\* Mutant: the turn is not asked for once a round is complete.
MayComputeFreely(r) == ~error
MayCompute(r) == ~error /\ (~sequential \/ turn = r \/ finished)

\* abort(): the first error stays.
Abort == error' = TRUE /\ UNCHANGED <<sequential, turn, finished, round, group>>

\* collective() refuses when the other rank is done, or waits in another group.
\* Mutant: a rank that joins a round does not look at its group.
JoinableAnyGroup(r, g) == ~error /\ ~finished /\ r \notin round
Joinable(r, g) ==
    ~error /\ ~finished /\ (round # {} => group = g /\ r \notin round)

Other(r) == 1 - r

Full(r) == round \cup {r} = Ranks

\* A collective opens a round or joins the pending one, and passes the turn.  The
\* second call executes the round and releases the first; a pair that execute() rejects
\* leaves the round pending and full until the abort.
Collective(r, g) ==
    /\ at[r] = "callback" /\ Len(reached[r]) < MaxCollectives /\ Joinable(r, g)
    /\ group' = g /\ turn' = Other(r) /\ asked' = [asked EXCEPT ![r] = g]
    /\ \/ ~Full(r) /\ round' = round \cup {r} /\ Go(r, "joined")
       \/ /\ Full(r) /\ round' = {}
          /\ at' = [s \in Ranks |-> IF s = r \/ at[s] = "joined" THEN "turning" ELSE at[s]]
       \/ Full(r) /\ round' = Ranks /\ Go(r, "aborting")
    /\ UNCHANGED <<outside, sequential, finished, error, job, inbox, ready, reached>>

\* It raises before it joins: for the state of the round, or for the stream it is on.
Refuse(r) == at[r] = "callback" /\ Move(r, "aborting")

Resume(r) ==
    /\ at[r] = "turning" /\ MayCompute(r)
    /\ Go(r, "callback") /\ reached' = [reached EXCEPT ![r] = Append(@, asked[r])]
    /\ UNCHANGED <<outside, coordination, job, inbox, ready, asked>>

\* Mutant: the wait's condition leaves the error out.
WaitTimesOut(r) == at[r] \in Waiting /\ Timeouts /\ Move(r, "aborting")

\* A collective's wait sees the error of the other rank, or times out.
WaitFails(r) == at[r] \in Waiting /\ (error \/ Timeouts) /\ Move(r, "aborting")

\* _call aborts and raises in the callback, which may go on.
CallAborts(r) ==
    /\ at[r] = "aborting" /\ Abort /\ Go(r, "callback")
    /\ UNCHANGED <<outside, job, inbox, ready, asked, reached>>

-----------------------------------------------------------------------------
(* The workers *)

Initialise(r) ==
    /\ at[r] = "starting" /\ Go(r, "idle") /\ ready' = [ready EXCEPT ![r] = "ok"]
    /\ UNCHANGED <<outside, coordination, job, inbox, asked, reached>>

InitFails(r) ==
    /\ at[r] = "starting" /\ Go(r, "leaving") /\ ready' = [ready EXCEPT ![r] = "failed"]
    /\ Abort /\ UNCHANGED <<outside, job, inbox, asked, reached>>

TakeJob(r) ==
    /\ at[r] = "idle" /\ inbox[r] # <<>> /\ Head(inbox[r]) # 0
    /\ job' = [job EXCEPT ![r] = Head(inbox[r])]
    /\ inbox' = [inbox EXCEPT ![r] = Tail(@)]
    /\ Go(r, IF localOnly[Head(inbox[r])] THEN "callback" ELSE "entering")
    /\ reached' = [reached EXCEPT ![r] = <<>>]
    /\ UNCHANGED <<outside, coordination, ready, asked>>

TakeStop(r) ==
    /\ at[r] = "idle" /\ inbox[r] # <<>> /\ Head(inbox[r]) = 0
    /\ inbox' = [inbox EXCEPT ![r] = Tail(@)] /\ Go(r, "leaving")
    /\ UNCHANGED <<outside, coordination, job, ready, asked, reached>>

\* The thread destroys its process group and ends.
Leave(r) == at[r] = "leaving" /\ Move(r, "dead")

Enter(r) == at[r] = "entering" /\ MayCompute(r) /\ Move(r, "callback")

EnterFails(r) == at[r] = "entering" /\ (error \/ Timeouts) /\ Move(r, "failing")

Return(r) ==
    /\ at[r] = "callback"
    /\ Move(r, IF localOnly[job[r]] THEN "settling" ELSE "finishing")

Raise(r) == at[r] = "callback" /\ Move(r, "failing")

\* finish(): a rank is done only if no round waits for it.
MayFinish == ~error /\ round = {}

Finish(r) ==
    /\ at[r] = "finishing" /\ MayFinish
    /\ finished' = TRUE /\ Go(r, "settling")
    /\ UNCHANGED <<outside, sequential, turn, error, round, group, job, inbox, ready, asked,
                   reached>>

FinishFails(r) == at[r] = "finishing" /\ ~MayFinish /\ Move(r, "failing")

Settle(r) ==
    /\ at[r] \in {"settling", "failed"}
    /\ results' = [results EXCEPT ![job[r]][r] = IF at[r] = "failed" THEN "error" ELSE "value"]
    /\ Go(r, "idle") /\ job' = [job EXCEPT ![r] = 0]
    /\ UNCHANGED <<sessionVars, pendingJob, localOnly, coordination, callerVars, inbox, ready,
                   asked, reached>>

\* The error reaches the coordinator before the result.
Fail(r) ==
    /\ at[r] = "failing" /\ Go(r, "failed") /\ Abort
    /\ UNCHANGED <<outside, job, inbox, ready, asked, reached>>

-----------------------------------------------------------------------------
(* __enter__ *)

To(c, where) == step' = [step EXCEPT ![c] = where]
Step(c, where) ==
    /\ To(c, where)
    /\ UNCHANGED <<inside, sessionVars, callLock, arg, opener, calls>>

\* Up to the isolation of the runtime nothing lasting happens, and a failure there
\* leaves the executor unopened.
Open(c) ==
    /\ step[c] = "idle" /\ isolation = "new" /\ opener = Nobody
    /\ isolation' = "live" /\ opener' = c /\ To(c, "starting")
    /\ UNCHANGED <<inside, closing, callLock, arg, calls>>

StartWorker(c, r) ==
    /\ step[c] = "starting" /\ at[r] = "none" /\ \A s \in Ranks : s < r => at[s] # "none"
    /\ Move(r, "starting")

Opened(c) ==
    /\ step[c] = "starting" /\ \A r \in Ranks : ready[r] = "ok"
    /\ To(c, "idle") /\ opener' = Nobody
    /\ UNCHANGED <<inside, sessionVars, callLock, arg, calls>>

\* A thread that does not start, a worker that fails, or one that takes too long.
\* It waits for the first rank before the second.
OpenFails(c) ==
    /\ step[c] = "starting"
    /\ \/ \E r \in Ranks : at[r] = "none"
       \/ ready[0] = "failed"
       \/ ready[0] = "ok" /\ ready[1] = "failed"
       \/ Timeouts /\ \E r \in Ranks : ready[r] = "none"
    /\ Step(c, "close")

-----------------------------------------------------------------------------
(* run *)

Done(j) == \A r \in Ranks : results[j][r] # "none"
Failed(j) == \E r \in Ranks : results[j][r] = "error"
Mine == Len(localOnly)      \* the job of the caller that holds the lock, once submitted

\* The executor is in its callers' hands once __enter__ has ended.
MayCall(c) ==
    step[c] = "idle" /\ opener = Nobody /\ isolation = "live" /\ calls < MaxCalls

CallRun(c) ==
    /\ MayCall(c) /\ ~closing
    /\ \E s \in BOOLEAN : arg' = [arg EXCEPT ![c] = s]
    /\ To(c, "run") /\ calls' = calls + 1
    /\ UNCHANGED <<inside, sessionVars, callLock, opener>>

\* The coordinator is gone when a close ended after the check.
RunLock(c) ==
    /\ step[c] = "run"
    /\ \/ isolation # "live" /\ To(c, "broken") /\ UNCHANGED callLock
       \/ isolation = "live" /\ callLock # Nobody /\ To(c, "idle") /\ UNCHANGED callLock
       \/ isolation = "live" /\ callLock = Nobody /\ To(c, "choose") /\ callLock' = c
    /\ UNCHANGED <<inside, sessionVars, arg, opener, calls>>

\* begin() on a healthy coordinator.
Begin(c) ==
    /\ step[c] = "choose" /\ ~error
    /\ sequential' = arg[c] /\ turn' = 0 /\ finished' = FALSE
    /\ arg' = [arg EXCEPT ![c] = TRUE] /\ To(c, "submit")
    /\ UNCHANGED <<sessionVars, jobVars, error, round, group, workerVars, callLock, opener, calls>>

\* After an error only cleanup with sequential=False is left.
BeginFails(c) == step[c] = "choose" /\ error /\ arg[c] /\ Step(c, "raising")

\* Cleanup waits for the job of the run that failed.
BeginCleanup(c) ==
    /\ step[c] = "choose" /\ error /\ ~arg[c]
    /\ Step(c, IF pendingJob # 0 THEN "settling" ELSE "submit")

PreviousDone(c) == step[c] = "settling" /\ Done(pendingJob) /\ Step(c, "submit")

Submit(c) ==
    /\ step[c] = "submit"
    /\ localOnly' = Append(localOnly, ~arg[c])
    /\ results' = Append(results, [r \in Ranks |-> "none"])
    /\ pendingJob' = Len(localOnly')
    /\ inbox' = [r \in Ranks |-> Append(inbox[r], Len(localOnly'))]
    /\ To(c, "await")
    /\ UNCHANGED <<sessionVars, coordination, at, job, ready, asked, reached, callLock, arg,
                   opener, calls>>

\* The device fails before a job is made.
SubmitFails(c) == step[c] = "submit" /\ Step(c, "raising")

\* A run returns at its first failed rank, cleanup only when both ranks are done.  With
\* both values it synchronizes the device, which may fail too.
AwaitedDone(c) ==
    /\ step[c] = "await" /\ (Done(Mine) \/ (arg[c] /\ Failed(Mine)))
    /\ Step(c, "raising") \/ (~Failed(Mine) /\ Step(c, "ending"))

\* Cleanup waits no longer than the timeout, for the previous job and for its own.
TimesOut(c) ==
    /\ Timeouts /\ (step[c] = "settling" \/ (step[c] = "await" /\ ~arg[c]))
    /\ Step(c, "raising")

\* An exception from outside, a KeyboardInterrupt, ends any wait of run.
Interrupt(c) == Timeouts /\ step[c] \in {"settling", "await"} /\ Step(c, "raising")

RunRaises(c) ==
    /\ step[c] = "raising" /\ Abort /\ To(c, "ending")
    /\ UNCHANGED <<sessionVars, jobVars, workerVars, callLock, arg, opener, calls>>

\* The finally of run: the job is forgotten only when both ranks are done with it.
\* Mutant: it is forgotten always.
StillPendingNever == 0
StillPending == IF pendingJob # 0 /\ Done(pendingJob) THEN 0 ELSE pendingJob

RunEnds(c) ==
    /\ step[c] = "ending" /\ pendingJob' = StillPending
    /\ callLock' = Nobody /\ To(c, "idle")
    /\ UNCHANGED <<sessionVars, localOnly, results, coordination, workerVars, arg, opener, calls>>

-----------------------------------------------------------------------------
(* close *)

CallClose(c) ==
    /\ MayCall(c) /\ To(c, "close") /\ calls' = calls + 1
    /\ UNCHANGED <<inside, sessionVars, callLock, arg, opener>>

CloseRefused(c) ==
    /\ step[c] = "close" /\ callLock # Nobody /\ To(c, "idle") /\ opener' = Nobody
    /\ UNCHANGED <<inside, sessionVars, callLock, arg, calls>>

\* Another close has ended since this one looked: its assertion fails.
CloseBroken(c) ==
    step[c] = "close" /\ callLock = Nobody /\ isolation # "live" /\ Step(c, "broken")

Stopped == [r \in Ranks |-> Append(inbox[r], 0)]

CloseLock(c) ==
    /\ step[c] = "close" /\ callLock = Nobody /\ isolation = "live"
    /\ callLock' = c /\ closing' = TRUE /\ Abort
    /\ inbox' = Stopped /\ To(c, "joining")
    /\ UNCHANGED <<isolation, jobVars, at, job, ready, asked, reached, arg, opener, calls>>

Joined == \A r \in Ranks : at[r] \in Gone

CloseEnds(c) ==
    /\ step[c] = "joining" /\ Joined
    /\ isolation' = "restored" /\ pendingJob' = 0 /\ error' = FALSE /\ round' = {}
    /\ callLock' = Nobody /\ opener' = Nobody /\ To(c, "idle")
    /\ UNCHANGED <<closing, localOnly, results, sequential, turn, finished, group, workerVars,
                   arg, calls>>

CloseTimesOut(c) ==
    /\ step[c] = "joining" /\ Timeouts /\ ~Joined
    /\ callLock' = Nobody /\ opener' = Nobody /\ To(c, "idle")
    /\ UNCHANGED <<inside, sessionVars, arg, calls>>

\* The assertion's caller sees it raise.
BrokenRaises(c) == step[c] = "broken" /\ Step(c, "idle")

-----------------------------------------------------------------------------

Callback(r) == Return(r) \/ Raise(r)
Coordinate(r) == Resume(r) \/ WaitFails(r) \/ CallAborts(r) \/ Enter(r) \/ EnterFails(r)
Work(r) ==
    \/ Initialise(r) \/ InitFails(r) \/ TakeJob(r) \/ TakeStop(r) \/ Leave(r)
    \/ Finish(r) \/ FinishFails(r) \/ Settle(r) \/ Fail(r)
OpenStep(c) == Opened(c) \/ OpenFails(c) \/ \E r \in Ranks : StartWorker(c, r)
RunStep(c) ==
    \/ RunLock(c) \/ Begin(c) \/ BeginFails(c) \/ BeginCleanup(c) \/ PreviousDone(c)
    \/ Submit(c) \/ SubmitFails(c) \/ AwaitedDone(c) \/ TimesOut(c) \/ RunRaises(c) \/ RunEnds(c)
CloseStep(c) ==
    \/ CloseRefused(c) \/ CloseBroken(c) \/ CloseLock(c) \/ CloseEnds(c) \/ CloseTimesOut(c)
CallerStep(c) == OpenStep(c) \/ RunStep(c) \/ CloseStep(c) \/ BrokenRaises(c)

\* No call is under way, and the workers have nothing to do or are gone.
Rest ==
    /\ step = [c \in Callers |-> "idle"]
    /\ \A r \in Ranks : at[r] \in Gone \/ (at[r] = "idle" /\ inbox[r] = <<>>)
    /\ UNCHANGED vars

Next ==
    \/ Rest
    \/ \E r \in Ranks : Callback(r) \/ Refuse(r) \/ Coordinate(r) \/ Work(r)
    \/ \E r \in Ranks, g \in Groups : Collective(r, g)
    \/ \E c \in Callers : Open(c) \/ CallRun(c) \/ CallClose(c) \/ Interrupt(c) \/ CallerStep(c)

Spec == Init /\ [][Next]_vars

\* Threads run on, and a wait with a timeout ends.  Nobody has to call or to interrupt,
\* and a callback may compute for ever.
Fairness ==
    /\ \A r \in Ranks : WF_vars(Coordinate(r)) /\ WF_vars(Work(r))
    /\ \A c \in Callers : WF_vars(CallerStep(c))

\* Every callback returns or raises in the end, however often it catches the error of
\* a collective and tries another.
FairSpec == Spec /\ Fairness /\ \A r \in Ranks : SF_vars(Callback(r))

-----------------------------------------------------------------------------
(* Safety *)

\* In sequential mode the two ranks never compute at the same time, so that both may use
\* one set of temporary buffers (sequential.py:4-5).
OneRankComputes ==
    sequential /\ ~error => ~(\A r \in Ranks : at[r] = "callback")

\* A rank starts a job only when both ranks are done with every earlier one: cleanup
\* does not race the work that failed before it (sequential.py:388-389).
PreviousUnwound ==
    \A r \in Ranks : job[r] # 0 => \A j \in 1 .. job[r] - 1 : Done(j)

\* When a distributed job gives a value on both ranks, they completed the same
\* collectives in the same groups and in the same order.
MatchedCollectives ==
    Mine # 0 /\ ~localOnly[Mine] /\ (\A r \in Ranks : results[Mine][r] = "value")
        => reached[0] = reached[1]

\* A failed rank has poisoned the executor by the time its run can see it: nothing
\* distributed begins while its peer may still be inside the callback.
FailurePoisons ==
    isolation = "live" /\ (\E j \in Jobs : Failed(j)) => error

\* The wait for a distributed job has no timeout (sequential.py:402), so each rank has to
\* be done with it, at it, or alive with the job ahead of any order to stop.
AwaitedIsReachable ==
    \A c \in Callers : step[c] = "await" /\ arg[c] => \A r \in Ranks :
        \/ results[Mine][r] # "none" \/ job[r] = Mine
        \/ /\ at[r] \notin Gone \cup {"leaving"}
           /\ \E i \in DOMAIN inbox[r] : inbox[r][i] = Mine /\ \A k \in 1 .. i - 1 : inbox[r][k] # 0

\* The process's distributed state comes back only when both workers are gone, after a
\* failed start too, and nothing starts a thread afterwards.
WorkersBeforeRestore == isolation = "restored" => at \in [Ranks -> Gone]

-----------------------------------------------------------------------------
(* Liveness *)

\* Every run returns, on the first failure or with both results.
RunsReturn == \A c \in Callers : step[c] \in {"run", "await"} ~> step[c] = "idle"

\* A rank whose peer fails is released: it gets to the end of every job it starts.
RanksUnwind == \A r \in Ranks : job[r] # 0 ~> job[r] = 0

\* Every close returns with its workers joined, a failed start's close too.
ClosesReturn == \A c \in Callers : step[c] = "joining" ~> isolation = "restored"

\* Nobody is left waiting: every call ends, and so does every job a rank starts.
CallsEnd == RunsReturn /\ RanksUnwind /\ ClosesReturn
=============================================================================
