---------------------- MODULE SequentialExecutorProofs ----------------------
(***************************************************************************)
(* Proofs about SequentialExecutor, for any callers, groups and bounds:    *)
(* its types, and that ranks do not compute together, that jobs do not     *)
(* overlap, that a failure poisons the executor, that no run waits for a   *)
(* job a worker cannot reach, that workers end before isolation does, and  *)
(* that ranks that return completed the same collectives.                  *)
(***************************************************************************)
EXTENDS SequentialExecutor, SequenceTheorems, TLAPS

-----------------------------------------------------------------------------
(* The inductive invariant *)

Locked == {"choose", "settling", "submit", "await", "raising", "ending", "joining"}
Busy == {"entering", "callback", "joined", "turning", "aborting", "finishing", "settling",
         "failing", "failed"}
Alive == isolation # "restored"
AllDone == \A j \in Jobs : Done(j)

\* Who holds the call lock, while there is a runtime to hold it for, and who is inside
\* __enter__ while nobody else has the executor.
Session ==
    /\ isolation = "new" => \A c \in Callers : step[c] = "idle"
    /\ \A c \in Callers : step[c] \in Locked <=> callLock = c
    /\ callLock # Nobody => isolation = "live"
    /\ \A c \in Callers : step[c] = "starting" => opener = c
    /\ opener # Nobody =>
        /\ isolation = "live" /\ step[opener] \in {"starting", "close", "joining"}
        /\ \A c \in Callers \ {opener} : step[c] = "idle"

\* What a caller's stage says of the jobs.
Stages ==
    \A c \in Callers :
        /\ step[c] \in {"settling", "joining"} => error
        /\ step[c] = "settling" => pendingJob # 0 /\ ~arg[c]
        /\ step[c] = "submit" => AllDone /\ (arg[c] <=> ~error) /\ (arg[c] => ~finished)
        /\ step[c] = "await" => Mine # 0 /\ pendingJob = Mine

\* All jobs but the pending one are done, and it is too when nobody waits for it and
\* nothing failed.
Unfinished ==
    Alive =>
        /\ \A j \in Jobs : j # pendingJob => Done(j)
        /\ ~error /\ (\A c \in Callers : step[c] \notin {"await", "raising"}) => AllDone

\* A worker runs once its start-up has settled, has a job exactly while it is busy, and
\* every job before one in its queue is done.
Unwound ==
    /\ \A r \in Ranks : ready[r] # "none" => at[r] \notin {"none", "starting"}
    /\ \A r \in Ranks : at[r] \in Busy <=> job[r] # 0
    /\ \A r \in Ranks : \A i \in DOMAIN inbox[r] : \A j \in 1 .. inbox[r][i] - 1 : Done(j)

\* What only an error explains: a failed job, a worker that stops, a job for cleanup.
Poisoned ==
    Alive /\ ~error =>
        /\ \A r \in Ranks : at[r] \notin {"failed", "leaving", "dead"}
        /\ \A j \in Jobs : ~localOnly[j] /\ ~Failed(j)

\* Without an error, a rank has the last job ahead, in hand, or no job at all, and its
\* worker runs once the executor is open.
InStep ==
    Alive /\ ~error => \A r \in Ranks :
        /\ \/ inbox[r] = <<>> /\ job[r] = 0
           \/ inbox[r] = <<Mine>> /\ job[r] = 0 /\ Mine # 0 /\ results[Mine][r] = "none"
           \/ inbox[r] = <<>> /\ job[r] = Mine /\ Mine # 0 /\ results[Mine][r] = "none"
        /\ opener = Nobody /\ isolation = "live" => at[r] \notin {"none", "starting"}

Reachable(r) ==
    \/ results[Mine][r] # "none" \/ job[r] = Mine
    \/ /\ at[r] \notin Gone \cup {"leaving", "starting"}
       /\ \E i \in DOMAIN inbox[r] : inbox[r][i] = Mine /\ \A k \in 1 .. i - 1 : inbox[r][k] # 0
AllReachable == \A c \in Callers : step[c] = "await" /\ arg[c] => \A r \in Ranks : Reachable(r)

\* In sequential mode a rank computes in its turn or when the other has finished.
Turns ==
    Alive /\ ~error =>
        /\ sequential => \A r \in Ranks : at[r] = "callback" => turn = r \/ finished
        /\ finished => \E r \in Ranks : inbox[r] = <<>> /\ (job[r] = 0 \/ at[r] = "settling")

IInv ==
    /\ TypeOK /\ Session /\ Stages /\ Unfinished /\ Unwound /\ PreviousUnwound /\ Poisoned
    /\ InStep /\ AllReachable /\ Turns /\ WorkersBeforeRestore

-----------------------------------------------------------------------------
(* Facts about states *)

\* At most one caller is past the call lock, and nobody else is while one opens.
LEMMA OneInside ==
    ASSUME ExecutorAssumption, Session, NEW c \in Callers, step[c] \in Locked
    PROVE  /\ isolation = "live" /\ callLock = c
           /\ \A d \in Callers : step[d] \in Locked => d = c
           /\ step[c] # "joining" => opener = Nobody
  BY DEF ExecutorAssumption, Session, Locked

\* Without an error a busy rank is at the last job and not done with it.
LEMMA BusyUndone ==
    ASSUME IInv, Alive, ~error, NEW r \in Ranks, at[r] \in Busy
    PROVE  /\ inbox[r] = <<>> /\ job[r] = Mine /\ Mine \in Jobs
           /\ results[Mine][r] = "none" /\ ~Done(Mine)
<1>1. job[r] # 0
  BY DEF IInv, Unwound
<1>2. inbox[r] = <<>> /\ job[r] = Mine /\ Mine # 0 /\ results[Mine][r] = "none"
  BY <1>1 DEF IInv, InStep
<1>3. Mine \in Jobs
  BY <1>2 DEF IInv, TypeOK, Mine, Jobs
<1> QED BY <1>2, <1>3 DEF Done

\* Nobody submits a distributed job while a worker starts or is at work.
LEMMA NobodySubmits ==
    ASSUME ExecutorAssumption, IInv, NEW r \in Ranks, at[r] \in Busy \cup {"starting"}, ~error
    PROVE  \A c \in Callers : step[c] # "submit"
<1> SUFFICES ASSUME NEW c \in Callers, step[c] = "submit" PROVE FALSE
  OBVIOUS
<1>1. isolation = "live" /\ opener = Nobody
  BY OneInside DEF IInv, Locked
<1>2. AllDone
  BY DEF IInv, Stages
<1>3. at[r] \in Busy
  BY <1>1 DEF IInv, InStep, Alive
<1>4. Mine \in Jobs /\ ~Done(Mine)
  BY <1>1, <1>3, BusyUndone DEF Alive
<1> QED BY <1>2, <1>4 DEF AllDone

-----------------------------------------------------------------------------
(* Steps that move a worker on and change nothing else *)

\* A worker that goes from one place to another of the same kind, and into a callback
\* only when it may compute.
LEMMA MoveKeeps ==
    ASSUME ExecutorAssumption, IInv, NEW r \in Ranks, NEW place \in Places, Move(r, place),
           at[r] \notin Gone \cup {"settling"}, at[r] \in Busy <=> place \in Busy,
           place \notin {"none", "starting", "failed"},
           place \in {"leaving", "dead"} => at[r] = "leaving",
           place = "callback" => MayCompute(r)
    PROVE  IInv'
<1> USE DEF Move, Go, outside, coordination, sessionVars, jobVars, callerVars
<1>1. TypeOK'
  BY DEF IInv, TypeOK
<1>2. Session' /\ Stages' /\ Unfinished' /\ PreviousUnwound'
  BY DEF IInv, Session, Stages, Unfinished, PreviousUnwound, Alive, AllDone, Done, Jobs, Mine
<1>3. Unwound'
  BY DEF IInv, TypeOK, Unwound, Done
<1>4. Poisoned'
  BY DEF IInv, TypeOK, Poisoned, Alive, Jobs, Failed
<1>5. InStep'
  BY DEF IInv, TypeOK, InStep, Alive, Mine
<1>6. \A s \in Ranks : Reachable(s) => Reachable(s)'
  BY DEF IInv, TypeOK, Reachable, Mine, Gone
<1>7. AllReachable'
  BY <1>6 DEF IInv, AllReachable
<1>8. Turns'
  BY DEF IInv, TypeOK, Turns, Alive, MayCompute
<1>9. WorkersBeforeRestore'
  BY DEF IInv, TypeOK, WorkersBeforeRestore
<1> QED BY <1>1, <1>2, <1>3, <1>4, <1>5, <1>7, <1>8, <1>9 DEF IInv

\* Entering, waiting, returning and raising are such moves.
LEMMA WorkerMoves ==
    ASSUME ExecutorAssumption, IInv, NEW r \in Ranks,
           \/ Refuse(r) \/ WaitFails(r) \/ Leave(r) \/ Enter(r) \/ EnterFails(r)
           \/ Return(r) \/ Raise(r) \/ FinishFails(r)
    PROVE  IInv'
<1> USE MoveKeeps DEF Busy, Gone, Places, Waiting
<1>1. CASE Refuse(r) BY <1>1 DEF Refuse
<1>2. CASE WaitFails(r) BY <1>2 DEF WaitFails
<1>3. CASE Leave(r) BY <1>3 DEF Leave
<1>4. CASE Enter(r) BY <1>4 DEF Enter
<1>5. CASE EnterFails(r) BY <1>5 DEF EnterFails
<1>6. CASE Return(r) BY <1>6 DEF Return
<1>7. CASE Raise(r) BY <1>7 DEF Raise
<1>8. CASE FinishFails(r) BY <1>8 DEF FinishFails
<1> QED BY <1>1, <1>2, <1>3, <1>4, <1>5, <1>6, <1>7, <1>8

-----------------------------------------------------------------------------
(* Steps that move a caller on and change nothing else *)

\* A caller that goes on from one stage to the next.
LEMMA StepKeeps ==
    ASSUME ExecutorAssumption, IInv, NEW c \in Callers, NEW where \in Steps, Step(c, where),
           step[c] # "idle", step[c] \in Locked <=> where \in Locked,
           opener = c => where = "close",
           where \notin {"starting", "await", "joining"},
           where = "settling" => error /\ pendingJob # 0 /\ ~arg[c],
           where = "submit" => AllDone /\ error /\ ~arg[c],
           where # "raising" /\ step[c] \in {"await", "raising"} => AllDone
    PROVE  IInv'
<1> USE DEF Step, To, inside, coordination, sessionVars, jobVars, workerVars
<1>1. TypeOK'
  BY DEF IInv, TypeOK
<1>2. Session'
  <2>1. \A d \in Callers : step'[d] = IF d = c THEN where ELSE step[d]
    BY DEF IInv, TypeOK
  <2>2. opener # Nobody => opener \in Callers
    BY DEF IInv, TypeOK
  <2>3. opener \in {Nobody, c}
    BY <2>2 DEF IInv, Session
  <2> QED BY <2>1, <2>3 DEF IInv, Session
<1>3. Stages'
  BY DEF IInv, TypeOK, Stages, AllDone, Done, Jobs, Mine
<1>4. Unfinished'
  BY DEF IInv, TypeOK, Unfinished, Alive, AllDone, Done, Jobs
<1>5. Unwound' /\ PreviousUnwound' /\ WorkersBeforeRestore'
  BY DEF IInv, Unwound, PreviousUnwound, WorkersBeforeRestore, Done
<1>6. Poisoned' /\ InStep' /\ Turns'
  BY DEF IInv, Poisoned, InStep, Turns, Alive, Jobs, Failed, Mine
<1>7. \A s \in Ranks : Reachable(s) => Reachable(s)'
  BY DEF Reachable, Mine
<1>8. AllReachable'
  BY <1>7 DEF IInv, TypeOK, AllReachable
<1> QED BY <1>1, <1>2, <1>3, <1>4, <1>5, <1>6, <1>8 DEF IInv

\* The checks and the waits of __enter__, run and close are such steps.
LEMMA CallerMoves ==
    ASSUME ExecutorAssumption, IInv, NEW c \in Callers,
           \/ OpenFails(c) \/ BeginFails(c) \/ BeginCleanup(c) \/ PreviousDone(c)
           \/ SubmitFails(c) \/ AwaitedDone(c) \/ TimesOut(c) \/ Interrupt(c)
           \/ CloseBroken(c) \/ BrokenRaises(c)
    PROVE  IInv'
<1> USE DEF Locked, Steps
<1>1. opener = c => step[c] \in {"starting", "close", "joining"} /\ isolation = "live"
  BY DEF IInv, Session, ExecutorAssumption
<1>2. \A d \in Callers : step[d] \in Locked => Alive
  BY OneInside DEF IInv, Alive
<1>3. Unfinished /\ Stages
  BY DEF IInv
<1>4. CASE OpenFails(c)
  BY <1>4, StepKeeps DEF OpenFails
<1>5. CASE BeginFails(c)
  BY <1>1, <1>5, StepKeeps DEF BeginFails
<1>6. CASE BeginCleanup(c)
  <2>1. pendingJob = 0 => AllDone
    <3>1. \A j \in Jobs : j # 0
      BY DEF IInv, TypeOK, Jobs
    <3> QED BY <1>2, <1>3, <1>6, <3>1 DEF BeginCleanup, Unfinished, AllDone
  <2> QED BY <1>1, <1>6, <2>1, StepKeeps DEF BeginCleanup
<1>7. CASE PreviousDone(c)
  <2>1. AllDone
    BY <1>2, <1>3, <1>7 DEF PreviousDone, Unfinished, AllDone
  <2>2. error /\ ~arg[c]
    BY <1>3, <1>7 DEF PreviousDone, Stages
  <2> QED BY <1>1, <1>7, <2>1, <2>2, StepKeeps DEF PreviousDone
<1>8. CASE SubmitFails(c)
  BY <1>1, <1>8, StepKeeps DEF SubmitFails
<1>9. CASE AwaitedDone(c)
  <2>1. ~Failed(Mine) => AllDone
    BY <1>2, <1>3, <1>9 DEF AwaitedDone, Unfinished, Stages, AllDone
  <2> QED BY <1>1, <1>9, <2>1, StepKeeps DEF AwaitedDone
<1>10. CASE TimesOut(c)
  BY <1>1, <1>10, StepKeeps DEF TimesOut
<1>11. CASE Interrupt(c)
  BY <1>1, <1>11, StepKeeps DEF Interrupt
<1>12. CASE CloseBroken(c)
  BY <1>1, <1>12, StepKeeps DEF CloseBroken
<1>13. CASE BrokenRaises(c)
  BY <1>1, <1>13, StepKeeps DEF BrokenRaises
<1> QED BY <1>4, <1>5, <1>6, <1>7, <1>8, <1>9, <1>10, <1>11, <1>12, <1>13

-----------------------------------------------------------------------------
(* Steps of a worker that leave jobs, queues and callers alone *)

Bound == Gone \cup {"leaving", "starting"}

\* What a worker cannot disturb without touching a job or a queue.
LEMMA WorkKeeps ==
    ASSUME ExecutorAssumption, IInv, TypeOK', UNCHANGED <<outside, job, inbox>>,
           NEW r \in Ranks, at[r] \notin Gone, error => error',
           \A s \in Ranks : at[s] \in Busy <=> at'[s] \in Busy,
           \A s \in Ranks : at'[s] \in Bound => at[s] \in Bound,
           \A s \in Ranks : ready'[s] # "none" => at'[s] \notin {"none", "starting"}
    PROVE  /\ Session' /\ Unfinished' /\ Unwound' /\ PreviousUnwound' /\ AllReachable'
           /\ WorkersBeforeRestore'
<1> USE DEF outside, sessionVars, jobVars, callerVars
<1>1. Session' /\ PreviousUnwound' /\ Unfinished'
  BY DEF IInv, Session, PreviousUnwound, Unfinished, Alive, AllDone, Done, Jobs
<1>2. Unwound'
  BY DEF IInv, Unwound, Done
<1>3. \A s \in Ranks : Reachable(s) => Reachable(s)'
  BY DEF Reachable, Mine, Bound
<1>4. AllReachable'
  BY <1>3 DEF IInv, AllReachable
<1>5. WorkersBeforeRestore'
  BY DEF IInv, TypeOK, WorkersBeforeRestore
<1> QED BY <1>1, <1>2, <1>4, <1>5

\* With an error, only the stage of a caller about to submit could suffer.
LEMMA AbortKeeps ==
    ASSUME ExecutorAssumption, IInv, TypeOK', NEW r \in Ranks,
           at[r] \in Busy \cup {"starting"}, error',
           UNCHANGED <<outside, job, inbox, finished>>,
           \A s \in Ranks : at[s] \in Busy <=> at'[s] \in Busy,
           \A s \in Ranks : at'[s] \in Bound => at[s] \in Bound,
           \A s \in Ranks : ready'[s] # "none" => at'[s] \notin {"none", "starting"}
    PROVE  IInv'
<1>1. /\ Session' /\ Unfinished' /\ Unwound' /\ PreviousUnwound' /\ AllReachable'
      /\ WorkersBeforeRestore'
  BY WorkKeeps DEF Busy, Gone
<1>2. Stages'
  <2>1. \A c \in Callers : step[c] = "submit" => error
    BY NobodySubmits
  <2> QED BY <2>1 DEF IInv, Stages, AllDone, Done, Jobs, Mine, outside, jobVars, callerVars
<1>3. Poisoned' /\ InStep' /\ Turns'
  BY DEF Poisoned, InStep, Turns
<1> QED BY <1>1, <1>2, <1>3 DEF IInv

\* The three places from which a worker reports an error.
LEMMA WorkerAborts ==
    ASSUME ExecutorAssumption, IInv, NEW r \in Ranks, CallAborts(r) \/ Fail(r) \/ InitFails(r)
    PROVE  IInv'
<1> USE DEF CallAborts, Fail, InitFails, Abort, Go
<1>1. TypeOK'
  BY DEF IInv, TypeOK, Places, outside, sessionVars, jobVars, callerVars
<1>2. \A s \in Ranks : at'[s] = IF s = r THEN at'[r] ELSE at[s]
  BY DEF IInv, TypeOK
<1>3. /\ at[r] \in Busy \cup {"starting"}
      /\ at[r] \in Busy <=> at'[r] \in Busy
      /\ at'[r] \in Bound => at[r] \in Bound
  BY DEF IInv, TypeOK, Busy, Bound, Gone
<1>4. \A s \in Ranks : ready'[s] # "none" => at'[s] \notin {"none", "starting"}
  BY <1>2 DEF IInv, TypeOK, Unwound
<1> QED BY <1>1, <1>2, <1>3, <1>4, AbortKeeps

\* A rank goes on after a complete round, in its turn.
LEMMA ResumeKeeps ==
    ASSUME ExecutorAssumption, IInv, NEW r \in Ranks, Resume(r) PROVE IInv'
<1> USE DEF Resume, Go, outside, coordination, sessionVars, jobVars, callerVars
<1>1. TypeOK'
  BY DEF IInv, TypeOK, Places
<1>2. \A s \in Ranks : at'[s] = IF s = r THEN "callback" ELSE at[s]
  BY DEF IInv, TypeOK
<1>3. /\ Session' /\ Unfinished' /\ Unwound' /\ PreviousUnwound' /\ AllReachable'
      /\ WorkersBeforeRestore'
  <2>1. \A s \in Ranks : ready'[s] # "none" => at'[s] \notin {"none", "starting"}
    BY <1>2 DEF IInv, TypeOK, Unwound
  <2> QED BY <1>1, <1>2, <2>1, WorkKeeps DEF Busy, Gone, Bound
<1>4. Stages'
  BY DEF IInv, Stages, AllDone, Done, Jobs, Mine
<1>5. Poisoned' /\ InStep' /\ Turns'
  BY <1>2 DEF IInv, Poisoned, InStep, Turns, Alive, Jobs, Failed, Mine, MayCompute
<1> QED BY <1>1, <1>3, <1>4, <1>5 DEF IInv

\* A worker is up.
LEMMA InitialiseKeeps ==
    ASSUME ExecutorAssumption, IInv, NEW r \in Ranks, Initialise(r) PROVE IInv'
<1> USE DEF Initialise, Go, outside, coordination, sessionVars, jobVars, callerVars
<1>1. TypeOK'
  BY DEF IInv, TypeOK, Places
<1>2. \A s \in Ranks : at'[s] = IF s = r THEN "idle" ELSE at[s]
  BY DEF IInv, TypeOK
<1>3. /\ Session' /\ Unfinished' /\ Unwound' /\ PreviousUnwound' /\ AllReachable'
      /\ WorkersBeforeRestore'
  <2>1. \A s \in Ranks : ready'[s] # "none" => at'[s] \notin {"none", "starting"}
    BY <1>2 DEF IInv, TypeOK, Unwound
  <2> QED BY <1>1, <1>2, <2>1, WorkKeeps DEF Busy, Gone, Bound
<1>4. Stages'
  BY DEF IInv, Stages, AllDone, Done, Jobs, Mine
<1>5. Poisoned' /\ InStep' /\ Turns'
  BY <1>2 DEF IInv, Poisoned, InStep, Turns, Alive, Jobs, Failed, Mine
<1> QED BY <1>1, <1>3, <1>4, <1>5 DEF IInv

\* The rank that finishes is the one that lets the other go on, so nobody submits yet.
LEMMA FinishKeeps ==
    ASSUME ExecutorAssumption, IInv, NEW r \in Ranks, Finish(r) PROVE IInv'
<1> USE DEF Finish, MayFinish, Go, outside, sessionVars, jobVars, callerVars
<1>1. TypeOK'
  BY DEF IInv, TypeOK, Places
<1>2. \A s \in Ranks : at'[s] = IF s = r THEN "settling" ELSE at[s]
  BY DEF IInv, TypeOK
<1>3. /\ Session' /\ Unfinished' /\ Unwound' /\ PreviousUnwound' /\ AllReachable'
      /\ WorkersBeforeRestore'
  <2>1. \A s \in Ranks : ready'[s] # "none" => at'[s] \notin {"none", "starting"}
    BY <1>2 DEF IInv, TypeOK, Unwound
  <2> QED BY <1>1, <1>2, <2>1, WorkKeeps DEF Busy, Gone, Bound
<1>4. Stages'
  <2>1. \A c \in Callers : step[c] # "submit"
    BY NobodySubmits DEF Busy
  <2> QED BY <2>1 DEF IInv, Stages, AllDone, Done, Jobs, Mine
<1>5. Poisoned' /\ InStep'
  BY <1>2 DEF IInv, Poisoned, InStep, Alive, Jobs, Failed, Mine
<1>6. Turns'
  <2>1. Alive => inbox[r] = <<>>
    BY BusyUndone DEF Busy
  <2> QED BY <1>2, <2>1 DEF Turns, Alive
<1> QED BY <1>1, <1>3, <1>4, <1>5, <1>6 DEF IInv

\* Only the rank whose turn it is makes a collective, unless the other has finished:
\* then there is none to make.
LEMMA CollectiveKeeps ==
    ASSUME ExecutorAssumption, IInv, NEW r \in Ranks, NEW g \in Groups, Collective(r, g)
    PROVE  IInv'
<1> USE DEF Collective, Joinable, Go, outside, sessionVars, jobVars, callerVars
<1>1. TypeOK'
  <2>1. turn' \in Ranks
    BY DEF Ranks, Other
  <2>2. at \in [Ranks -> Places] /\ round \subseteq Ranks
    BY DEF IInv, TypeOK
  <2>3. {"joined", "turning", "aborting"} \subseteq Places
    BY DEF Places, Waiting
  <2>4. round' \subseteq Ranks
    BY <2>2
  <2>5. at' \in [Ranks -> Places]
    BY <2>2, <2>3
  <2> QED BY <2>1, <2>4, <2>5 DEF IInv, TypeOK
<1>2. \A s \in Ranks : \/ at'[s] = at[s] /\ s # r
                       \/ at[s] \in {"callback", "joined"}
                          /\ at'[s] \in {"joined", "turning", "aborting"}
  BY DEF IInv, TypeOK
<1>3. /\ Session' /\ Unfinished' /\ Unwound' /\ PreviousUnwound' /\ AllReachable'
      /\ WorkersBeforeRestore'
  <2>1. \A s \in Ranks : at[s] \in Busy <=> at'[s] \in Busy
    BY <1>2 DEF Busy
  <2>2. \A s \in Ranks : at'[s] \in Bound => at[s] \in Bound
    BY <1>2 DEF Bound, Gone
  <2>3. \A s \in Ranks : ready'[s] # "none" => at'[s] \notin {"none", "starting"}
    BY <1>2 DEF IInv, Unwound
  <2> QED BY <1>1, <2>1, <2>2, <2>3, WorkKeeps DEF Gone
<1>4. Stages'
  BY DEF IInv, Stages, AllDone, Done, Jobs, Mine
<1>5. Poisoned' /\ InStep'
  BY <1>2 DEF IInv, Poisoned, InStep, Alive, Jobs, Failed, Mine
<1>6. Turns'
  BY <1>2 DEF IInv, Turns, Alive
<1> QED BY <1>1, <1>3, <1>4, <1>5, <1>6 DEF IInv

-----------------------------------------------------------------------------
(* Steps of a worker on its queue and its job *)

\* The head and the tail of a queue.
LEMMA Taken ==
    ASSUME NEW S, NEW q \in Seq(S), q # <<>>
    PROVE  /\ Head(q) = q[1] /\ Head(q) \in S /\ Tail(q) \in Seq(S)
           /\ Len(q) \in Nat \ {0} /\ DOMAIN q = 1 .. Len(q)
           /\ DOMAIN Tail(q) = 1 .. Len(q) - 1
           /\ \A i \in 1 .. Len(q) - 1 : Tail(q)[i] = q[i + 1]
  OBVIOUS

\* The job taken is the first of the queue, and what a caller waits for stays behind it
\* or is this job.
LEMMA TakeJobKeeps ==
    ASSUME ExecutorAssumption, IInv, NEW r \in Ranks, TakeJob(r) PROVE IInv'
<1> DEFINE j == Head(inbox[r])
           place == IF localOnly[j] THEN "callback" ELSE "entering"
<1> USE DEF TakeJob, Go, outside, coordination, sessionVars, jobVars, callerVars
<1>1. /\ j \in 0 .. Len(localOnly) /\ j # 0 /\ j = inbox[r][1]
      /\ Tail(inbox[r]) \in Seq(0 .. Len(localOnly))
      /\ Len(inbox[r]) \in Nat \ {0} /\ DOMAIN inbox[r] = 1 .. Len(inbox[r])
      /\ DOMAIN Tail(inbox[r]) = 1 .. Len(inbox[r]) - 1
      /\ \A i \in 1 .. Len(inbox[r]) - 1 : Tail(inbox[r])[i] = inbox[r][i + 1]
  <2>1. inbox[r] \in Seq(0 .. Len(localOnly))
    BY DEF IInv, TypeOK
  <2> QED BY <2>1, Taken
<1>2. /\ \A s \in Ranks : at'[s] = IF s = r THEN place ELSE at[s]
      /\ \A s \in Ranks : job'[s] = IF s = r THEN j ELSE job[s]
      /\ \A s \in Ranks : inbox'[s] = IF s = r THEN Tail(inbox[r]) ELSE inbox[s]
  BY DEF IInv, TypeOK
<1>3. TypeOK'
  <2>1. at' \in [Ranks -> Places]
    BY DEF IInv, TypeOK, Places
  <2>2. job' \in [Ranks -> 0 .. Len(localOnly)]
    BY <1>1 DEF IInv, TypeOK
  <2>3. inbox' \in [Ranks -> Seq(0 .. Len(localOnly))]
    BY <1>1 DEF IInv, TypeOK
  <2>4. reached' \in [Ranks -> Seq(Groups)]
    BY DEF IInv, TypeOK
  <2> QED BY <2>1, <2>2, <2>3, <2>4 DEF IInv, TypeOK
<1>4. Session' /\ Stages' /\ Unfinished'
  BY DEF IInv, Session, Stages, Unfinished, Alive, AllDone, Done, Jobs, Mine
<1>5. Unwound'
  <2>1. \A s \in Ranks : at'[s] \in Busy <=> job'[s] # 0
    BY <1>1, <1>2 DEF IInv, Unwound, Busy
  <2>2. ASSUME NEW s \in Ranks, NEW i \in DOMAIN inbox'[s], NEW k \in 1 .. inbox'[s][i] - 1
        PROVE  Done(k)'
    <3>1. \E h \in DOMAIN inbox[s] : inbox'[s][i] = inbox[s][h]
      BY <1>1, <1>2, <2>2
    <3> QED BY <2>2, <3>1 DEF IInv, Unwound, Done
  <2>3. \A s \in Ranks : ready'[s] # "none" => at'[s] \notin {"none", "starting"}
    BY <1>2 DEF IInv, Unwound
  <2> QED BY <2>1, <2>2, <2>3 DEF Unwound
<1>6. PreviousUnwound'
  <2>1. \A k \in 1 .. j - 1 : Done(k)
    BY <1>1 DEF IInv, Unwound
  <2> QED BY <1>2, <2>1 DEF IInv, PreviousUnwound, Done
<1>7. Poisoned'
  BY <1>2 DEF IInv, Poisoned, Alive, Jobs, Failed
<1>8. ASSUME Alive, ~error
      PROVE  inbox[r] = <<Mine>> /\ j = Mine /\ Tail(inbox[r]) = <<>> /\ Mine # 0
             /\ results[Mine][r] = "none" /\ job[r] = 0 /\ ~localOnly[Mine]
  <2>1. inbox[r] = <<Mine>> /\ job[r] = 0 /\ Mine # 0 /\ results[Mine][r] = "none"
    BY <1>8 DEF IInv, InStep
  <2>2. Mine \in Jobs
    BY <2>1 DEF IInv, TypeOK, Mine, Jobs
  <2> QED BY <1>8, <2>1, <2>2 DEF IInv, Poisoned
<1>9. InStep'
  <2> SUFFICES ASSUME Alive, ~error PROVE InStep'
    BY DEF InStep, Alive
  <2>1. inbox'[r] = <<>> /\ job'[r] = Mine' /\ Mine' # 0 /\ results'[Mine'][r] = "none"
    BY <1>2, <1>8 DEF Mine
  <2> QED BY <1>2, <2>1 DEF IInv, InStep, Alive, Mine
<1>10. AllReachable'
  <2> SUFFICES ASSUME NEW c \in Callers, step[c] = "await", arg[c], NEW s \in Ranks
               PROVE  Reachable(s)'
    BY DEF AllReachable
  <2>1. Reachable(s)
    BY DEF IInv, AllReachable
  <2>2. Mine # 0
    BY DEF IInv, Stages
  <2> QED
    <3>1. CASE s # r
      BY <1>2, <2>1, <3>1 DEF Reachable, Mine
    <3>2. CASE s = r /\ inbox[r][1] = Mine
      BY <1>1, <1>2, <3>2 DEF Reachable, Mine
    <3>3. CASE s = r /\ results[Mine][r] # "none"
      BY <3>3 DEF Reachable, Mine
    <3>4. CASE s = r /\ inbox[r][1] # Mine /\ results[Mine][r] = "none"
      <4>1. job[r] = 0
        BY DEF IInv, Unwound, Busy
      <4>2. PICK i \in DOMAIN inbox[r] :
                inbox[r][i] = Mine /\ \A k \in 1 .. i - 1 : inbox[r][k] # 0
        BY <2>1, <2>2, <3>4, <4>1 DEF Reachable
      <4>3. /\ i - 1 \in DOMAIN inbox'[r] /\ inbox'[r][i - 1] = Mine
            /\ \A k \in 1 .. i - 2 : inbox'[r][k] # 0
        <5>1. i \in 2 .. Len(inbox[r])
          BY <1>1, <3>4, <4>2
        <5>2. \A k \in 1 .. i - 1 : Tail(inbox[r])[k] = inbox[r][k + 1]
          BY <1>1, <5>1
        <5>3. \A k \in 1 .. i - 2 : inbox[r][k + 1] # 0
          BY <4>2, <5>1
        <5>4. i - 1 \in 1 .. Len(inbox[r]) - 1 /\ i - 1 + 1 = i
          BY <1>1, <5>1
        <5>5. Tail(inbox[r])[i - 1] = Mine
          BY <4>2, <5>2, <5>4
        <5>6. \A k \in 1 .. i - 2 : Tail(inbox[r])[k] # 0
          BY <1>1, <5>1, <5>2, <5>3
        <5>7. inbox'[r] = Tail(inbox[r])
          BY <1>2
        <5> HIDE DEF TakeJob
        <5> QED BY <1>1, <5>4, <5>5, <5>6, <5>7
      <4>4. at'[r] \notin Gone \cup {"leaving", "starting"}
        BY <1>2 DEF Gone
      <4>5. \E h \in DOMAIN inbox'[r] :
                inbox'[r][h] = Mine' /\ \A k \in 1 .. h - 1 : inbox'[r][k] # 0
        <5>1. Mine' = Mine /\ i - 1 - 1 = i - 2
          BY <1>1, <4>2 DEF Mine
        <5> QED BY <4>3, <5>1
      <4> QED BY <3>4, <4>4, <4>5 DEF Reachable
    <3> QED BY <3>1, <3>2, <3>3, <3>4
<1>11. Turns'
  BY <1>2, <1>8 DEF IInv, Turns, Alive
<1>12. WorkersBeforeRestore'
  BY <1>2 DEF IInv, TypeOK, WorkersBeforeRestore, Gone
<1> QED BY <1>3, <1>4, <1>5, <1>6, <1>7, <1>9, <1>10, <1>11, <1>12 DEF IInv

\* A worker told to stop belongs to an executor that failed or is closing; what is still
\* reachable lies ahead of the order to stop, and so is not in this queue.
LEMMA TakeStopKeeps ==
    ASSUME ExecutorAssumption, IInv, NEW r \in Ranks, TakeStop(r) PROVE IInv'
<1> USE DEF TakeStop, Go, outside, coordination, sessionVars, jobVars, callerVars
<1>1. /\ inbox[r][1] = 0 /\ Tail(inbox[r]) \in Seq(0 .. Len(localOnly))
      /\ Len(inbox[r]) \in Nat \ {0} /\ DOMAIN inbox[r] = 1 .. Len(inbox[r])
      /\ DOMAIN Tail(inbox[r]) = 1 .. Len(inbox[r]) - 1
      /\ \A i \in 1 .. Len(inbox[r]) - 1 : Tail(inbox[r])[i] = inbox[r][i + 1]
  <2>1. inbox[r] \in Seq(0 .. Len(localOnly)) /\ inbox[r] # <<>> /\ Head(inbox[r]) = 0
    BY DEF IInv, TypeOK
  <2> HIDE DEF TakeStop
  <2>2. Head(inbox[r]) \in 0 .. Len(localOnly) /\ Head(inbox[r]) = inbox[r][1]
    BY <2>1, Taken
  <2> QED BY <2>1, <2>2, Taken
<1>2. /\ \A s \in Ranks : at'[s] = IF s = r THEN "leaving" ELSE at[s]
      /\ \A s \in Ranks : inbox'[s] = IF s = r THEN Tail(inbox[r]) ELSE inbox[s]
  BY DEF IInv, TypeOK
<1>3. TypeOK'
  <2>1. at' \in [Ranks -> Places]
    BY DEF IInv, TypeOK, Places
  <2>2. inbox' \in [Ranks -> Seq(0 .. Len(localOnly))]
    BY <1>1 DEF IInv, TypeOK
  <2> QED BY <2>1, <2>2 DEF IInv, TypeOK
<1>4. Session' /\ Stages' /\ Unfinished' /\ PreviousUnwound'
  BY DEF IInv, Session, Stages, Unfinished, PreviousUnwound, Alive, AllDone, Done, Jobs, Mine
<1>5. Unwound'
  <2>1. \A s \in Ranks : at'[s] \in Busy <=> job'[s] # 0
    BY <1>2 DEF IInv, Unwound, Busy
  <2>2. ASSUME NEW s \in Ranks, NEW i \in DOMAIN inbox'[s], NEW k \in 1 .. inbox'[s][i] - 1
        PROVE  Done(k)'
    <3>1. \E h \in DOMAIN inbox[s] : inbox'[s][i] = inbox[s][h]
      BY <1>1, <1>2, <2>2
    <3> QED BY <2>2, <3>1 DEF IInv, Unwound, Done
  <2>3. \A s \in Ranks : ready'[s] # "none" => at'[s] \notin {"none", "starting"}
    BY <1>2 DEF IInv, Unwound
  <2> QED BY <2>1, <2>2, <2>3 DEF Unwound
<1>6. Alive => error
  <2> SUFFICES ASSUME Alive, ~error PROVE FALSE
    OBVIOUS
  <2>1. inbox[r] = <<Mine>> /\ Mine # 0
    BY DEF IInv, InStep
  <2> QED BY <1>1, <2>1
<1>7. Poisoned' /\ InStep' /\ Turns'
  BY <1>6 DEF Poisoned, InStep, Turns, Alive
<1>8. AllReachable'
  <2> SUFFICES ASSUME NEW c \in Callers, step[c] = "await", arg[c], NEW s \in Ranks
               PROVE  Reachable(s)'
    BY DEF AllReachable
  <2>1. Reachable(s)
    BY DEF IInv, AllReachable
  <2>2. Mine # 0
    BY DEF IInv, Stages
  <2>3. CASE s # r \/ results[Mine][s] # "none" \/ job[s] = Mine
    BY <1>2, <2>1, <2>3 DEF Reachable, Mine
  <2>4. CASE s = r /\ results[Mine][r] = "none" /\ job[r] # Mine
    <3>1. PICK i \in DOMAIN inbox[r] :
              inbox[r][i] = Mine /\ \A k \in 1 .. i - 1 : inbox[r][k] # 0
      BY <2>1, <2>4 DEF Reachable
    <3> QED BY <1>1, <2>2, <3>1
  <2> QED BY <2>3, <2>4
<1>9. WorkersBeforeRestore'
  BY <1>2 DEF IInv, TypeOK, WorkersBeforeRestore, Gone
<1> QED BY <1>3, <1>4, <1>5, <1>7, <1>8, <1>9 DEF IInv

\* A result is set once and stays.
LEMMA SettleKeeps ==
    ASSUME ExecutorAssumption, IInv, NEW r \in Ranks, Settle(r) PROVE IInv'
<1> DEFINE value == IF at[r] = "failed" THEN "error" ELSE "value"
<1> USE DEF Settle, Go, coordination, sessionVars, callerVars
<1>1. job[r] \in Jobs /\ at[r] \in Busy
  BY DEF IInv, TypeOK, Unwound, Busy, Jobs
<1>2. /\ \A s \in Ranks : at'[s] = IF s = r THEN "idle" ELSE at[s]
      /\ \A s \in Ranks : job'[s] = IF s = r THEN 0 ELSE job[s]
      /\ \A j \in Jobs, s \in Ranks :
            results'[j][s] = IF j = job[r] /\ s = r THEN value ELSE results[j][s]
  BY <1>1 DEF IInv, TypeOK, Jobs
<1>3. TypeOK'
  <2>1. at' \in [Ranks -> Places] /\ job' \in [Ranks -> 0 .. Len(localOnly)]
    BY DEF IInv, TypeOK, Places
  <2>2. results' \in Seq([Ranks -> {"none", "value", "error"}]) /\ Len(results') = Len(results)
    <3>1. job[r] \in 1 .. Len(results)
      BY <1>1 DEF IInv, TypeOK, Jobs
    <3>2. results[job[r]] \in [Ranks -> {"none", "value", "error"}]
      BY <3>1 DEF IInv, TypeOK
    <3>3. [results[job[r]] EXCEPT ![r] = value] \in [Ranks -> {"none", "value", "error"}]
      BY <3>2
    <3>4. results' = [results EXCEPT ![job[r]] = [results[job[r]] EXCEPT ![r] = value]]
      OBVIOUS
    <3> QED BY <3>1, <3>3, <3>4 DEF IInv, TypeOK
  <2> QED BY <2>1, <2>2 DEF IInv, TypeOK
<1>4. \A j \in Jobs : Done(j) => Done(j)'
  BY <1>2 DEF Done
<1>5. Session'
  BY DEF IInv, Session
<1>6. Stages' /\ Unfinished'
  BY <1>4 DEF IInv, Stages, Unfinished, Alive, AllDone, Jobs, Mine
<1>7. Unwound' /\ PreviousUnwound'
  <2>1. \A s \in Ranks : at'[s] \in Busy <=> job'[s] # 0
    BY <1>2 DEF IInv, Unwound, Busy
  <2>2. \A s \in Ranks : \A i \in DOMAIN inbox[s] : inbox[s][i] \in 0 .. Len(localOnly)
    BY DEF IInv, TypeOK
  <2>3. Jobs = 1 .. Len(localOnly) /\ \A s \in Ranks : job[s] \in 0 .. Len(localOnly)
    BY DEF IInv, TypeOK, Jobs
  <2>4. Unwound'
    BY <1>4, <2>1, <2>2, <2>3 DEF IInv, Unwound
  <2>5. PreviousUnwound'
    BY <1>2, <1>4, <2>3 DEF IInv, PreviousUnwound
  <2> QED BY <2>4, <2>5
<1>8. Poisoned'
  <2> SUFFICES ASSUME Alive, ~error PROVE Poisoned'
    BY DEF Poisoned, Alive
  <2>1. value = "value"
    BY DEF IInv, Poisoned
  <2>2. \A j \in Jobs : ~Failed(j)'
    BY <1>2, <2>1 DEF IInv, Poisoned, Failed
  <2> QED BY <1>2, <2>2 DEF IInv, Poisoned, Jobs, Alive
<1>9. InStep'
  <2> SUFFICES ASSUME Alive, ~error PROVE InStep'
    BY DEF InStep, Alive
  <2>1. inbox[r] = <<>>
    BY <1>1, BusyUndone
  <2>2. \A s \in Ranks : Mine # 0 /\ s # r => results'[Mine][s] = results[Mine][s]
    BY <1>2 DEF IInv, TypeOK, Mine, Jobs
  <2> QED BY <1>2, <2>1, <2>2 DEF IInv, InStep, Alive, Mine
<1>10. AllReachable'
  <2> SUFFICES ASSUME NEW c \in Callers, step[c] = "await", arg[c], NEW s \in Ranks
               PROVE  Reachable(s)'
    BY DEF AllReachable
  <2>1. Reachable(s) /\ Mine \in Jobs
    BY DEF IInv, AllReachable, Stages, TypeOK, Mine, Jobs
  <2>2. CASE s = r /\ job[r] = Mine
    BY <1>2, <2>1, <2>2 DEF Reachable, Mine
  <2>3. CASE s # r \/ job[r] # Mine
    BY <1>2, <2>1, <2>3 DEF Reachable, Mine, Gone
  <2> QED BY <2>2, <2>3
<1>11. Turns'
  <2> SUFFICES ASSUME Alive, ~error PROVE Turns'
    BY DEF Turns, Alive
  <2>1. inbox[r] = <<>>
    BY <1>1, BusyUndone
  <2> QED BY <1>2, <2>1 DEF IInv, Turns, Alive
<1>12. WorkersBeforeRestore'
  BY <1>2 DEF IInv, TypeOK, WorkersBeforeRestore, Gone
<1> QED BY <1>3, <1>5, <1>6, <1>7, <1>8, <1>9, <1>10, <1>11, <1>12 DEF IInv

-----------------------------------------------------------------------------
(* Steps of callers *)

\* A step that leaves workers, jobs and the coordinator alone and neither begins nor
\* ends a wait for a job.
LEMMA OutsideKeeps ==
    ASSUME ExecutorAssumption, IInv, TypeOK', Session', Stages',
           UNCHANGED <<inside, isolation>>,
           \A c \in Callers : step'[c] \in {"await", "raising"} <=> step[c] \in {"await", "raising"},
           \A c \in Callers : step'[c] = "await" => arg'[c] = arg[c] /\ step[c] = "await",
           isolation = "live" /\ opener # Nobody /\ opener' = Nobody /\ ~error =>
               \A r \in Ranks : at[r] \notin {"none", "starting"}
    PROVE  IInv'
<1> USE DEF inside, coordination, jobVars, workerVars
<1>1. Unfinished'
  BY DEF IInv, Unfinished, Alive, AllDone, Done, Jobs
<1>2. Unwound' /\ PreviousUnwound' /\ WorkersBeforeRestore'
  BY DEF IInv, Unwound, PreviousUnwound, WorkersBeforeRestore, Done
<1>3. Poisoned' /\ Turns'
  BY DEF IInv, Poisoned, Turns, Alive, Jobs, Failed
<1>4. InStep'
  BY DEF IInv, InStep, Alive, Mine
<1>5. \A r \in Ranks : Reachable(r) => Reachable(r)'
  BY DEF Reachable, Mine
<1>6. AllReachable'
  BY <1>5 DEF IInv, AllReachable
<1> QED BY <1>1, <1>2, <1>3, <1>4, <1>6 DEF IInv

\* Only an executor that is open and in nobody's __enter__ is called.
LEMMA CallKeeps ==
    ASSUME ExecutorAssumption, IInv, NEW c \in Callers, CallRun(c) \/ CallClose(c)
    PROVE  IInv'
<1> USE DEF CallRun, CallClose, MayCall, To, inside, coordination, jobVars, workerVars,
            sessionVars
<1>1. \A d \in Callers : step'[d] = IF d = c THEN step'[c] ELSE step[d]
  BY DEF IInv, TypeOK
<1>2. step'[c] \in {"run", "close"} /\ \A d \in Callers : d # c => arg'[d] = arg[d]
  BY DEF IInv, TypeOK
<1>3. TypeOK'
  <2>1. step' \in [Callers -> Steps] /\ arg' \in [Callers -> BOOLEAN]
    BY DEF IInv, TypeOK, Steps
  <2>2. calls' \in 0 .. MaxCalls
    BY DEF IInv, TypeOK, ExecutorAssumption
  <2> QED BY <2>1, <2>2 DEF IInv, TypeOK
<1>4. Session'
  BY <1>1, <1>2 DEF IInv, Session, Locked
<1>5. Stages'
  BY <1>1, <1>2 DEF IInv, Stages, AllDone, Done, Jobs, Mine
<1> QED BY <1>1, <1>2, <1>3, <1>4, <1>5, OutsideKeeps

\* run takes the call lock, or finds it taken or the executor closed.
LEMMA RunLockKeeps ==
    ASSUME ExecutorAssumption, IInv, NEW c \in Callers, RunLock(c) PROVE IInv'
<1> USE DEF RunLock, To, inside, coordination, jobVars, workerVars, sessionVars
<1>1. \A d \in Callers : step'[d] = IF d = c THEN step'[c] ELSE step[d]
  BY DEF IInv, TypeOK
<1>2. step'[c] \in {"broken", "idle", "choose"}
  BY DEF IInv, TypeOK
<1>3. TypeOK'
  BY DEF IInv, TypeOK, Steps
<1>4. Session'
  <2>1. opener = Nobody
    BY DEF IInv, Session, TypeOK
  <2> QED BY <1>1, <2>1 DEF IInv, TypeOK, Session, Locked, ExecutorAssumption
<1>5. Stages'
  BY <1>1, <1>2 DEF IInv, Stages, AllDone, Done, Jobs, Mine
<1> QED BY <1>1, <1>2, <1>3, <1>4, <1>5, OutsideKeeps

\* The first caller opens a new executor, and nobody else is in it.
LEMMA OpenKeeps ==
    ASSUME ExecutorAssumption, IInv, NEW c \in Callers, Open(c) PROVE IInv'
<1> USE DEF Open, To, inside, coordination, jobVars, workerVars
<1>1. \A d \in Callers : step'[d] = IF d = c THEN "starting" ELSE "idle"
  BY DEF IInv, TypeOK, Session
<1>2. TypeOK'
  BY DEF IInv, TypeOK, Steps
<1>3. Session' /\ Stages' /\ AllReachable'
  BY <1>1 DEF IInv, TypeOK, Session, Stages, AllReachable, Locked, ExecutorAssumption
<1>4. Unfinished'
  BY <1>1 DEF IInv, Unfinished, Alive, AllDone, Done, Jobs, Session
<1>5. Unwound' /\ PreviousUnwound' /\ WorkersBeforeRestore'
  BY DEF IInv, Unwound, PreviousUnwound, WorkersBeforeRestore, Done
<1>6. Poisoned' /\ Turns'
  BY DEF IInv, Poisoned, Turns, Alive, Jobs, Failed
<1>7. InStep'
  BY DEF IInv, InStep, Alive, Mine, ExecutorAssumption
<1> QED BY <1>2, <1>3, <1>4, <1>5, <1>6, <1>7 DEF IInv

\* A thread starts while its caller is in __enter__: no other caller is anywhere.
LEMMA StartWorkerKeeps ==
    ASSUME ExecutorAssumption, IInv, NEW c \in Callers, NEW r \in Ranks, StartWorker(c, r)
    PROVE  IInv'
<1> USE DEF StartWorker, Move, Go
<1>1. \A s \in Ranks : at'[s] = IF s = r THEN "starting" ELSE at[s]
  BY DEF IInv, TypeOK
<1>2. opener = c /\ isolation = "live"
  BY DEF IInv, Session, ExecutorAssumption
<1>3. TypeOK'
  BY DEF IInv, TypeOK, Places, outside, coordination, sessionVars, jobVars, callerVars
<1> USE DEF outside, coordination, sessionVars, jobVars, callerVars
<1>4. Session' /\ Stages' /\ Unfinished' /\ PreviousUnwound'
  BY DEF IInv, Session, Stages, Unfinished, PreviousUnwound, Alive, AllDone, Done, Jobs, Mine
<1>5. Unwound'
  BY <1>1 DEF IInv, Unwound, Busy, Done
<1>6. Poisoned' /\ Turns'
  BY <1>1 DEF IInv, Poisoned, Turns, Alive, Jobs, Failed
<1>7. InStep'
  BY <1>1, <1>2 DEF IInv, InStep, Alive, Mine, ExecutorAssumption
<1>8. AllReachable'
  BY <1>2 DEF IInv, AllReachable, Session, ExecutorAssumption
<1>9. WorkersBeforeRestore'
  BY <1>2 DEF WorkersBeforeRestore
<1> QED BY <1>3, <1>4, <1>5, <1>6, <1>7, <1>8, <1>9 DEF IInv

\* __enter__ ends with both workers up.
LEMMA OpenedKeeps ==
    ASSUME ExecutorAssumption, IInv, NEW c \in Callers, Opened(c) PROVE IInv'
<1> USE DEF Opened, To, inside, coordination, jobVars, workerVars, sessionVars
<1>1. \A d \in Callers : step'[d] = IF d = c THEN "idle" ELSE step[d]
  BY DEF IInv, TypeOK
<1>2. TypeOK'
  BY DEF IInv, TypeOK, Steps
<1>3. Session'
  BY <1>1 DEF IInv, Session, Locked, ExecutorAssumption
<1>4. Stages'
  BY <1>1 DEF IInv, Stages, AllDone, Done, Jobs, Mine
<1>5. \A r \in Ranks : at[r] \notin {"none", "starting"}
  BY DEF IInv, Unwound
<1> QED BY <1>1, <1>2, <1>3, <1>4, <1>5, OutsideKeeps

\* close leaves when a call is active.
LEMMA CloseRefusedKeeps ==
    ASSUME ExecutorAssumption, IInv, NEW c \in Callers, CloseRefused(c) PROVE IInv'
<1> USE DEF CloseRefused, To, inside, coordination, jobVars, workerVars, sessionVars
<1>1. \A d \in Callers : step'[d] = IF d = c THEN "idle" ELSE step[d]
  BY DEF IInv, TypeOK
<1>2. TypeOK'
  BY DEF IInv, TypeOK, Steps
<1>3. opener = Nobody
  BY DEF IInv, Session, TypeOK, Locked
<1>4. Session'
  BY <1>1, <1>3 DEF IInv, Session, Locked, ExecutorAssumption
<1>5. Stages'
  BY <1>1 DEF IInv, Stages, AllDone, Done, Jobs, Mine
<1> QED BY <1>1, <1>2, <1>3, <1>4, <1>5, OutsideKeeps

\* A close that gives up leaves the error behind it.
LEMMA CloseTimesOutKeeps ==
    ASSUME ExecutorAssumption, IInv, NEW c \in Callers, CloseTimesOut(c) PROVE IInv'
<1> USE DEF CloseTimesOut, To, inside, coordination, jobVars, workerVars, sessionVars
<1>1. \A d \in Callers : step'[d] = IF d = c THEN "idle" ELSE step[d]
  BY DEF IInv, TypeOK
<1>2. TypeOK'
  BY DEF IInv, TypeOK, Steps
<1>3. error
  BY DEF IInv, Stages
<1>4. Session'
  BY <1>1 DEF IInv, Session, Locked, ExecutorAssumption
<1>5. Stages'
  BY <1>1 DEF IInv, Stages, AllDone, Done, Jobs, Mine
<1> QED BY <1>1, <1>2, <1>3, <1>4, <1>5, OutsideKeeps

\* begin() finds every job done: nobody waits and nothing failed.
LEMMA BeginKeeps ==
    ASSUME ExecutorAssumption, IInv, NEW c \in Callers, Begin(c) PROVE IInv'
<1> USE DEF Begin, To, sessionVars, jobVars, workerVars
<1>1. \A d \in Callers : /\ step'[d] = IF d = c THEN "submit" ELSE step[d]
                         /\ arg'[d] = IF d = c THEN TRUE ELSE arg[d]
  BY DEF IInv, TypeOK
<1>2. /\ isolation = "live" /\ opener = Nobody /\ callLock = c
      /\ \A d \in Callers : step[d] \in Locked => d = c
  BY OneInside DEF IInv, Locked
<1>3. AllDone
  BY <1>2 DEF IInv, Unfinished, Alive, Locked
<1>4. TypeOK'
  BY DEF IInv, TypeOK, Steps, Ranks
<1>5. Session'
  BY <1>1, <1>2 DEF IInv, Session, Locked
<1>6. AllDone'
  BY <1>3 DEF AllDone, Done, Jobs
<1>7. Stages' /\ Unfinished'
  <2>1. \A d \in Callers : d # c => step'[d] \notin Locked
    BY <1>1, <1>2
  <2>2. Stages'
    <3>1. step'[c] = "submit" /\ arg'[c] /\ ~error' /\ ~finished'
      BY <1>1
    <3> QED BY <1>6, <2>1, <3>1 DEF Stages, Locked
  <2>3. Unfinished'
    BY <1>6 DEF Unfinished, AllDone
  <2> QED BY <2>2, <2>3
<1>8. Unwound' /\ PreviousUnwound' /\ WorkersBeforeRestore'
  BY DEF IInv, Unwound, PreviousUnwound, WorkersBeforeRestore, Done
<1>9. Poisoned' /\ InStep'
  BY <1>2 DEF IInv, Poisoned, InStep, Alive, Jobs, Failed, Mine
<1>10. Turns'
  <2>1. \A r \in Ranks : at[r] \notin Busy
    BY <1>2, <1>3, BusyUndone DEF Alive, AllDone
  <2> QED BY <2>1 DEF Turns, Busy
<1>11. AllReachable'
  BY <1>1, <1>2 DEF AllReachable, Locked
<1> QED BY <1>4, <1>5, <1>7, <1>8, <1>9, <1>10, <1>11 DEF IInv

\* A queue with one more element.
LEMMA Added ==
    ASSUME NEW S, NEW q \in Seq(S), NEW e \in S
    PROVE  /\ Append(q, e) \in Seq(S) /\ Len(Append(q, e)) = Len(q) + 1 /\ Len(q) \in Nat
           /\ DOMAIN q = 1 .. Len(q) /\ DOMAIN Append(q, e) = 1 .. Len(q) + 1
           /\ Append(q, e)[Len(q) + 1] = e
           /\ \A i \in 1 .. Len(q) : Append(q, e)[i] = q[i]
           /\ q = <<>> => Append(q, e) = <<e>>
<1>1. /\ Append(q, e) \in Seq(S) /\ Len(Append(q, e)) = Len(q) + 1 /\ Len(q) \in Nat
      /\ DOMAIN q = 1 .. Len(q) /\ DOMAIN Append(q, e) = 1 .. Len(q) + 1
      /\ Append(q, e)[Len(q) + 1] = e
      /\ \A i \in 1 .. Len(q) : Append(q, e)[i] = q[i]
  OBVIOUS
<1>2. ASSUME q = <<>> PROVE Append(q, e) = <<e>>
  <2>1. Append(q, e) \in Seq(S) /\ <<e>> \in Seq(S)
    OBVIOUS
  <2>2. Len(Append(q, e)) = 1 /\ Len(<<e>>) = 1 /\ Append(q, e)[1] = e /\ <<e>>[1] = e
    BY <1>1, <1>2
  <2>3. \A i \in 1 .. 1 : Append(q, e)[i] = <<e>>[i]
    BY <2>2
  <2> QED BY <2>1, <2>2, <2>3, SeqEqual
<1> QED BY <1>1, <1>2

\* The job comes after jobs that are all done, and behind no order to stop unless the
\* executor has failed: then it is cleanup, which waits for no worker for ever.
LEMMA SubmitKeeps ==
    ASSUME ExecutorAssumption, IInv, NEW c \in Callers, Submit(c) PROVE IInv'
<1> DEFINE n == Len(localOnly) + 1
           fresh == [r \in Ranks |-> "none"]
<1> USE DEF To, coordination, sessionVars
<1>1. /\ localOnly' = Append(localOnly, ~arg[c]) /\ results' = Append(results, fresh)
      /\ Mine' = n /\ pendingJob' = n /\ n \in Nat \ {0} /\ Mine = Len(localOnly)
      /\ Jobs = 1 .. n - 1 /\ Jobs' = 1 .. n /\ Len(results) = Len(localOnly)
  BY Added DEF IInv, TypeOK, Submit, Mine, Jobs
<1>2. /\ \A j \in Jobs : localOnly'[j] = localOnly[j] /\ results'[j] = results[j]
      /\ localOnly'[n] = ~arg[c] /\ results'[n] = fresh
  <2>1. localOnly \in Seq(BOOLEAN) /\ (~arg[c]) \in BOOLEAN
    BY DEF IInv, TypeOK
  <2>2. results \in Seq([Ranks -> {"none", "value", "error"}])
    BY DEF IInv, TypeOK
  <2>3. fresh \in [Ranks -> {"none", "value", "error"}]
    OBVIOUS
  <2>4. /\ localOnly'[n] = ~arg[c]
        /\ \A j \in 1 .. n - 1 : localOnly'[j] = localOnly[j]
    BY <1>1, <2>1, Added
  <2>5. results'[n] = fresh /\ \A j \in 1 .. n - 1 : results'[j] = results[j]
    BY <1>1, <2>2, <2>3, Added
  <2> QED BY <1>1, <2>4, <2>5
<1>3. \A r \in Ranks :
          /\ inbox[r] \in Seq(0 .. n) /\ Len(inbox[r]) \in Nat
          /\ inbox'[r] = Append(inbox[r], n) /\ inbox'[r] \in Seq(0 .. n)
          /\ DOMAIN inbox[r] = 1 .. Len(inbox[r])
          /\ DOMAIN inbox'[r] = 1 .. Len(inbox[r]) + 1
          /\ inbox'[r][Len(inbox[r]) + 1] = n
          /\ \A i \in 1 .. Len(inbox[r]) : inbox'[r][i] = inbox[r][i]
          /\ inbox[r] = <<>> => inbox'[r] = <<n>>
  <2> SUFFICES ASSUME NEW r \in Ranks
               PROVE  /\ inbox[r] \in Seq(0 .. n) /\ Len(inbox[r]) \in Nat
                      /\ inbox'[r] = Append(inbox[r], n) /\ inbox'[r] \in Seq(0 .. n)
                      /\ DOMAIN inbox[r] = 1 .. Len(inbox[r])
                      /\ DOMAIN inbox'[r] = 1 .. Len(inbox[r]) + 1
                      /\ inbox'[r][Len(inbox[r]) + 1] = n
                      /\ \A i \in 1 .. Len(inbox[r]) : inbox'[r][i] = inbox[r][i]
                      /\ inbox[r] = <<>> => inbox'[r] = <<n>>
    OBVIOUS
  <2>1. inbox[r] \in Seq(0 .. Len(localOnly)) /\ Len(localOnly) \in Nat
    BY DEF IInv, TypeOK
  <2>2. inbox[r] \in Seq(0 .. n) /\ n \in 0 .. n
    BY <2>1
  <2>3. inbox'[r] = Append(inbox[r], n)
    BY <1>1 DEF Submit, Mine
  <2> HIDE DEF n
  <2> QED BY <2>2, <2>3, Added
<1>4. /\ UNCHANGED <<isolation, closing, callLock, opener, at, job, arg, ready>>
      /\ UNCHANGED <<sequential, turn, finished, error, round, group, asked, reached, calls>>
      /\ step[c] = "submit" /\ \A d \in Callers : step'[d] = IF d = c THEN "await" ELSE step[d]
  BY DEF IInv, TypeOK, Submit
<1>5. /\ isolation = "live" /\ opener = Nobody /\ callLock = c
      /\ \A d \in Callers : step[d] \in Locked => d = c
  BY <1>4, OneInside DEF IInv, Locked
<1>6. AllDone /\ (arg[c] <=> ~error) /\ (arg[c] => ~finished)
  BY <1>4 DEF IInv, Stages
<1>7. \A j \in Jobs : Done(j)'
  BY <1>2, <1>6 DEF AllDone, Done
<1> HIDE DEF n
<1>8. TypeOK'
  <2>1. step' \in [Callers -> Steps]
    BY DEF IInv, TypeOK, Submit, Steps
  <2>2. /\ localOnly' \in Seq(BOOLEAN) /\ Len(localOnly') = n
        /\ results' \in Seq([Ranks -> {"none", "value", "error"}]) /\ Len(results') = n
    <3>1. localOnly \in Seq(BOOLEAN) /\ (~arg[c]) \in BOOLEAN
      BY DEF IInv, TypeOK
    <3>2. results \in Seq([Ranks -> {"none", "value", "error"}])
      BY DEF IInv, TypeOK
    <3>3. fresh \in [Ranks -> {"none", "value", "error"}]
      OBVIOUS
    <3> HIDE DEF fresh
    <3> QED BY <1>1, <3>1, <3>2, <3>3, Added DEF n
  <2>3. inbox' \in [Ranks -> Seq(0 .. n)]
    <3>1. inbox' = [r \in Ranks |-> Append(inbox[r], n)]
      BY <1>1 DEF Submit, Mine
    <3> QED BY <1>3, <3>1
  <2>4. job' \in [Ranks -> 0 .. n] /\ pendingJob' \in 0 .. n
    BY <1>1, <1>4 DEF IInv, TypeOK, n
  <2> QED BY <1>4, <2>1, <2>2, <2>3, <2>4 DEF IInv, TypeOK
<1>9. Session'
  BY <1>4, <1>5 DEF IInv, Session, Locked
<1>10. Stages'
  BY <1>1, <1>4, <1>5 DEF Stages, Locked
<1>11. Unfinished'
  BY <1>1, <1>4, <1>7 DEF Unfinished
<1>12. Unwound'
  <2>1. ASSUME NEW r \in Ranks, NEW i \in DOMAIN inbox'[r], NEW k \in 1 .. inbox'[r][i] - 1
        PROVE  Done(k)'
    <3>1. inbox'[r][i] \in 0 .. n
      <4>1. inbox'[r] \in Seq(0 .. n)
        BY <1>3
      <4>2. i \in 1 .. Len(inbox'[r])
        BY <2>1, <4>1
      <4> QED BY <4>1, <4>2, ElementOfSeq
    <3>2. k \in Jobs
      BY <1>1, <2>1, <3>1
    <3> QED BY <1>7, <3>2
  <2> QED BY <1>4, <2>1 DEF IInv, Unwound
<1>13. PreviousUnwound'
  <2>1. ASSUME NEW r \in Ranks, NEW k \in 1 .. job[r] - 1 PROVE Done(k)'
    <3>1. job[r] \in 0 .. Len(localOnly)
      BY DEF IInv, TypeOK
    <3>2. k \in Jobs
      BY <1>1, <2>1, <3>1 DEF n
    <3> QED BY <1>7, <3>2
  <2> QED BY <1>4, <2>1 DEF PreviousUnwound
<1>14. ASSUME ~error
       PROVE  \A r \in Ranks : /\ inbox[r] = <<>> /\ job[r] = 0
                               /\ at[r] \notin Gone \cup {"leaving", "starting"}
  <2>1. Mine # 0 => Done(Mine)
    BY <1>1, <1>6 DEF AllDone, n
  <2>2. \A r \in Ranks : inbox[r] = <<>> /\ job[r] = 0
    BY <1>5, <1>14, <2>1 DEF IInv, InStep, Alive, Done
  <2>3. \A r \in Ranks : at[r] \notin {"none", "starting", "leaving", "dead"}
    BY <1>5, <1>14 DEF IInv, InStep, Poisoned, Alive
  <2> QED BY <2>2, <2>3 DEF Gone
<1>15. \A r \in Ranks : results'[n][r] = "none"
  BY <1>2
<1>16. Poisoned'
  <2> SUFFICES ASSUME ~error PROVE Poisoned'
    BY <1>4 DEF Poisoned
  <2>1. \A r \in Ranks : at'[r] \notin {"failed", "leaving", "dead"}
    BY <1>4, <1>5 DEF IInv, Poisoned, Alive
  <2>2. \A j \in Jobs : ~localOnly'[j] /\ ~Failed(j)'
    BY <1>2, <1>5 DEF IInv, Poisoned, Failed, Alive
  <2>3. ~localOnly'[n]
    <3>1. arg[c]
      BY <1>6
    <3>2. localOnly'[n] = ~arg[c]
      BY <1>2
    <3> QED BY <3>1, <3>2
  <2>4. \A j : j = n => ~Failed(j)'
    BY <1>15 DEF Failed
  <2>5. \A j \in Jobs' : j \in Jobs \/ j = n
    BY <1>1
  <2>6. \A j \in Jobs' : ~localOnly'[j] /\ ~Failed(j)'
    BY <2>2, <2>3, <2>4, <2>5
  <2> QED BY <2>1, <2>6 DEF Poisoned
<1>17. InStep'
  <2> SUFFICES ASSUME ~error PROVE InStep'
    BY <1>4 DEF InStep
  <2>1. \A r \in Ranks :
            inbox'[r] = <<Mine'>> /\ job'[r] = 0 /\ Mine' # 0 /\ results'[Mine'][r] = "none"
    BY <1>1, <1>3, <1>4, <1>14, <1>15
  <2> QED BY <1>4, <1>14, <2>1 DEF InStep, Gone
<1>18. AllReachable'
  <2> SUFFICES ASSUME NEW d \in Callers, step'[d] = "await", arg'[d], NEW r \in Ranks
               PROVE  Reachable(r)'
    BY DEF AllReachable
  <2>1. d = c /\ ~error
    BY <1>4, <1>5, <1>6 DEF Locked
  <2>2. inbox[r] = <<>> /\ inbox'[r] = <<n>> /\ at'[r] \notin Gone \cup {"leaving", "starting"}
    BY <1>3, <1>4, <1>14, <2>1
  <2>3. 1 \in DOMAIN inbox'[r] /\ inbox'[r][1] = Mine' /\ \A k \in 1 .. 1 - 1 : inbox'[r][k] # 0
    BY <1>1, <2>2
  <2> QED BY <2>2, <2>3 DEF Reachable
<1>19. Turns'
  BY <1>4, <1>5, <1>6 DEF IInv, Turns, Alive
<1>20. WorkersBeforeRestore'
  BY <1>4 DEF IInv, WorkersBeforeRestore
<1> QED BY <1>8, <1>9, <1>10, <1>11, <1>12, <1>13, <1>16, <1>17, <1>18, <1>19, <1>20 DEF IInv

\* run reports its exception to the coordinator.
LEMMA RunRaisesKeeps ==
    ASSUME ExecutorAssumption, IInv, NEW c \in Callers, RunRaises(c) PROVE IInv'
<1> USE DEF RunRaises, Abort, To, sessionVars, jobVars, workerVars
<1>1. \A d \in Callers : step'[d] = IF d = c THEN "ending" ELSE step[d]
  BY DEF IInv, TypeOK
<1>2. opener = Nobody /\ \A d \in Callers : step[d] \in Locked => d = c
  BY OneInside DEF IInv, Locked
<1>3. TypeOK'
  BY DEF IInv, TypeOK, Steps
<1>4. Session'
  BY <1>1, <1>2 DEF IInv, Session, Locked
<1>5. Stages'
  BY <1>1, <1>2 DEF Stages, Locked
<1>6. Unfinished'
  BY DEF IInv, Unfinished, Alive, Jobs, Done
<1>7. Unwound' /\ PreviousUnwound' /\ WorkersBeforeRestore'
  BY DEF IInv, Unwound, PreviousUnwound, WorkersBeforeRestore, Done
<1>8. Poisoned' /\ InStep' /\ Turns'
  BY DEF Poisoned, InStep, Turns
<1>9. AllReachable'
  BY <1>1, <1>2 DEF AllReachable, Locked
<1> QED BY <1>3, <1>4, <1>5, <1>6, <1>7, <1>8, <1>9 DEF IInv

\* The job that is forgotten is done, and one that is not stays for cleanup to wait for.
LEMMA RunEndsKeeps ==
    ASSUME ExecutorAssumption, IInv, NEW c \in Callers, RunEnds(c) PROVE IInv'
<1> USE DEF RunEnds, StillPending, To, sessionVars, coordination, workerVars
<1>1. \A d \in Callers : step'[d] = IF d = c THEN "idle" ELSE step[d]
  BY DEF IInv, TypeOK
<1>2. /\ isolation = "live" /\ opener = Nobody
      /\ \A d \in Callers : step[d] \in Locked => d = c
  BY OneInside DEF IInv, Locked
<1>3. TypeOK'
  BY DEF IInv, TypeOK, Steps
<1>4. Session'
  BY <1>1, <1>2 DEF IInv, TypeOK, Session, Locked, ExecutorAssumption
<1>5. Stages'
  BY <1>1, <1>2 DEF Stages, Locked
<1>6. Unfinished'
  <2>1. \A j \in Jobs : j # pendingJob' => Done(j)
    BY <1>2 DEF IInv, Unfinished, Alive
  <2>2. ~error => AllDone
    BY <1>2 DEF IInv, Unfinished, Alive, Locked
  <2> QED BY <2>1, <2>2 DEF Unfinished, AllDone, Jobs, Done
<1>7. Unwound' /\ PreviousUnwound' /\ WorkersBeforeRestore'
  BY DEF IInv, Unwound, PreviousUnwound, WorkersBeforeRestore, Done
<1>8. Poisoned' /\ InStep' /\ Turns'
  BY <1>2 DEF IInv, Poisoned, InStep, Turns, Alive, Jobs, Failed, Mine
<1>9. AllReachable'
  BY <1>1, <1>2 DEF AllReachable, Locked
<1> QED BY <1>3, <1>4, <1>5, <1>6, <1>7, <1>8, <1>9 DEF IInv

\* The order to stop goes behind every job, and no caller waits for one.
LEMMA CloseLockKeeps ==
    ASSUME ExecutorAssumption, IInv, NEW c \in Callers, CloseLock(c) PROVE IInv'
<1> USE DEF CloseLock, Abort, To, jobVars
<1>1. \A d \in Callers : step'[d] = IF d = c THEN "joining" ELSE step[d]
  BY DEF IInv, TypeOK
<1>2. \A d \in Callers : step[d] \notin Locked
  BY DEF IInv, Session, ExecutorAssumption
<1>3. \A r \in Ranks :
          /\ inbox[r] \in Seq(0 .. Len(localOnly)) /\ 0 \in 0 .. Len(localOnly)
          /\ inbox'[r] = Append(inbox[r], 0)
  BY DEF IInv, TypeOK, Stopped
<1>4. \A r \in Ranks :
          /\ inbox'[r] \in Seq(0 .. Len(localOnly)) /\ Len(inbox[r]) \in Nat
          /\ DOMAIN inbox[r] = 1 .. Len(inbox[r])
          /\ DOMAIN inbox'[r] = 1 .. Len(inbox[r]) + 1
          /\ inbox'[r][Len(inbox[r]) + 1] = 0
          /\ \A i \in 1 .. Len(inbox[r]) : inbox'[r][i] = inbox[r][i]
  <2> HIDE DEF CloseLock
  <2> SUFFICES ASSUME NEW r \in Ranks
               PROVE  /\ inbox'[r] \in Seq(0 .. Len(localOnly)) /\ Len(inbox[r]) \in Nat
                      /\ DOMAIN inbox[r] = 1 .. Len(inbox[r])
                      /\ DOMAIN inbox'[r] = 1 .. Len(inbox[r]) + 1
                      /\ inbox'[r][Len(inbox[r]) + 1] = 0
                      /\ \A i \in 1 .. Len(inbox[r]) : inbox'[r][i] = inbox[r][i]
    OBVIOUS
  <2>1. inbox[r] \in Seq(0 .. Len(localOnly)) /\ 0 \in 0 .. Len(localOnly)
    BY <1>3
  <2>2. inbox'[r] = Append(inbox[r], 0)
    BY <1>3
  <2> QED BY <2>1, <2>2, Added
<1>5. TypeOK'
  <2>1. step' \in [Callers -> Steps] /\ callLock' \in Callers \cup {Nobody}
    BY DEF IInv, TypeOK, Steps
  <2>2. inbox' \in [Ranks -> Seq(0 .. Len(localOnly))]
    BY <1>3, <1>4 DEF Stopped
  <2> QED BY <2>1, <2>2 DEF IInv, TypeOK
<1>6. Session'
  BY <1>1, <1>2 DEF IInv, TypeOK, Session, Locked, ExecutorAssumption
<1>7. Stages'
  BY <1>1, <1>2 DEF Stages, Locked
<1>8. Unfinished'
  BY DEF IInv, Unfinished, Alive, Jobs, Done
<1>9. Unwound'
  <2>1. ASSUME NEW r \in Ranks, NEW i \in DOMAIN inbox'[r], NEW k \in 1 .. inbox'[r][i] - 1
        PROVE  Done(k)'
    <3>1. inbox'[r][i] # 0
      BY <2>1
    <3>2. i \in 1 .. Len(inbox[r])
      BY <1>4, <2>1, <3>1
    <3>3. i \in DOMAIN inbox[r] /\ inbox'[r][i] = inbox[r][i]
      BY <1>4, <3>2
    <3> QED BY <2>1, <3>3 DEF IInv, Unwound, Done
  <2> QED BY <2>1 DEF IInv, Unwound
<1>10. PreviousUnwound' /\ WorkersBeforeRestore'
  BY DEF IInv, PreviousUnwound, WorkersBeforeRestore, Done
<1>11. Poisoned' /\ InStep' /\ Turns'
  BY DEF Poisoned, InStep, Turns
<1>12. AllReachable'
  BY <1>1, <1>2 DEF AllReachable, Locked
<1> QED BY <1>5, <1>6, <1>7, <1>8, <1>9, <1>10, <1>11, <1>12 DEF IInv

\* With both threads gone nothing is left to preserve but the order of the ends.
LEMMA CloseEndsKeeps ==
    ASSUME ExecutorAssumption, IInv, NEW c \in Callers, CloseEnds(c) PROVE IInv'
<1> USE DEF CloseEnds, Joined, To, workerVars
<1>1. \A d \in Callers : step'[d] = IF d = c THEN "idle" ELSE step[d]
  BY DEF IInv, TypeOK
<1>2. \A d \in Callers : step[d] \in Locked => d = c
  BY OneInside DEF IInv, Locked
<1>3. TypeOK'
  <2>1. step' \in [Callers -> Steps]
    BY DEF IInv, TypeOK, Steps
  <2>2. pendingJob' \in 0 .. Len(localOnly) /\ round' \subseteq Ranks
    BY DEF IInv, TypeOK
  <2> QED BY <2>1, <2>2 DEF IInv, TypeOK
<1>4. Session'
  <2>1. \A d \in Callers : step[d] # "starting"
    BY DEF IInv, TypeOK, Session
  <2> QED BY <1>1, <1>2, <2>1 DEF IInv, Session, Locked, ExecutorAssumption
<1>5. Stages' /\ AllReachable'
  BY <1>1, <1>2 DEF Stages, AllReachable, Locked
<1>6. Unfinished' /\ Poisoned' /\ InStep' /\ Turns'
  BY DEF Unfinished, Poisoned, InStep, Turns, Alive
<1>7. Unwound' /\ PreviousUnwound'
  BY DEF IInv, Unwound, PreviousUnwound, Done
<1>8. WorkersBeforeRestore'
  BY DEF IInv, TypeOK, WorkersBeforeRestore
<1> QED BY <1>3, <1>4, <1>5, <1>6, <1>7, <1>8 DEF IInv

-----------------------------------------------------------------------------
(* The specification *)

\* A new executor has no jobs, no workers and no callers.
LEMMA Initially == ASSUME ExecutorAssumption, Init PROVE IInv
<1> USE DEF Init
<1>1. TypeOK
  <2>1. /\ localOnly \in Seq(BOOLEAN) /\ Len(localOnly) = 0
        /\ results \in Seq([Ranks -> {"none", "value", "error"}]) /\ Len(results) = 0
    OBVIOUS
  <2>2. inbox \in [Ranks -> Seq(0 .. 0)] /\ reached \in [Ranks -> Seq(Groups)]
    OBVIOUS
  <2>3. at \in [Ranks -> Places] /\ step \in [Callers -> Steps]
    BY DEF Places, Gone, Steps
  <2>4. turn \in Ranks /\ calls \in 0 .. MaxCalls
    BY DEF Ranks, ExecutorAssumption
  <2> QED BY <2>1, <2>2, <2>3, <2>4 DEF TypeOK
<1>2. Session
  BY DEF Session, Locked, ExecutorAssumption
<1>3. Jobs = {} /\ \A r \in Ranks : DOMAIN inbox[r] = {}
  BY DEF Jobs
<1>4. Stages /\ Unfinished /\ Unwound /\ PreviousUnwound
  BY <1>3 DEF Stages, Unfinished, Unwound, PreviousUnwound, AllDone, Busy
<1>5. Poisoned /\ InStep /\ AllReachable /\ Turns /\ WorkersBeforeRestore
  BY <1>3 DEF Poisoned, InStep, AllReachable, Turns, WorkersBeforeRestore
<1> QED BY <1>1, <1>2, <1>4, <1>5 DEF IInv

\* Every step of a worker.
LEMMA WorkerKeeps ==
    ASSUME ExecutorAssumption, IInv, NEW r \in Ranks,
           Callback(r) \/ Refuse(r) \/ Coordinate(r) \/ Work(r)
    PROVE  IInv'
  BY WorkerMoves, WorkerAborts, ResumeKeeps, InitialiseKeeps, FinishKeeps, TakeJobKeeps,
     TakeStopKeeps, SettleKeeps DEF Callback, Coordinate, Work

\* Every step of a caller.
LEMMA CallerKeeps ==
    ASSUME ExecutorAssumption, IInv, NEW c \in Callers,
           Open(c) \/ CallRun(c) \/ CallClose(c) \/ Interrupt(c) \/ CallerStep(c)
    PROVE  IInv'
<1>1. CASE Open(c) \/ CallRun(c) \/ CallClose(c) \/ Interrupt(c) \/ BrokenRaises(c)
  BY <1>1, OpenKeeps, CallKeeps, CallerMoves
<1>2. CASE OpenStep(c)
  BY <1>2, OpenedKeeps, StartWorkerKeeps, CallerMoves DEF OpenStep
<1>3. CASE RunStep(c)
  BY <1>3, RunLockKeeps, BeginKeeps, SubmitKeeps, RunRaisesKeeps, RunEndsKeeps, CallerMoves
     DEF RunStep
<1>4. CASE CloseStep(c)
  BY <1>4, CloseRefusedKeeps, CloseLockKeeps, CloseEndsKeeps, CloseTimesOutKeeps, CallerMoves
     DEF CloseStep
<1> QED BY <1>1, <1>2, <1>3, <1>4 DEF CallerStep

\* The parts of the argument hold together, in every state of every behaviour.
THEOREM Invariance == ASSUME ExecutorAssumption PROVE Spec => []IInv
<1>1. Init => IInv
  BY Initially
<1>2. IInv /\ [Next]_vars => IInv'
  <2> SUFFICES ASSUME IInv, [Next]_vars PROVE IInv'
    OBVIOUS
  <2>1. CASE UNCHANGED vars
    BY <2>1 DEF vars, inside, jobVars, coordination, workerVars, sessionVars, callerVars,
       IInv, TypeOK, Session, Stages, Unfinished, Unwound, PreviousUnwound, Poisoned, InStep,
       AllReachable, Turns, WorkersBeforeRestore, Alive, AllDone, Jobs, Done, Failed, Mine,
       Reachable
  <2>2. CASE \E r \in Ranks : Callback(r) \/ Refuse(r) \/ Coordinate(r) \/ Work(r)
    BY <2>2, WorkerKeeps
  <2>3. CASE \E r \in Ranks, g \in Groups : Collective(r, g)
    BY <2>3, CollectiveKeeps
  <2>4. CASE \E c \in Callers :
                 Open(c) \/ CallRun(c) \/ CallClose(c) \/ Interrupt(c) \/ CallerStep(c)
    BY <2>4, CallerKeeps
  <2> QED BY <2>1, <2>2, <2>3, <2>4 DEF Next, Rest
<1> QED BY <1>1, <1>2, PTL DEF Spec

\* Every variable keeps its type.
THEOREM TypeCorrect == ASSUME ExecutorAssumption PROVE Spec => []TypeOK
<1>1. IInv => TypeOK
  BY DEF IInv
<1> QED BY <1>1, Invariance, PTL

\* In sequential mode the two callbacks of run never compute at the same time: the
\* coordinator's turn, and its `finished` once a rank has no more to do, say which one may.
THEOREM OneRank == ASSUME ExecutorAssumption PROVE Spec => []OneRankComputes
<1>1. IInv => OneRankComputes
  <2> SUFFICES ASSUME IInv, sequential, ~error, \A r \in Ranks : at[r] = "callback" PROVE FALSE
    BY DEF OneRankComputes
  <2>1. /\ \A r \in Ranks : job[r] # 0
        /\ 0 \in Ranks /\ 1 \in Ranks
    BY DEF IInv, Unwound, Busy, Ranks
  <2>2. Alive
    BY <2>1 DEF IInv, WorkersBeforeRestore, Alive, Gone
  <2>3. ~finished
    BY <2>1, <2>2 DEF IInv, Turns
  <2>4. turn = 0 /\ turn = 1
    BY <2>1, <2>2, <2>3 DEF IInv, Turns
  <2> QED BY <2>4
<1> QED BY <1>1, Invariance, PTL

\* No rank of run starts a job while a rank is still at an earlier one, cleanup included.
THEOREM Unwinding == ASSUME ExecutorAssumption PROVE Spec => []PreviousUnwound
<1>1. IInv => PreviousUnwound
  BY DEF IInv
<1> QED BY <1>1, Invariance, PTL

\* Once a result of run says that a rank failed, the coordinator has the error.
THEOREM Poisoning == ASSUME ExecutorAssumption PROVE Spec => []FailurePoisons
<1>1. IInv => FailurePoisons
  BY DEF IInv, Poisoned, FailurePoisons, Alive
<1> QED BY <1>1, Invariance, PTL

\* The untimed wait of run is for a job that each worker has settled, has in hand, or
\* finds in its queue before an order to stop.
THEOREM NoLostJob == ASSUME ExecutorAssumption PROVE Spec => []AwaitedIsReachable
<1>1. IInv => AwaitedIsReachable
  BY DEF IInv, AllReachable, Reachable, AwaitedIsReachable
<1> QED BY <1>1, Invariance, PTL

\* close gives the distributed state back to the process after the last worker thread.
THEOREM Restoring == ASSUME ExecutorAssumption PROVE Spec => []WorkersBeforeRestore
<1>1. IInv => WorkersBeforeRestore
  BY DEF IInv
<1> QED BY <1>1, Invariance, PTL
-----------------------------------------------------------------------------
(* The two ranks complete the same collectives *)

\* A queue holds jobs in order, after the one in hand, and none that is done.
Pristine(r, n) == \A j \in n .. Len(localOnly) : results[j][r] = "none"
Queued ==
    \A r \in Ranks :
        /\ job[r] # 0 => Pristine(r, job[r])
        /\ \A i \in DOMAIN inbox[r] : inbox[r][i] # 0 =>
              /\ Pristine(r, inbox[r][i]) /\ job[r] < inbox[r][i]
              /\ \A k \in 1 .. i - 1 : inbox[r][k] < inbox[r][i]

\* The collectives of the last job a rank has been through, the one it is about to return
\* from included.
Began(r) == job[r] # 0 \/ (Mine # 0 /\ results[Mine][r] # "none")
Past(r) ==
    IF ~Began(r) THEN <<>>
    ELSE IF at[r] = "turning" THEN Append(reached[r], asked[r]) ELSE reached[r]

\* While nothing has failed, those who wait in the round are there for its group, and both
\* ranks have been through the same collectives.
Hale == Alive /\ ~error /\ \A r \in Ranks : at[r] \notin {"aborting", "failing"}
Rounds ==
    /\ round # Ranks
    /\ \A r \in Ranks : (r \in round <=> at[r] = "joined") /\ (at[r] = "joined" => asked[r] = group)
Paired == Hale => Rounds /\ Past(0) = Past(1)

\* What has been finished without an error stays, whatever happens next.
Passed(r) == results[Mine][r] = "value" \/ (job[r] = Mine /\ at[r] = "settling")
Agreed == Mine # 0 /\ ~localOnly[Mine] /\ (\A r \in Ranks : Passed(r)) => reached[0] = reached[1]

\* What Queued is about.
Shared == <<localOnly, results, job, inbox>>

\* Steps that leave the queues and the jobs alone.
LEMMA SameQueues ==
    ASSUME Queued, UNCHANGED Shared PROVE Queued'
  BY DEF Queued, Shared, Pristine

\* A worker that takes what is first in its queue.
LEMMA TakenQueued ==
    ASSUME IInv, Queued, NEW r \in Ranks, TakeJob(r) \/ TakeStop(r) PROVE Queued'
<1> DEFINE q == inbox[r]
<1>1. q \in Seq(0 .. Len(localOnly)) /\ q # <<>> /\ Len(localOnly) \in Nat
  BY DEF IInv, TypeOK, TakeJob, TakeStop
<1>2. /\ Head(q) = q[1] /\ Head(q) \in 0 .. Len(localOnly) /\ Len(q) \in Nat \ {0}
      /\ DOMAIN q = 1 .. Len(q) /\ DOMAIN Tail(q) = 1 .. Len(q) - 1
      /\ \A i \in 1 .. Len(q) - 1 : Tail(q)[i] = q[i + 1]
  BY <1>1, Taken
<1>3. \A i \in 1 .. Len(q) : q[i] \in 0 .. Len(localOnly)
  BY <1>1
<1>4. /\ inbox' = [inbox EXCEPT ![r] = Tail(q)] /\ localOnly' = localOnly /\ results' = results
      /\ \/ job' = [job EXCEPT ![r] = Head(q)] /\ Head(q) # 0
         \/ job' = job /\ Head(q) = 0
  BY DEF TakeJob, TakeStop, outside, jobVars
<1>5. inbox'[r] = Tail(q) /\ job'[r] \in {job[r], Head(q)} /\ (Head(q) = 0 => job'[r] = job[r])
      /\ (Head(q) # 0 => job'[r] = Head(q))
      /\ \A s \in Ranks : s # r => inbox'[s] = inbox[s] /\ job'[s] = job[s]
  BY <1>4 DEF IInv, TypeOK
<1>6. \A n : Pristine(r, n)' <=> Pristine(r, n)
  BY <1>4 DEF Pristine
<1> HIDE DEF q
<1>7. /\ job[r] # 0 => Pristine(r, job[r])
      /\ \A i \in 1 .. Len(q) : q[i] # 0 =>
            /\ Pristine(r, q[i]) /\ job[r] < q[i]
            /\ \A k \in 1 .. i - 1 : q[k] < q[i]
  BY <1>2 DEF Queued, q
<1>8. job'[r] # 0 => Pristine(r, job'[r])
  <2>1. CASE Head(q) = 0
    BY <1>5, <1>7, <2>1
  <2>2. CASE Head(q) # 0
    BY <1>2, <1>5, <1>7, <2>2
  <2> QED BY <2>1, <2>2
<1>9. ASSUME NEW i \in 1 .. Len(q) - 1, Tail(q)[i] # 0
      PROVE  /\ Pristine(r, Tail(q)[i]) /\ job'[r] < Tail(q)[i]
             /\ \A k \in 1 .. i - 1 : Tail(q)[k] < Tail(q)[i]
  <2>1. i + 1 \in 1 .. Len(q) /\ Tail(q)[i] = q[i + 1] /\ q[i + 1] # 0 /\ 1 \in 1 .. (i + 1) - 1
    BY <1>2, <1>9
  <2>2. Pristine(r, q[i + 1]) /\ job[r] < q[i + 1] /\ \A k \in 1 .. (i + 1) - 1 : q[k] < q[i + 1]
    BY <1>7, <2>1
  <2>3. job'[r] < q[i + 1]
    BY <1>2, <1>5, <2>1, <2>2
  <2>4. ASSUME NEW k \in 1 .. i - 1
        PROVE  Tail(q)[k] < Tail(q)[i]
    <3>1. k + 1 \in 1 .. (i + 1) - 1 /\ k \in 1 .. Len(q) - 1
      BY <1>2
    <3>2. Tail(q)[k] = q[k + 1] /\ q[k + 1] < q[i + 1]
      BY <1>2, <2>2, <3>1
    <3> QED BY <2>1, <3>2
  <2> QED BY <2>1, <2>2, <2>3, <2>4
<1>10. ASSUME NEW s \in Ranks
       PROVE  /\ job'[s] # 0 => Pristine(s, job[s])'
              /\ \A i \in DOMAIN inbox'[s] : inbox'[s][i] # 0 =>
                   /\ Pristine(s, inbox[s][i])' /\ job'[s] < inbox'[s][i]
                   /\ \A k \in 1 .. i - 1 : inbox'[s][k] < inbox'[s][i]
  <2>1. CASE s = r
    <3>1. job'[s] # 0 => Pristine(s, job[s])'
      BY <1>4, <1>8, <2>1 DEF Pristine
    <3>2. ASSUME NEW i \in DOMAIN inbox'[s], inbox'[s][i] # 0
          PROVE  /\ Pristine(s, inbox[s][i])' /\ job'[s] < inbox'[s][i]
                 /\ \A k \in 1 .. i - 1 : inbox'[s][k] < inbox'[s][i]
      <4>1. inbox'[s] = Tail(q) /\ i \in 1 .. Len(q) - 1 /\ Tail(q)[i] # 0
        BY <1>2, <1>5, <2>1, <3>2
      <4>2. /\ Pristine(r, Tail(q)[i]) /\ job'[r] < Tail(q)[i]
            /\ \A k \in 1 .. i - 1 : Tail(q)[k] < Tail(q)[i]
        BY <1>9, <4>1
      <4>3. Pristine(s, inbox[s][i])'
        BY <1>4, <2>1, <4>1, <4>2 DEF Pristine
      <4> QED BY <2>1, <4>1, <4>2, <4>3
    <3> QED BY <3>1, <3>2
  <2>2. CASE s # r
    BY <1>4, <1>5, <2>2 DEF Pristine, Queued
  <2> QED BY <2>1, <2>2
<1> QED BY <1>10 DEF Queued

\* A worker that is done with a job has only later ones before it.
LEMMA SettledQueued ==
    ASSUME IInv, Queued, NEW r \in Ranks, Settle(r) PROVE Queued'
<1>1. /\ localOnly' = localOnly /\ inbox' = inbox /\ job' = [job EXCEPT ![r] = 0]
      /\ \E v : results' = [results EXCEPT ![job[r]][r] = v]
  BY DEF Settle
<1>2. /\ job \in [Ranks -> 0 .. Len(localOnly)] /\ Len(localOnly) \in Nat
      /\ results \in Seq([Ranks -> {"none", "value", "error"}]) /\ Len(results) = Len(localOnly)
      /\ inbox \in [Ranks -> Seq(0 .. Len(localOnly))]
  BY DEF IInv, TypeOK
<1>3. \A j \in 1 .. Len(localOnly), s \in Ranks : (s # r \/ j # job[r]) => results'[j][s] = results[j][s]
  BY <1>1, <1>2
<1>4. \A s \in Ranks : job'[s] = IF s = r THEN 0 ELSE job[s]
  BY <1>1, <1>2
<1>5. ASSUME NEW s \in Ranks, NEW n \in 1 .. Len(localOnly), Pristine(s, n), s = r => job[r] < n
      PROVE  Pristine(s, n)'
  <2>1. \A j \in n .. Len(localOnly) : j \in 1 .. Len(localOnly) /\ (s = r => j # job[r])
    BY <1>2, <1>5
  <2>2. \A j \in n .. Len(localOnly) : results'[j][s] = results[j][s]
    BY <1>3, <2>1
  <2> QED BY <1>1, <1>5, <2>2 DEF Pristine
<1>6. ASSUME NEW s \in Ranks, job'[s] # 0
      PROVE  Pristine(s, job[s])'
  <2>1. s # r /\ job'[s] = job[s] /\ job[s] \in 1 .. Len(localOnly)
    BY <1>2, <1>4, <1>6
  <2>2. Pristine(s, job[s])
    BY <2>1 DEF Queued
  <2> QED BY <1>1, <2>1, <2>2, <1>5
<1>7. ASSUME NEW s \in Ranks, NEW i \in DOMAIN inbox[s], inbox[s][i] # 0
      PROVE  /\ Pristine(s, inbox[s][i])' /\ job'[s] < inbox[s][i]
             /\ \A k \in 1 .. i - 1 : inbox[s][k] < inbox[s][i]
  <2>1. /\ Pristine(s, inbox[s][i]) /\ job[s] < inbox[s][i]
        /\ \A k \in 1 .. i - 1 : inbox[s][k] < inbox[s][i]
    BY <1>7 DEF Queued
  <2>2. inbox[s][i] \in 1 .. Len(localOnly)
    BY <1>2, <1>7
  <2> DEFINE n == inbox[s][i]
  <2>3. Pristine(s, n)'
    BY <1>1, <1>5, <2>1, <2>2
  <2> QED BY <1>1, <1>4, <2>1, <2>2, <2>3
<1> QED BY <1>1, <1>6, <1>7 DEF Queued

\* The new job comes after all that are in the queues.
LEMMA SubmittedQueued ==
    ASSUME IInv, Queued, NEW c \in Callers, Submit(c) PROVE Queued'
<1> DEFINE n == Len(localOnly) + 1
<1>1. /\ localOnly' = Append(localOnly, ~arg[c])
      /\ results' = Append(results, [r \in Ranks |-> "none"])
      /\ inbox' = [r \in Ranks |-> Append(inbox[r], Len(localOnly'))]
      /\ job' = job
  BY DEF Submit
<1>2. /\ job \in [Ranks -> 0 .. Len(localOnly)] /\ Len(localOnly) \in Nat
      /\ results \in Seq([Ranks -> {"none", "value", "error"}]) /\ Len(results) = Len(localOnly)
      /\ inbox \in [Ranks -> Seq(0 .. Len(localOnly))]
      /\ localOnly \in Seq(BOOLEAN)
  BY DEF IInv, TypeOK
<1>3. Len(localOnly') = n /\ n \in Nat \ {0}
  BY <1>1, <1>2
<1>4. \A s \in Ranks : results'[n][s] = "none" /\ \A j \in 1 .. Len(localOnly) : results'[j][s] = results[j][s]
  BY <1>1, <1>2
<1>5. ASSUME NEW s \in Ranks, NEW m \in 1 .. Len(localOnly), Pristine(s, m)
      PROVE  Pristine(s, m)'
  <2>1. ASSUME NEW j \in m .. n
        PROVE  results'[j][s] = "none"
    <3>1. CASE j = n
      BY <1>4, <3>1
    <3>2. CASE j # n
      <4>1. j \in m .. Len(localOnly) /\ j \in 1 .. Len(localOnly)
        <5>1. Len(localOnly) \in Nat /\ j \in m .. Len(localOnly) + 1 /\ j # Len(localOnly) + 1
          BY <1>2, <2>1, <3>2
        <5> QED BY <5>1
      <4> QED BY <1>4, <1>5, <4>1 DEF Pristine
    <3> QED BY <3>1, <3>2
  <2> QED BY <1>3, <2>1 DEF Pristine
<1>6. ASSUME NEW s \in Ranks
      PROVE  /\ job'[s] # 0 => Pristine(s, job[s])'
             /\ \A i \in DOMAIN inbox'[s] : inbox'[s][i] # 0 =>
                   /\ Pristine(s, inbox[s][i])' /\ job'[s] < inbox'[s][i]
                   /\ \A k \in 1 .. i - 1 : inbox'[s][k] < inbox'[s][i]
  <2> DEFINE q == inbox[s]
  <2>1. q \in Seq(0 .. n) /\ n \in 0 .. n /\ \A i \in 1 .. Len(q) : q[i] \in 0 .. Len(localOnly)
    BY <1>2, <1>3
  <2>2. /\ Len(q) \in Nat /\ DOMAIN q = 1 .. Len(q) /\ DOMAIN Append(q, n) = 1 .. Len(q) + 1
        /\ Append(q, n)[Len(q) + 1] = n /\ \A i \in 1 .. Len(q) : Append(q, n)[i] = q[i]
    BY <2>1, Added
  <2>3. inbox'[s] = Append(q, n)
    BY <1>1, <1>3
  <2> HIDE DEF q
  <2>4. /\ job[s] # 0 => Pristine(s, job[s])
        /\ \A i \in 1 .. Len(q) : q[i] # 0 =>
              /\ Pristine(s, q[i]) /\ job[s] < q[i]
              /\ \A k \in 1 .. i - 1 : q[k] < q[i]
    BY <2>2 DEF Queued, q
  <2>5. job[s] \in 0 .. Len(localOnly)
    BY <1>2
  <2>6. job'[s] # 0 => Pristine(s, job[s])'
    BY <1>1, <1>5, <2>4, <2>5
  <2>7. ASSUME NEW i \in 1 .. Len(q) + 1, Append(q, n)[i] # 0
        PROVE  /\ Pristine(s, inbox[s][i])' /\ job[s] < Append(q, n)[i]
               /\ \A k \in 1 .. i - 1 : Append(q, n)[k] < Append(q, n)[i]
    <3>1. CASE i = Len(q) + 1
      <4>1. inbox'[s][i] = n /\ Append(q, n)[i] = n
        BY <2>2, <2>3, <3>1
      <4>2. \A j \in n .. n : j = n
        BY <1>3
      <4>3. Pristine(s, inbox[s][i])'
        BY <1>3, <1>4, <4>1, <4>2 DEF Pristine
      <4>4. ASSUME NEW k \in 1 .. i - 1
            PROVE  Append(q, n)[k] < n
        <5>1. k \in 1 .. Len(q)
          BY <2>2, <3>1
        <5> QED BY <1>3, <2>1, <2>2, <5>1
      <4> QED BY <1>3, <2>5, <4>1, <4>3, <4>4
    <3>2. CASE i # Len(q) + 1
      <4>1. i \in 1 .. Len(q) /\ Append(q, n)[i] = q[i] /\ q[i] # 0 /\ q[i] \in 1 .. Len(localOnly)
        <5>1. i \in 1 .. Len(q)
          BY <2>2, <3>2
        <5> QED BY <1>2, <2>1, <2>2, <2>7, <5>1
      <4>2. Pristine(s, q[i]) /\ job[s] < q[i] /\ \A k \in 1 .. i - 1 : q[k] < q[i]
        BY <2>4, <4>1
      <4>3. Pristine(s, inbox[s][i])'
        <5>1. PICK v : v = q[i]
          OBVIOUS
        <5>2. Pristine(s, v)'
          BY <1>5, <4>1, <4>2, <5>1
        <5>3. inbox'[s][i] = v
          BY <2>3, <4>1, <5>1
        <5> QED BY <5>2, <5>3 DEF Pristine
      <4>4. \A k \in 1 .. i - 1 : Append(q, n)[k] = q[k]
        BY <2>2, <4>1
      <4> QED BY <4>1, <4>2, <4>3, <4>4
    <3> QED BY <3>1, <3>2
  <2> QED BY <1>1, <2>2, <2>3, <2>6, <2>7
<1> QED BY <1>6 DEF Queued

\* An order to stop is no job.
LEMMA StoppedQueued ==
    ASSUME IInv, Queued, NEW c \in Callers, CloseLock(c) PROVE Queued'
<1>1. inbox' = [r \in Ranks |-> Append(inbox[r], 0)] /\ UNCHANGED <<localOnly, results, job>>
  BY DEF CloseLock, Stopped, jobVars
<1>2. ASSUME NEW s \in Ranks
      PROVE  /\ job'[s] # 0 => Pristine(s, job[s])'
             /\ \A i \in DOMAIN inbox'[s] : inbox'[s][i] # 0 =>
                   /\ Pristine(s, inbox[s][i])' /\ job'[s] < inbox'[s][i]
                   /\ \A k \in 1 .. i - 1 : inbox'[s][k] < inbox'[s][i]
  <2> DEFINE q == inbox[s]
  <2>1. q \in Seq(0 .. Len(localOnly)) /\ 0 \in 0 .. Len(localOnly)
    BY DEF IInv, TypeOK
  <2>2. /\ Len(q) \in Nat /\ DOMAIN q = 1 .. Len(q) /\ DOMAIN Append(q, 0) = 1 .. Len(q) + 1
        /\ Append(q, 0)[Len(q) + 1] = 0 /\ \A i \in 1 .. Len(q) : Append(q, 0)[i] = q[i]
    BY <2>1, Added
  <2>3. inbox'[s] = Append(q, 0) /\ job'[s] = job[s]
    BY <1>1
  <2>4. \A m : Pristine(s, m)' <=> Pristine(s, m)
    BY <1>1 DEF Pristine
  <2> HIDE DEF q
  <2>5. /\ job[s] # 0 => Pristine(s, job[s])
        /\ \A i \in 1 .. Len(q) : q[i] # 0 =>
              /\ Pristine(s, q[i]) /\ job[s] < q[i]
              /\ \A k \in 1 .. i - 1 : q[k] < q[i]
    BY <2>2 DEF Queued, q
  <2>6. ASSUME NEW i \in 1 .. Len(q) + 1, Append(q, 0)[i] # 0
        PROVE  /\ i \in 1 .. Len(q) /\ Append(q, 0)[i] = q[i]
               /\ \A k \in 1 .. i - 1 : Append(q, 0)[k] = q[k]
    BY <2>2, <2>6
  <2>7. job'[s] # 0 => Pristine(s, job[s])'
    BY <1>1, <2>3, <2>5 DEF Pristine
  <2>8. ASSUME NEW i \in DOMAIN inbox'[s], inbox'[s][i] # 0
        PROVE  /\ Pristine(s, inbox[s][i])' /\ job'[s] < inbox'[s][i]
               /\ \A k \in 1 .. i - 1 : inbox'[s][k] < inbox'[s][i]
    <3>1. /\ i \in 1 .. Len(q) /\ inbox'[s][i] = q[i] /\ q[i] # 0
          /\ \A k \in 1 .. i - 1 : inbox'[s][k] = q[k]
      BY <2>2, <2>3, <2>6, <2>8
    <3>2. Pristine(s, q[i]) /\ job[s] < q[i] /\ \A k \in 1 .. i - 1 : q[k] < q[i]
      BY <2>5, <3>1
    <3>3. Pristine(s, inbox[s][i])'
      BY <1>1, <3>1, <3>2 DEF Pristine
    <3> QED BY <2>3, <3>1, <3>2, <3>3
  <2> QED BY <2>7, <2>8
<1> QED BY <1>2 DEF Queued

\* The queues stay in order.
LEMMA QueuedStep == ASSUME IInv, Queued, Next PROVE Queued'
<1>1. CASE Rest
  BY <1>1, SameQueues DEF Rest, vars, inside, jobVars, workerVars, Shared
<1>2. ASSUME NEW r \in Ranks, Callback(r) \/ Refuse(r) \/ Coordinate(r) \/ Work(r)
      PROVE  Queued'
  <2>1. CASE TakeJob(r) \/ TakeStop(r)
    BY <2>1, TakenQueued
  <2>2. CASE Settle(r)
    BY <2>2, SettledQueued
  <2>3. CASE Callback(r) \/ Refuse(r) \/ Coordinate(r)
    BY <2>3, SameQueues DEF Callback, Return, Raise, Refuse, Coordinate, Resume, WaitFails,
       CallAborts, Enter, EnterFails, Move, outside, jobVars, Shared
  <2>4. CASE Initialise(r) \/ InitFails(r) \/ Leave(r) \/ Finish(r) \/ FinishFails(r) \/ Fail(r)
    BY <2>4, SameQueues DEF Initialise, InitFails, Leave, Finish, FinishFails, Fail, Move,
       outside, jobVars, Shared
  <2> QED BY <1>2, <2>1, <2>2, <2>3, <2>4 DEF Work
<1>3. ASSUME NEW r \in Ranks, NEW g \in Groups, Collective(r, g)
      PROVE  Queued'
  BY <1>3, SameQueues DEF Collective, outside, jobVars, Shared
<1>4. ASSUME NEW c \in Callers,
             Open(c) \/ CallRun(c) \/ CallClose(c) \/ Interrupt(c) \/ CallerStep(c)
      PROVE  Queued'
  <2>1. CASE Submit(c)
    BY <2>1, SubmittedQueued
  <2>2. CASE CloseLock(c)
    BY <2>2, StoppedQueued
  <2>3. CASE Open(c) \/ CallRun(c) \/ CallClose(c) \/ Interrupt(c) \/ OpenStep(c) \/ BrokenRaises(c)
    BY <2>3, SameQueues DEF Open, CallRun, CallClose, Interrupt, OpenStep, Opened, OpenFails,
       StartWorker, BrokenRaises, Step, Move, inside, outside, jobVars, workerVars, Shared
  <2>4. CASE RunStep(c) /\ ~Submit(c)
    BY <2>4, SameQueues DEF RunStep, RunLock, Begin, BeginFails, BeginCleanup, PreviousDone,
       SubmitFails, AwaitedDone, TimesOut, RunRaises, RunEnds, Step, inside, jobVars, workerVars, Shared
  <2>5. CASE CloseStep(c) /\ ~CloseLock(c)
    BY <2>5, SameQueues DEF CloseStep, CloseRefused, CloseBroken, CloseEnds, CloseTimesOut, Step,
       inside, jobVars, workerVars, Shared
  <2> QED BY <1>4, <2>1, <2>2, <2>3, <2>4, <2>5 DEF CallerStep
<1> QED BY <1>1, <1>2, <1>3, <1>4 DEF Next

\* Steps that neither run a callback nor settle a job, and that do not mend an error.
LEMMA SameWork ==
    ASSUME Paired, Agreed, UNCHANGED <<localOnly, results, at, job, asked, reached>>,
           Alive' /\ ~error' => Alive /\ ~error /\ UNCHANGED <<round, group>>
    PROVE  Paired' /\ Agreed'
<1>1. UNCHANGED Mine
  BY DEF Mine
<1>2. Agreed'
  BY <1>1 DEF Agreed, Passed
<1>3. Paired'
  <2> SUFFICES ASSUME Hale' PROVE (Rounds /\ Past(0) = Past(1))'
    BY DEF Paired
  <2>1. Hale /\ UNCHANGED <<round, group>>
    BY DEF Hale
  <2>2. Rounds /\ Past(0) = Past(1)
    BY <2>1 DEF Paired
  <2> QED BY <1>1, <2>1, <2>2 DEF Rounds, Past, Began
<1> QED BY <1>2, <1>3

Doomed == {"aborting", "failing"}

\* A worker that moves on, not into the round nor out of it, or that fails.
LEMMA MovedOn ==
    ASSUME IInv, Paired, Agreed, NEW r \in Ranks, NEW place,
           UNCHANGED <<isolation, localOnly, results, round, group, job, asked, reached>>,
           at' = [at EXCEPT ![r] = place],
           place = "settling" => localOnly[job[r]],
           error' \/ (~error /\ (place \in Doomed \/
                                 (at[r] \notin Doomed \cup Waiting /\ place \notin Waiting)))
    PROVE  Paired' /\ Agreed'
<1>1. UNCHANGED <<Mine, Alive>>
  BY DEF Mine, Alive
<1>2. \A s \in Ranks : at'[s] = IF s = r THEN place ELSE at[s]
  BY DEF IInv, TypeOK
<1>3. Agreed'
  <2>1. ASSUME NEW s \in Ranks, Passed(s)', ~localOnly[Mine]
        PROVE  Passed(s)
    BY <1>1, <1>2, <2>1 DEF Passed
  <2> QED BY <1>1, <2>1 DEF Agreed
<1>4. Paired'
  <2> SUFFICES ASSUME Hale' PROVE (Rounds /\ Past(0) = Past(1))'
    BY DEF Paired
  <2>1. /\ ~error /\ Hale
        /\ at[r] \notin Waiting /\ place \notin Waiting
    BY <1>1, <1>2 DEF Hale, Doomed
  <2>2. Rounds /\ Past(0) = Past(1)
    BY <2>1 DEF Paired
  <2>3. Rounds'
    BY <1>2, <2>1, <2>2 DEF Rounds, Waiting
  <2>4. \A s \in Ranks : at'[s] = "turning" <=> at[s] = "turning"
    BY <1>2, <2>1 DEF Waiting
  <2> QED BY <1>1, <2>2, <2>3, <2>4 DEF Past, Began, Ranks
<1> QED BY <1>3, <1>4

\* A busy rank is alive.
LEMMA BusyAlive ==
    ASSUME IInv, NEW r \in Ranks, at[r] \in Busy PROVE Alive
  BY DEF IInv, WorkersBeforeRestore, Alive, Busy, Gone

\* A rank waits until the other has called, and then both have been through the collective
\* of the one group.
LEMMA CollectiveMatches ==
    ASSUME IInv, Paired, Agreed, NEW r \in Ranks, NEW g \in Groups, Collective(r, g)
    PROVE  Paired' /\ Agreed'
<1>1. /\ at[r] = "callback" /\ Joinable(r, g) /\ group' = g /\ asked' = [asked EXCEPT ![r] = g]
      /\ \/ ~Full(r) /\ round' = round \cup {r} /\ at' = [at EXCEPT ![r] = "joined"]
         \/ /\ Full(r) /\ round' = {}
            /\ at' = [s \in Ranks |-> IF s = r \/ at[s] = "joined" THEN "turning" ELSE at[s]]
         \/ Full(r) /\ round' = Ranks /\ at' = [at EXCEPT ![r] = "aborting"]
      /\ UNCHANGED <<isolation, localOnly, results, error, job, reached>>
  BY DEF Collective, Go, outside, sessionVars, jobVars
<1>2. UNCHANGED <<Mine, Alive>>
  BY <1>1 DEF Mine, Alive
<1>3. /\ at \in [Ranks -> Places] /\ asked \in [Ranks -> Groups] /\ round \subseteq Ranks
      /\ reached \in [Ranks -> Seq(Groups)]
  BY DEF IInv, TypeOK
<1>4. ASSUME NEW s \in Ranks
      PROVE  at'[s] = "settling" => at[s] = "settling"
  BY <1>1, <1>3
<1>5. Agreed'
  BY <1>1, <1>2, <1>4 DEF Agreed, Passed
<1>6. Paired'
  <2> SUFFICES ASSUME Hale' PROVE (Rounds /\ Past(0) = Past(1))'
    BY DEF Paired
  <2>1. at'[r] # "aborting" /\ ~error /\ Alive
    BY <1>1, <1>2 DEF Hale
  <2>2. \A s \in Ranks : asked'[s] = IF s = r THEN g ELSE asked[s]
    BY <1>1, <1>3
  <2>3. CASE ~Full(r) /\ round' = round \cup {r} /\ at' = [at EXCEPT ![r] = "joined"]
    <3>1. \A s \in Ranks : at'[s] = IF s = r THEN "joined" ELSE at[s]
      BY <1>3, <2>3
    <3>2. Hale
      BY <1>1, <1>2, <3>1 DEF Hale
    <3>3. Rounds /\ Past(0) = Past(1)
      BY <3>2 DEF Paired
    <3>4. round = {}
      <4>1. SUFFICES ASSUME NEW s \in round PROVE FALSE
        OBVIOUS
      <4>2. s \in Ranks /\ s # r
        BY <1>1, <1>3, <4>1 DEF Joinable
      <4>3. \A t \in Ranks : t = s \/ t = r
        BY <4>2 DEF Ranks
      <4>4. round \cup {r} = Ranks
        BY <1>3, <4>1, <4>3
      <4> QED BY <2>3, <4>4 DEF Full
    <3>5. Rounds'
      BY <1>1, <2>2, <2>3, <3>1, <3>3, <3>4 DEF Rounds, Ranks
    <3>6. ASSUME NEW s \in Ranks
          PROVE  Past(s)' = Past(s)
      BY <1>1, <1>2, <2>2, <3>1 DEF Past, Began
    <3> QED BY <3>3, <3>5, <3>6 DEF Ranks
  <2>4. CASE /\ Full(r) /\ round' = {}
             /\ at' = [s \in Ranks |-> IF s = r \/ at[s] = "joined" THEN "turning" ELSE at[s]]
    <3>1. Hale
      BY <1>1, <1>2, <2>4 DEF Hale
    <3>2. Rounds /\ Past(0) = Past(1)
      BY <3>1 DEF Paired
    <3>3. PICK s \in Ranks : s # r /\ Ranks = {r, s}
      BY DEF Ranks
    <3>4. s \in round /\ at[s] = "joined" /\ asked[s] = group /\ group = g
      BY <1>1, <2>4, <3>2, <3>3 DEF Full, Joinable, Rounds
    <3>5. at'[r] = "turning" /\ at'[s] = "turning"
      BY <2>4, <3>3, <3>4
    <3>6. Rounds'
      BY <2>4, <3>3, <3>5 DEF Rounds
    <3>7. job[r] # 0 /\ job[s] # 0
      BY <1>1, <3>4 DEF IInv, Unwound, Busy
    <3>8. Past(r)' = Append(reached[r], g) /\ Past(s)' = Append(reached[s], g)
      BY <1>1, <1>2, <2>2, <3>3, <3>4, <3>5, <3>7 DEF Past, Began
    <3>9. Past(r) = reached[r] /\ Past(s) = reached[s]
      BY <1>1, <3>4, <3>7 DEF Past, Began
    <3>10. Past(r)' = Past(s)'
      <4>1. Past(r) = Past(s)
        BY <3>2, <3>3 DEF Ranks
      <4> QED BY <3>8, <3>9, <4>1
    <3> QED BY <3>3, <3>6, <3>10 DEF Ranks
  <2>5. CASE at' = [at EXCEPT ![r] = "aborting"]
    BY <1>3, <2>1, <2>5
  <2> QED BY <1>1, <2>3, <2>4, <2>5
<1> QED BY <1>5, <1>6

\* The callback gets on with the collective it has been through.
LEMMA ResumeMatches ==
    ASSUME IInv, Paired, Agreed, NEW r \in Ranks, Resume(r) PROVE Paired' /\ Agreed'
<1>1. /\ at[r] = "turning" /\ ~error /\ at' = [at EXCEPT ![r] = "callback"]
      /\ reached' = [reached EXCEPT ![r] = Append(@, asked[r])]
      /\ UNCHANGED <<isolation, localOnly, results, error, round, group, job, asked>>
  BY DEF Resume, MayCompute, Go, outside, sessionVars, jobVars, coordination
<1>2. UNCHANGED <<Mine, Alive>>
  BY <1>1 DEF Mine, Alive
<1>3. /\ \A s \in Ranks : at'[s] = IF s = r THEN "callback" ELSE at[s]
      /\ \A s \in Ranks : reached'[s] = IF s = r THEN Append(reached[r], asked[r]) ELSE reached[s]
  BY <1>1 DEF IInv, TypeOK
<1>4. Alive /\ job[r] # 0 /\ at[r] \in Busy
  BY <1>1, BusyAlive DEF IInv, Unwound, Busy
<1>5. Mine # 0 => results[Mine][r] = "none"
  BY <1>1, <1>4, BusyUndone
<1>6. Agreed'
  BY <1>1, <1>2, <1>3, <1>5 DEF Agreed, Passed
<1>7. Paired'
  <2> SUFFICES ASSUME Hale' PROVE (Rounds /\ Past(0) = Past(1))'
    BY DEF Paired
  <2>1. Hale
    BY <1>1, <1>2, <1>3 DEF Hale
  <2>2. Rounds /\ Past(0) = Past(1)
    BY <2>1 DEF Paired
  <2>3. Rounds'
    BY <1>1, <1>3, <2>2 DEF Rounds
  <2>4. ASSUME NEW s \in Ranks
        PROVE  Past(s)' = Past(s)
    BY <1>1, <1>2, <1>3, <1>4 DEF Past, Began
  <2> QED BY <2>2, <2>3, <2>4 DEF Ranks
<1> QED BY <1>6, <1>7

\* A rank that takes a job has been through nothing of it, and the job was not done.
LEMMA TakeJobMatches ==
    ASSUME IInv, Queued, Paired, Agreed, NEW r \in Ranks, TakeJob(r) PROVE Paired' /\ Agreed'
<1> DEFINE j == Head(inbox[r])
           place == IF localOnly[j] THEN "callback" ELSE "entering"
<1>1. /\ at[r] = "idle" /\ inbox[r] # <<>> /\ j # 0
      /\ at' = [at EXCEPT ![r] = place] /\ job' = [job EXCEPT ![r] = j]
      /\ reached' = [reached EXCEPT ![r] = <<>>]
      /\ UNCHANGED <<isolation, localOnly, results, error, round, group, asked>>
  BY DEF TakeJob, Go, outside, sessionVars, jobVars, coordination
<1>2. UNCHANGED <<Mine, Alive>>
  BY <1>1 DEF Mine, Alive
<1>3. /\ \A s \in Ranks : at'[s] = IF s = r THEN place ELSE at[s]
      /\ \A s \in Ranks : job'[s] = IF s = r THEN j ELSE job[s]
      /\ \A s \in Ranks : reached'[s] = IF s = r THEN <<>> ELSE reached[s]
  BY <1>1 DEF IInv, TypeOK
<1>4. j \in 1 .. Mine /\ Mine \in Nat /\ 1 \in DOMAIN inbox[r] /\ j = inbox[r][1]
  <2>1. inbox[r] \in Seq(0 .. Mine) /\ Mine \in Nat
    BY DEF IInv, TypeOK, Mine
  <2>2. j = inbox[r][1] /\ j \in 0 .. Mine /\ Len(inbox[r]) \in Nat \ {0} /\ DOMAIN inbox[r] = 1 .. Len(inbox[r])
    BY <1>1, <2>1, Taken
  <2> QED BY <1>1, <2>1, <2>2
<1>5. results[Mine][r] = "none" /\ Mine # 0
  <2>1. Pristine(r, inbox[r][1])
    BY <1>1, <1>4 DEF Queued
  <2>2. Mine \in j .. Mine
    BY <1>4
  <2> QED BY <1>4, <2>1, <2>2 DEF Pristine, Mine
<1>6. job[r] = 0
  BY <1>1 DEF IInv, Unwound, Busy
<1>7. place \in {"callback", "entering"}
  OBVIOUS
<1> HIDE DEF place, j
<1>8. Agreed'
  BY <1>1, <1>2, <1>3, <1>5, <1>7 DEF Agreed, Passed
<1>9. Paired'
  <2> SUFFICES ASSUME Hale' PROVE (Rounds /\ Past(0) = Past(1))'
    BY DEF Paired
  <2>1. Hale
    BY <1>1, <1>2, <1>3 DEF Hale
  <2>2. Rounds /\ Past(0) = Past(1)
    BY <2>1 DEF Paired
  <2>3. Rounds'
    BY <1>1, <1>3, <1>7, <2>2 DEF Rounds
  <2>4. ASSUME NEW s \in Ranks
        PROVE  Past(s)' = Past(s)
    <3>1. CASE s = r
      BY <1>1, <1>3, <1>5, <1>6, <1>7, <3>1 DEF Past, Began
    <3>2. CASE s # r
      BY <1>1, <1>2, <1>3, <3>2 DEF Past, Began
    <3> QED BY <3>1, <3>2
  <2> QED BY <2>2, <2>3, <2>4 DEF Ranks
<1> QED BY <1>8, <1>9

\* A rank finishes with no round pending and no error: if the other has, they agree.
LEMMA FinishMatches ==
    ASSUME IInv, Paired, Agreed, NEW r \in Ranks, Finish(r) PROVE Paired' /\ Agreed'
<1>1. /\ at[r] = "finishing" /\ ~error /\ round = {} /\ at' = [at EXCEPT ![r] = "settling"]
      /\ UNCHANGED <<isolation, localOnly, results, error, round, group, job, asked, reached>>
  BY DEF Finish, MayFinish, Go, outside, sessionVars, jobVars
<1>2. UNCHANGED <<Mine, Alive>>
  BY <1>1 DEF Mine, Alive
<1>3. \A s \in Ranks : at'[s] = IF s = r THEN "settling" ELSE at[s]
  BY <1>1 DEF IInv, TypeOK
<1>4. Alive /\ at[r] \in Busy /\ job[r] # 0
  BY <1>1, BusyAlive DEF IInv, Unwound, Busy
<1>5. ASSUME NEW s \in Ranks, at[s] \notin {"aborting", "failing"} \/ Passed(s)', Mine # 0
      PROVE  at[s] \notin {"aborting", "failing"}
  <2> SUFFICES ASSUME Passed(s)', at[s] \in Busy, at[s] # "settling", s # r PROVE FALSE
    BY <1>1, <1>5 DEF Busy
  <2>1. results[Mine][s] = "value"
    BY <1>1, <1>2, <1>3 DEF Passed
  <2>2. results[Mine][s] = "none"
    BY <1>1, <1>4, BusyUndone
  <2> QED BY <2>1, <2>2
<1>6. Agreed'
  <2> SUFFICES ASSUME Mine # 0, \A s \in Ranks : Passed(s)' PROVE reached[0] = reached[1]
    BY <1>1, <1>2 DEF Agreed
  <2>1. Hale
    BY <1>1, <1>4, <1>5 DEF Hale
  <2>2. Past(0) = Past(1)
    BY <2>1 DEF Paired
  <2>3. ASSUME NEW s \in Ranks
        PROVE  Past(s) = reached[s]
    <3>1. CASE s = r
      BY <1>1, <1>4, <3>1 DEF Past, Began
    <3>2. CASE s # r /\ at[s] = "settling"
      <4>1. job[s] # 0
        BY <3>2 DEF IInv, Unwound, Busy
      <4> QED BY <3>2, <4>1 DEF Past, Began
    <3>3. CASE s # r /\ at[s] # "settling"
      <4>1. results[Mine][s] = "value"
        BY <1>1, <1>2, <1>3, <3>3 DEF Passed
      <4>2. at[s] \notin Busy
        BY <1>1, <1>4, <4>1, BusyUndone
      <4> QED BY <4>1, <4>2 DEF Past, Began, Busy
    <3> QED BY <3>1, <3>2, <3>3
  <2> QED BY <2>2, <2>3 DEF Ranks
<1>7. Paired'
  <2> SUFFICES ASSUME Hale' PROVE (Rounds /\ Past(0) = Past(1))'
    BY DEF Paired
  <2>1. Hale
    BY <1>1, <1>2, <1>3 DEF Hale
  <2>2. Rounds /\ Past(0) = Past(1)
    BY <2>1 DEF Paired
  <2>3. Rounds'
    BY <1>1, <1>3, <2>2 DEF Rounds
  <2> QED BY <1>1, <1>2, <1>3, <2>2, <2>3 DEF Past, Began, Ranks
<1> QED BY <1>6, <1>7

\* A rank that settles its job has been through what it had.
LEMMA SettleMatches ==
    ASSUME IInv, Paired, Agreed, NEW r \in Ranks, Settle(r) PROVE Paired' /\ Agreed'
<1>1. /\ at[r] \in {"settling", "failed"} /\ at' = [at EXCEPT ![r] = "idle"]
      /\ job' = [job EXCEPT ![r] = 0]
      /\ results' = [results EXCEPT ![job[r]][r] = IF at[r] = "failed" THEN "error" ELSE "value"]
      /\ UNCHANGED <<isolation, localOnly, error, round, group, asked, reached>>
  BY DEF Settle, Go, sessionVars, coordination
<1>2. UNCHANGED <<Mine, Alive>>
  BY <1>1 DEF Mine, Alive
<1>3. /\ \A s \in Ranks : at'[s] = IF s = r THEN "idle" ELSE at[s]
      /\ \A s \in Ranks : job'[s] = IF s = r THEN 0 ELSE job[s]
  BY <1>1 DEF IInv, TypeOK
<1>4. /\ Mine \in Nat /\ DOMAIN results = 1 .. Mine
      /\ \A j \in 1 .. Mine : results[j] \in [Ranks -> {"none", "value", "error"}]
      /\ job[r] \in 1 .. Mine
  <2>1. /\ localOnly \in Seq(BOOLEAN) /\ Len(results) = Len(localOnly)
        /\ results \in Seq([Ranks -> {"none", "value", "error"}])
        /\ job[r] \in 0 .. Len(localOnly)
    BY DEF IInv, TypeOK
  <2>2. job[r] # 0
    BY <1>1 DEF IInv, Unwound, Busy
  <2> QED BY <2>1, <2>2 DEF Mine
<1>5. \A s \in Ranks : Mine # 0 =>
         results'[Mine][s] = IF s = r /\ job[r] = Mine
                             THEN IF at[r] = "failed" THEN "error" ELSE "value"
                             ELSE results[Mine][s]
  BY <1>1, <1>4
<1>6. Agreed'
  <2>1. ASSUME NEW s \in Ranks, Passed(s)', Mine # 0
        PROVE  Passed(s)
    BY <1>1, <1>2, <1>3, <1>4, <1>5, <2>1 DEF Passed
  <2> QED BY <1>1, <1>2, <2>1 DEF Agreed
<1>7. Paired'
  <2> SUFFICES ASSUME Hale' PROVE (Rounds /\ Past(0) = Past(1))'
    BY DEF Paired
  <2>1. Hale
    BY <1>1, <1>2, <1>3 DEF Hale
  <2>2. Rounds /\ Past(0) = Past(1)
    BY <2>1 DEF Paired
  <2>3. Rounds'
    BY <1>1, <1>3, <2>2 DEF Rounds
  <2>4. job[r] = Mine /\ Mine # 0
    BY <1>1, <2>1, BusyUndone DEF Hale, Busy, IInv, TypeOK, Mine, Jobs
  <2>5. ASSUME NEW s \in Ranks
        PROVE  Past(s)' = Past(s)
    <3>1. CASE s = r
      BY <1>1, <1>2, <1>3, <1>5, <2>4, <3>1 DEF Past, Began
    <3>2. CASE s # r
      BY <1>1, <1>2, <1>3, <1>5, <3>2 DEF Past, Began
    <3> QED BY <3>1, <3>2
  <2> QED BY <2>2, <2>3, <2>5 DEF Ranks
<1> QED BY <1>6, <1>7

\* A new job finds both ranks idle, unless there was an error.
LEMMA SubmitMatches ==
    ASSUME ExecutorAssumption, IInv, Paired, NEW c \in Callers, Submit(c)
    PROVE  Paired' /\ Agreed'
<1>1. /\ step[c] = "submit"
      /\ localOnly' = Append(localOnly, ~arg[c])
      /\ results' = Append(results, [r \in Ranks |-> "none"])
      /\ UNCHANGED <<isolation, error, round, group, at, job, asked, reached>>
  BY DEF Submit, sessionVars, coordination
<1>2. /\ Mine \in Nat /\ Mine' = Mine + 1 /\ \A s \in Ranks : job[s] \in 0 .. Mine
      /\ \A s \in Ranks : results'[Mine + 1][s] = "none"
  BY <1>1 DEF IInv, TypeOK, Mine
<1>3. Agreed'
  <2>1. 0 \in Ranks /\ ~Passed(0)'
    <3>1. 0 \in Ranks /\ results'[Mine'][0] = "none"
      BY <1>2 DEF Ranks
    <3>2. job'[0] # Mine'
      BY <1>1, <1>2, <3>1
    <3> QED BY <3>1, <3>2 DEF Passed
  <2> QED BY <2>1 DEF Agreed, Ranks
<1>4. Paired'
  <2> SUFFICES ASSUME Hale' PROVE (Rounds /\ Past(0) = Past(1))'
    BY DEF Paired
  <2>1. Hale /\ Alive /\ ~error
    BY <1>1 DEF Hale, Alive
  <2>2. Rounds'
    BY <1>1, <2>1 DEF Paired, Rounds
  <2>3. ASSUME NEW s \in Ranks
        PROVE  job[s] = 0
    <3>1. at[s] \notin Busy
      BY <1>1, <2>1, NobodySubmits
    <3> QED BY <3>1 DEF IInv, Unwound
  <2>4. ASSUME NEW s \in Ranks
        PROVE  Past(s)' = <<>>
    <3>1. ~Began(s)'
      BY <1>1, <1>2, <2>3 DEF Began
    <3> QED BY <3>1 DEF Past
  <2> QED BY <2>2, <2>4 DEF Ranks
<1> QED BY <1>3, <1>4

\* Every step keeps the match of what the ranks are in the middle of, and of what they
\* have finished.
LEMMA MatchStep ==
    ASSUME ExecutorAssumption, IInv, Queued, Paired, Agreed, Next PROVE Paired' /\ Agreed'
<1>1. CASE Rest
  BY <1>1, SameWork DEF Rest, vars, inside, jobVars, workerVars, coordination, sessionVars, Alive
<1>2. ASSUME NEW r \in Ranks, Callback(r) \/ Refuse(r) \/ Coordinate(r) \/ Work(r)
      PROVE  Paired' /\ Agreed'
  <2>1. CASE Resume(r)
    BY <2>1, ResumeMatches
  <2>2. CASE TakeJob(r)
    BY <2>2, TakeJobMatches
  <2>3. CASE Finish(r)
    BY <2>3, FinishMatches
  <2>4. CASE Settle(r)
    BY <2>4, SettleMatches
  <2>5. ASSUME \/ Refuse(r) \/ WaitFails(r) \/ EnterFails(r) \/ Raise(r) \/ FinishFails(r)
               \/ Leave(r) \/ Enter(r)
        PROVE  Paired' /\ Agreed'
    <3>1. \E place \in Doomed \cup {"dead", "callback"} :
             /\ Move(r, place)
             /\ \/ place \in Doomed
                \/ at[r] \notin Doomed \cup Waiting /\ place \notin Waiting
      BY <2>5 DEF Refuse, WaitFails, EnterFails, Raise, FinishFails, Leave, Enter, Doomed, Waiting
    <3>2. PICK place \in Doomed \cup {"dead", "callback"} :
             /\ Move(r, place)
             /\ \/ place \in Doomed
                \/ at[r] \notin Doomed \cup Waiting /\ place \notin Waiting
      BY <3>1
    <3>3. /\ at' = [at EXCEPT ![r] = place] /\ place # "settling" /\ error' = error
          /\ UNCHANGED <<isolation, localOnly, results, round, group, job, asked, reached>>
      BY <3>2 DEF Move, Go, outside, sessionVars, jobVars, coordination, Doomed
    <3>4. error \in BOOLEAN
      BY DEF IInv, TypeOK
    <3> QED BY <3>2, <3>3, <3>4, MovedOn
  <2>6. CASE Return(r)
    <3>1. PICK place : place = IF localOnly[job[r]] THEN "settling" ELSE "finishing"
      OBVIOUS
    <3>2. /\ at' = [at EXCEPT ![r] = place] /\ error' = error /\ at[r] = "callback"
          /\ UNCHANGED <<isolation, localOnly, results, round, group, job, asked, reached>>
      BY <2>6, <3>1 DEF Return, Move, Go, outside, sessionVars, jobVars, coordination
    <3>3. error \in BOOLEAN
      BY DEF IInv, TypeOK
    <3>4. at[r] \notin Doomed \cup Waiting /\ place \notin Waiting
      BY <3>1, <3>2 DEF Doomed, Waiting
    <3> QED BY <3>1, <3>2, <3>3, <3>4, MovedOn
  <2>7. CASE Initialise(r) \/ TakeStop(r)
    <3>1. \E place \in {"idle", "leaving"} : at' = [at EXCEPT ![r] = place]
      BY <2>7 DEF Initialise, TakeStop, Go
    <3>2. PICK place \in {"idle", "leaving"} : at' = [at EXCEPT ![r] = place]
      BY <3>1
    <3>3. /\ place # "settling" /\ error' = error /\ at[r] \notin Doomed \cup Waiting
          /\ place \notin Waiting
          /\ UNCHANGED <<isolation, localOnly, results, round, group, job, asked, reached>>
      BY <2>7, <3>2 DEF Initialise, TakeStop, outside, sessionVars, jobVars, coordination, Doomed,
         Waiting
    <3>4. error \in BOOLEAN
      BY DEF IInv, TypeOK
    <3> QED BY <3>2, <3>3, <3>4, MovedOn
  <2>8. CASE CallAborts(r) \/ InitFails(r) \/ Fail(r)
    <3>1. \E place \in {"callback", "leaving", "failed"} : at' = [at EXCEPT ![r] = place]
      BY <2>8 DEF CallAborts, InitFails, Fail, Go
    <3>2. PICK place \in {"callback", "leaving", "failed"} : at' = [at EXCEPT ![r] = place]
      BY <3>1
    <3>3. /\ place # "settling" /\ error'
          /\ UNCHANGED <<isolation, localOnly, results, round, group, job, asked, reached>>
      BY <2>8, <3>2 DEF CallAborts, InitFails, Fail, Abort, outside, sessionVars, jobVars
    <3> QED BY <3>2, <3>3, MovedOn
  <2> QED BY <1>2, <2>1, <2>2, <2>3, <2>4, <2>5, <2>6, <2>7, <2>8 DEF Callback, Coordinate, Work
<1>3. ASSUME NEW r \in Ranks, NEW g \in Groups, Collective(r, g)
      PROVE  Paired' /\ Agreed'
  BY <1>3, CollectiveMatches
<1>4. ASSUME NEW c \in Callers,
             Open(c) \/ CallRun(c) \/ CallClose(c) \/ Interrupt(c) \/ CallerStep(c)
      PROVE  Paired' /\ Agreed'
  <2>1. CASE Submit(c)
    BY <2>1, SubmitMatches
  <2>2. ASSUME NEW r \in Ranks, StartWorker(c, r)
        PROVE  Paired' /\ Agreed'
    <3>1. /\ at' = [at EXCEPT ![r] = "starting"] /\ error' = error /\ at[r] = "none"
          /\ UNCHANGED <<isolation, localOnly, results, round, group, job, asked, reached>>
      BY <2>2 DEF StartWorker, Move, Go, outside, sessionVars, jobVars, coordination
    <3>2. error \in BOOLEAN
      BY DEF IInv, TypeOK
    <3>3. at[r] \notin Doomed \cup Waiting /\ "starting" \notin Waiting
      BY <3>1 DEF Doomed, Waiting
    <3> QED BY <3>1, <3>2, <3>3, MovedOn
  <2>3. CASE Open(c) \/ CallRun(c) \/ CallClose(c) \/ Interrupt(c) \/ Opened(c) \/ OpenFails(c)
             \/ BrokenRaises(c)
    BY <2>3, SameWork DEF Open, CallRun, CallClose, Interrupt, Opened, OpenFails, BrokenRaises, Step,
       inside, jobVars, workerVars, coordination, sessionVars, Alive
  <2>4. CASE RunStep(c) /\ ~Submit(c)
    BY <2>4, SameWork DEF RunStep, RunLock, Begin, BeginFails, BeginCleanup, PreviousDone,
       SubmitFails, AwaitedDone, TimesOut, RunRaises, RunEnds, Abort, Step, inside, jobVars,
       workerVars, coordination, sessionVars, Alive
  <2>5. CASE CloseStep(c)
    BY <2>5, SameWork DEF CloseStep, CloseRefused, CloseBroken, CloseLock, CloseEnds, CloseTimesOut,
       Abort, Step, inside, jobVars, workerVars, coordination, sessionVars, Alive
  <2> QED BY <1>4, <2>1, <2>2, <2>3, <2>4, <2>5 DEF CallerStep, OpenStep
<1> QED BY <1>1, <1>2, <1>3, <1>4 DEF Next

\* When a job of run gives a value on both ranks, their callbacks completed the same
\* collectives in the same groups and in the same order, whatever came after.
THEOREM Matching == ASSUME ExecutorAssumption PROVE Spec => []MatchedCollectives
<1> DEFINE MInv == Queued /\ Paired /\ Agreed
<1>1. Init => MInv
  <2> SUFFICES ASSUME Init PROVE MInv
    OBVIOUS
  <2>1. Mine = 0 /\ Len(<<>>) = 0
    BY DEF Init, Mine
  <2>2. Queued
    BY DEF Init, Queued
  <2>3. Agreed
    BY <2>1 DEF Agreed
  <2>4. \A r \in Ranks : ~Began(r)
    BY <2>1 DEF Init, Began
  <2>5. Paired
    BY <2>4 DEF Init, Paired, Rounds, Past, Ranks
  <2> QED BY <2>2, <2>3, <2>5
<1>2. IInv /\ MInv /\ [Next]_vars => MInv'
  <2> SUFFICES ASSUME IInv, MInv, [Next]_vars PROVE MInv'
    OBVIOUS
  <2>1. CASE Next
    BY <2>1, QueuedStep, MatchStep
  <2>2. CASE UNCHANGED vars
    <3>1. Queued'
      BY <2>2, SameQueues DEF vars, inside, jobVars, workerVars, Shared
    <3>2. Paired' /\ Agreed'
      BY <2>2, SameWork DEF vars, inside, jobVars, workerVars, coordination, sessionVars, Alive
    <3> QED BY <3>1, <3>2
  <2> QED BY <2>1, <2>2
<1>3. MInv => MatchedCollectives
  BY DEF Agreed, Passed, MatchedCollectives
<1> HIDE DEF MInv
<1> QED BY <1>1, <1>2, <1>3, Invariance, PTL DEF Spec
=============================================================================
