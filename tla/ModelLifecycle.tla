---------------------------- MODULE ModelLifecycle ----------------------------
(***************************************************************************)
(* One ModelOffloader over its components (model_offloader.py,             *)
(* composite_component.py, host_component.py, block_component.py): the      *)
(* sessions that activate and deactivate begin and end, forwards whose     *)
(* hooks release and acquire the transient components, and optimizer steps. *)
(* Any call may raise; a synchronization of the device that fails leaves a  *)
(* component holding what its copies may still read.  The device's copies  *)
(* complete at any time.                                                   *)
(***************************************************************************)
EXTENDS Naturals, Sequences, FiniteSets, SequencesExt

CONSTANTS
  Layout,       \* the components in their order: [kind, transient, trainable]
  MaxSessions,  \* bound on the activations
  MaxFaults     \* bound on the synchronizations that fail

(* A block component is "resident", or streams (or rolls) its blocks through
   targets it refills for the whole "session"; trainables that stream are
   StreamingRuntime's. *)
ASSUME LayoutAssumption ==
  /\ Layout \in Seq([kind : {"host", "resident", "session"}, transient : BOOLEAN, trainable : BOOLEAN])
  /\ \A i \in DOMAIN Layout : Layout[i].trainable => Layout[i].kind # "session"
  /\ MaxSessions \in Nat /\ MaxFaults \in Nat

VARIABLES
  session,      \* how many activations have begun
  active,       \* _active_device, and the activation lock it goes with
  routed,       \* routed hooks, their lease, whether their staging runs and since which session
  hooks,        \* the transient components' hooks are installed
  comp,         \* comp[c]: the state of a component
  pc, at,       \* what the offloader is doing, and at which component
  stack,        \* the callbacks of the ExitStack being filled or closed
  teardown,     \* the composite's _teardown_stack
  failed,       \* the call under way raises
  hurt,         \* a call of this session has raised
  faults
vars == <<session, active, routed, hooks, comp, pc, at, stack, teardown, failed, hurt, faults>>

------------------------------------------------------------------------------
C == DOMAIN Layout
Kind(c) == Layout[c].kind
Transient(c) == Layout[c].transient

(* active and stamp: the component's session, and the one its targets were
   filled in; transfer and pin: its leases of host storage; busy: copies between
   that storage and its targets run; lost: its targets' streams could not be
   synchronized; stray: copies run that it has forgotten. *)
Fresh == [active |-> "none", acquired |-> FALSE, stamp |-> 0, transfer |-> FALSE, pin |-> FALSE,
          busy |-> FALSE, lost |-> FALSE, stray |-> FALSE]

Init ==
  /\ session = 0 /\ active = "none"
  /\ routed = [hooks |-> FALSE, lease |-> FALSE, busy |-> FALSE, since |-> 0]
  /\ hooks = FALSE
  /\ comp = [c \in C |-> Fresh]
  /\ pc = "idle" /\ at = 1
  /\ stack = <<>> /\ teardown = <<>>
  /\ failed = FALSE /\ hurt = FALSE /\ faults = 0

------------------------------------------------------------------------------
(* What a call on a component may come to: its state after, whether it raises
   and whether a synchronization has failed. *)

Returns(r) == [to |-> r, raises |-> FALSE, fault |-> FALSE]
Raises(r) == [to |-> r, raises |-> TRUE, fault |-> FALSE]
Unsynchronized(r) == [to |-> r, raises |-> TRUE, fault |-> TRUE]

Retired(r) == [r EXCEPT !.acquired = FALSE, !.transfer = FALSE, !.pin = FALSE, !.busy = FALSE, !.lost = FALSE]
Staged(r) == [r EXCEPT !.acquired = TRUE, !.stamp = session, !.busy = TRUE]
Acquired(r) == [r EXCEPT !.acquired = TRUE, !.stamp = session]
Transferring(r) == [r EXCEPT !.transfer = TRUE]
Pinned(r) == [r EXCEPT !.pin = TRUE]

(* HostComponent.release synchronizes the transfer before anything else. *)
HostReleases(r) ==
  IF ~r.transfer /\ ~r.acquired THEN {Returns(r)}
  ELSE {Returns(Retired(r)), Raises(Retired(r))} \cup (IF r.transfer THEN {Unsynchronized(r)} ELSE {})

(* MUTANT: a runtime that is not acquired has nothing to release. *)
ResidentReleasesAcquired(r) ==
  IF r.active # "cuda" \/ ~r.acquired THEN {Returns(r)}
  ELSE {Returns(Retired(r)), Raises(Retired(r)), Unsynchronized(r)}

(* BlockComponent.release over ResidentBlockRuntime.release. *)
ResidentReleases(r) ==
  IF r.active # "cuda" THEN {Returns(r)}
  ELSE IF ~r.acquired THEN {Returns([r EXCEPT !.transfer = FALSE])}
  ELSE {Returns(Retired(r)), Raises(Retired(r)), Unsynchronized(r)}

Forgotten(r) == [Retired(r) EXCEPT !.stray = r.stray \/ r.busy]
Lost(r) == [r EXCEPT !.lost = TRUE]

(* MUTANT: the pin lease is closed whether or not the runtime has let go. *)
SessionReleasesAnyway(r) ==
  IF r.active # "cuda" THEN {Returns(r)}
  ELSE IF ~r.acquired THEN {Returns([r EXCEPT !.pin = FALSE])}
  ELSE IF r.lost THEN {Returns(Forgotten(r)), Raises(Forgotten(r)), Unsynchronized(r)}
  ELSE {Returns(Retired(r)), Raises(Retired(r)), Unsynchronized([Lost(r) EXCEPT !.pin = FALSE])}

(* BlockComponent.release over a streaming or rolling runtime: closing a target
   whose streams can not be synchronized drops it all the same, so that a second
   release has nothing left to synchronize there; the runtime lets go, whatever
   still runs, and the pin lease follows, unless another target's streams fail. *)
SessionReleases(r) ==
  IF r.active # "cuda" THEN {Returns(r)}
  ELSE IF ~r.acquired THEN {Returns([r EXCEPT !.pin = FALSE])}
  ELSE IF r.lost THEN {Returns(Forgotten(r)), Raises(Forgotten(r)), Unsynchronized(r)}
  ELSE {Returns(Retired(r)), Raises(Retired(r)), Unsynchronized(Lost(r))}

Releases(c, r) ==
  CASE Kind(c) = "host" -> HostReleases(r) [] Kind(c) = "resident" -> ResidentReleases(r) [] OTHER -> SessionReleases(r)

(* HostComponent.acquire: what fails after the transfer has started releases it. *)
HostAcquires(r) ==
  IF r.acquired THEN {Returns(r)}
  ELSE IF r.transfer THEN {Raises(r)}
  ELSE {Returns(Acquired(r)), Raises(r), Unsynchronized(Transferring(r)), Unsynchronized(Staged(Transferring(r)))}

(* BlockComponent.acquire over ResidentBlockRuntime.acquire: the runtime releases
   what failed, the transfer stays open for the component's release. *)
ResidentAcquires(r) ==
  IF r.acquired THEN {Returns(r)}
  ELSE IF r.transfer THEN {Raises(r)}
  ELSE {Returns(Acquired(r)), Raises(r), Raises(Transferring(r)), Unsynchronized(Staged(Transferring(r)))}

(* BlockComponent.acquire over a streaming or rolling runtime, which on an error
   leaves what it has acquired. *)
SessionAcquires(r) ==
  IF r.acquired THEN {Returns(r)}
  ELSE IF r.pin THEN {Raises(r)}
  ELSE {Returns(Staged(Pinned(r))), Raises(r), Raises(Pinned(r)), Raises(Staged(Pinned(r)))}

Acquires(c, r) ==
  CASE Kind(c) = "host" -> HostAcquires(r) [] Kind(c) = "resident" -> ResidentAcquires(r) [] OTHER -> SessionAcquires(r)

(* MUTANT: only the session's pin is looked for. *)
UnfinishedPin(r) == r.pin

(* What an earlier session could not finish. *)
Unfinished(r) == r.transfer \/ r.pin \/ r.acquired

Activates(c) ==
  LET r == comp[c] IN
  IF r.active # "none" \/ Unfinished(r) THEN {Raises(r)}
  ELSE IF active = "cpu" THEN {Returns([r EXCEPT !.active = "cpu"])}
  ELSE Acquires(c, [r EXCEPT !.active = "cuda"])

Deactivates(c) == {[o EXCEPT !.to.active = "none"] : o \in Releases(c, comp[c])}

(* Closing the targets waits for the streams their modules ran on, which are
   the ones the routed hooks stage factors on. *)
Quiets(c, o) == comp[c].acquired /\ active = "cuda" /\ ~o.to.acquired /\ ~o.raises /\ ~comp[c].lost

Takes(c, o) ==
  /\ o.fault => faults < MaxFaults
  /\ faults' = IF o.fault THEN faults + 1 ELSE faults
  /\ comp' = [comp EXCEPT ![c] = o.to]

------------------------------------------------------------------------------
(* ModelOffloader.activate *)

(* The session begins; its arguments are refused, or the routed hooks can not be
   installed, some time after their factors were leased. *)
Begin ==
  /\ pc = "idle" /\ active = "none" /\ session < MaxSessions
  /\ session' = session + 1
  /\ \E device \in {"cpu", "cuda"}, route \in BOOLEAN, fails \in BOOLEAN, leased \in BOOLEAN :
       LET takesLease == route /\ device = "cuda"
           refused == fails \/ (takesLease /\ routed.lease)
       IN  /\ leased => takesLease /\ ~routed.lease
           /\ (takesLease /\ ~refused) => leased
           /\ active' = device
           /\ routed' = IF leased THEN [routed EXCEPT !.hooks = TRUE, !.lease = TRUE]
                        ELSE [routed EXCEPT !.hooks = route]
           /\ pc' = IF refused THEN "closing" ELSE "activating"
           /\ hurt' = refused
  /\ failed' = FALSE /\ stack' = <<>>
  /\ UNCHANGED <<hooks, comp, at, teardown, faults>>

(* CompositeComponent.activate: the callback is registered before the component
   is activated. *)
Activate ==
  /\ pc = "activating" /\ Len(stack) < Len(Layout)
  /\ LET c == Len(stack) + 1 IN
     \E o \in Activates(c) :
       /\ Takes(c, o)
       /\ stack' = Append(stack, c)
       /\ pc' = IF o.raises THEN "unwinding" ELSE pc
       /\ hurt' = (hurt \/ o.raises)
  /\ UNCHANGED <<session, active, routed, hooks, at, teardown, failed>>

Activated ==
  /\ pc = "activating" /\ Len(stack) = Len(Layout)
  /\ teardown' = stack /\ stack' = <<>>
  /\ hooks' = (active = "cuda" /\ \E c \in C : Transient(c))
  /\ pc' = "idle"
  /\ UNCHANGED <<session, active, routed, comp, at, failed, hurt, faults>>

------------------------------------------------------------------------------
(* ModelOffloader.deactivate *)

Deactivate ==
  /\ pc = "idle" /\ active # "none"
  /\ hooks' = FALSE
  /\ stack' = teardown /\ teardown' = <<>>
  /\ failed' = FALSE /\ pc' = "closing"
  /\ UNCHANGED <<session, active, routed, comp, at, hurt, faults>>

(* The stack calls every callback, last first, whatever they raise. *)
Close ==
  /\ pc \in {"unwinding", "closing"} /\ stack # <<>>
  /\ LET c == Last(stack) IN
     \E o \in Deactivates(c) :
       /\ Takes(c, o)
       /\ failed' = (failed \/ o.raises)
       /\ routed' = [routed EXCEPT !.busy = @ /\ ~Quiets(c, o)]
  /\ stack' = Front(stack)
  /\ UNCHANGED <<session, active, hooks, pc, at, teardown, hurt>>

(* A failed activation deactivates the offloader in turn, whose composite has no
   stack. *)
Unwound ==
  /\ pc = "unwinding" /\ stack = <<>>
  /\ pc' = "closing" /\ failed' = FALSE
  /\ UNCHANGED <<session, active, routed, hooks, comp, at, stack, teardown, hurt, faults>>

Deactivated ==
  /\ pc = "closing" /\ stack = <<>>
  /\ routed' = [routed EXCEPT !.hooks = FALSE, !.lease = @ /\ failed]
  /\ active' = "none" /\ pc' = "idle"
  /\ UNCHANGED <<session, hooks, comp, at, stack, teardown, failed, hurt, faults>>

------------------------------------------------------------------------------
(* A forward of the model, and its hooks. *)

Forward ==
  /\ pc = "idle" /\ active # "none"
  /\ pc' = "forward" /\ at' = 1
  /\ UNCHANGED <<session, active, routed, hooks, comp, stack, teardown, failed, hurt, faults>>

Abandon == pc' = "idle" /\ hurt' = TRUE /\ at' = 1

(* The modules of a component run: a runtime that streams goes on refilling its
   targets, routed hooks stage their factors, and the release hook follows. *)
ForwardComponent ==
  /\ pc = "forward" /\ at \in C
  /\ LET r == comp[at]
         ran == [r EXCEPT !.busy = @ \/ (Kind(at) = "session" /\ r.acquired /\ ~r.lost)]
         staging == IF routed.hooks /\ active = "cuda" THEN [routed EXCEPT !.busy = TRUE, !.since = session]
                    ELSE routed
     IN  \/ /\ active = "cuda" => r.acquired
            /\ \E o \in (IF hooks /\ Transient(at) THEN Releases(at, ran) ELSE {Returns(ran)}) :
                 /\ Takes(at, o)
                 /\ routed' = [staging EXCEPT !.busy = @ /\ ~Quiets(at, o)]
                 /\ IF o.raises THEN Abandon ELSE at' = at + 1 /\ UNCHANGED <<pc, hurt>>
         \/ /\ Abandon            \* the module itself raises
            /\ comp' = [comp EXCEPT ![at] = ran] /\ routed' = staging
            /\ UNCHANGED faults
  /\ UNCHANGED <<session, active, hooks, stack, teardown, failed>>

(* reacquire_after_forward *)
ForwardEnd ==
  /\ pc = "forward" /\ at \notin C
  /\ pc' = IF hooks THEN "reacquire" ELSE "idle"
  /\ at' = 1
  /\ UNCHANGED <<session, active, routed, hooks, comp, stack, teardown, failed, hurt, faults>>

Reacquire ==
  /\ pc = "reacquire" /\ at \in C
  /\ \E o \in (IF Transient(at) THEN Acquires(at, comp[at]) ELSE {Returns(comp[at])}) :
       /\ Takes(at, o)
       /\ IF o.raises THEN Abandon ELSE at' = at + 1 /\ UNCHANGED <<pc, hurt>>
  /\ UNCHANGED <<session, active, routed, hooks, stack, teardown, failed>>

Reacquired ==
  /\ pc = "reacquire" /\ at \notin C
  /\ pc' = "idle" /\ at' = 1
  /\ UNCHANGED <<session, active, routed, hooks, comp, stack, teardown, failed, hurt, faults>>

------------------------------------------------------------------------------
(* ModelOffloader.optimizer_step on CUDA: every component's boundary is entered,
   and left in reverse, with the exception if one is under way. *)

Step ==
  /\ pc = "idle" /\ active = "cuda"
  /\ pc' = "entering" /\ stack' = <<>> /\ failed' = FALSE
  /\ UNCHANGED <<session, active, routed, hooks, comp, at, teardown, hurt, faults>>

Enters(c) ==
  LET r == comp[c] IN
  CASE Kind(c) = "host" /\ ~Layout[c].trainable -> {Returns(r)}
    [] Kind(c) = "host" /\ Layout[c].trainable /\ (~r.acquired \/ r.transfer) -> {Raises(r)}
    [] Kind(c) = "resident" /\ Layout[c].trainable /\ r.transfer -> {Raises(r)}
    [] Kind(c) # "host" /\ ~Layout[c].trainable -> IF r.acquired THEN {Returns(r)} ELSE {Raises(r)}
    [] OTHER ->
         {Raises(r)} \cup (IF r.acquired THEN {Returns(Transferring(r))} ELSE {Unsynchronized(Transferring(r))})

(* The copies back to host storage, and their synchronization. *)
Exits(c) ==
  LET r == comp[c]
      done == [r EXCEPT !.transfer = FALSE, !.busy = FALSE]
  IN  IF ~Layout[c].trainable THEN {Returns(r)}
      ELSE {Returns(done), Raises(done), Unsynchronized([r EXCEPT !.busy = TRUE])}

Enter ==
  /\ pc = "entering" /\ Len(stack) < Len(Layout)
  /\ LET c == Len(stack) + 1 IN
     \E o \in Enters(c) :
       /\ Takes(c, o)
       /\ stack' = IF o.raises THEN stack ELSE Append(stack, c)
       /\ pc' = IF o.raises THEN "exiting" ELSE pc
       /\ failed' = o.raises
  /\ UNCHANGED <<session, active, routed, hooks, at, teardown, hurt>>

(* The optimizer's own code runs, and may raise. *)
Optimize ==
  /\ pc = "entering" /\ Len(stack) = Len(Layout)
  /\ pc' = "exiting" /\ failed' \in BOOLEAN
  /\ UNCHANGED <<session, active, routed, hooks, comp, at, stack, teardown, hurt, faults>>

Exit ==
  /\ pc = "exiting" /\ stack # <<>>
  /\ LET c == Last(stack) IN
     \E o \in Exits(c) : Takes(c, o) /\ failed' = (failed \/ o.raises)
  /\ stack' = Front(stack)
  /\ UNCHANGED <<session, active, routed, hooks, pc, at, teardown, hurt>>

Stepped ==
  /\ pc = "exiting" /\ stack = <<>>
  /\ pc' = "idle" /\ hurt' = (hurt \/ failed)
  /\ UNCHANGED <<session, active, routed, hooks, comp, at, stack, teardown, failed, faults>>

------------------------------------------------------------------------------
(* The device finishes a component's copies, or the routed hooks'. *)
Arrive ==
  /\ \/ /\ \E c \in C : /\ comp[c].busy \/ comp[c].stray
                        /\ comp' = [comp EXCEPT ![c].busy = FALSE, ![c].stray = FALSE]
        /\ UNCHANGED routed
     \/ routed.busy /\ routed' = [routed EXCEPT !.busy = FALSE] /\ UNCHANGED comp
  /\ UNCHANGED <<session, active, hooks, pc, at, stack, teardown, failed, hurt, faults>>

Next ==
  \/ Begin \/ Activate \/ Activated \/ Deactivate \/ Close \/ Unwound \/ Deactivated
  \/ Forward \/ ForwardComponent \/ ForwardEnd \/ Reacquire \/ Reacquired
  \/ Step \/ Enter \/ Optimize \/ Exit \/ Stepped \/ Arrive

Spec == Init /\ [][Next]_vars

------------------------------------------------------------------------------
(* Type correctness.                                                        *)
TypeOK ==
  /\ session \in 0 .. MaxSessions /\ active \in {"none", "cpu", "cuda"}
  /\ routed \in [hooks : BOOLEAN, lease : BOOLEAN, busy : BOOLEAN, since : 0 .. MaxSessions]
  /\ comp \in [C -> [active : {"none", "cpu", "cuda"}, acquired : BOOLEAN, stamp : 0 .. MaxSessions,
                     transfer : BOOLEAN, pin : BOOLEAN, busy : BOOLEAN, lost : BOOLEAN, stray : BOOLEAN]]
  /\ pc \in {"idle", "activating", "unwinding", "closing", "forward", "reacquire", "entering", "exiting"}
  /\ at \in 1 .. Len(Layout) + 1
  /\ stack \in SeqOf(C, Len(Layout)) /\ teardown \in SeqOf(C, Len(Layout))
  /\ hooks \in BOOLEAN /\ failed \in BOOLEAN /\ hurt \in BOOLEAN /\ faults \in 0 .. MaxFaults

(* Host storage stays leased, and the targets allocated, while a component's
   copies between them run, through failed uploads, steps, releases and
   deactivations, but for one case: a transient group that streams or rolls lets
   go of both under its copies when it is released again after a synchronization
   failed in its forward hook.  No other component does, a group that is not
   transient among them: its deactivation forgets the runtime, and no later
   activation reaches that (TransferLease.finish, BlockComponent.release,
   deactivate and activate).  The docstring of deactivate ("A terminal CUDA
   synchronization failure retains its pin lease") does not name the exception. *)
ComponentsHeld ==
  \A c \in C :
    /\ comp[c].busy => (comp[c].transfer \/ comp[c].pin) /\ comp[c].acquired
    /\ comp[c].stray => Transient(c) /\ Kind(c) = "session" /\ faults > 0

(* And where some component is not transient, the factors routed hooks stage stay
   leased until the offloader is activated again (_clear_active_adapter_hooks). *)
StorageHeld == ComponentsHeld /\ (routed.busy /\ routed.since = session => routed.lease)

(* In a CUDA session in which no call has raised, every component has targets and
   they were filled in this session, never ones that an earlier session could
   not retire and filled under its own overrides (the guards of activate). *)
FilledThisSession ==
  pc = "idle" /\ active = "cuda" /\ ~hurt =>
    \A c \in C : comp[c].active = "cuda" /\ comp[c].acquired /\ comp[c].stamp = session

(* Whatever raised, between calls the offloader is in a session and so are all
   its components, ready to be torn down, or it is in none, with no hook left and
   no component in a session (activate's except, deactivate's finally). *)
SessionEnds ==
  pc = "idle" =>
    IF active = "none"
    THEN ~hooks /\ ~routed.hooks /\ teardown = <<>> /\ \A c \in C : comp[c].active = "none"
    ELSE Len(teardown) = Len(Layout) /\ \A c \in C : comp[c].active = active

(* When no synchronization has failed, an offloader that is not in a session
   holds no lease and no target, however its calls raised before; only a
   teardown that raised keeps the routed lease. *)
NothingLeaks ==
  pc = "idle" /\ active = "none" /\ faults = 0 =>
    /\ \A c \in C : ~Unfinished(comp[c]) /\ ~comp[c].stray
    /\ routed.lease => failed

(* However a session's calls raise, what follows is a session or nothing. *)
TearsDown == SessionEnds /\ NothingLeaks

==============================================================================
