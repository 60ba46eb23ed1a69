---------------------------- MODULE ModelProofs ----------------------------
(***************************************************************************)
(* However a session's calls raise and whatever synchronizations fail, no  *)
(* component lets go of storage its copies use, and every session is torn  *)
(* down, for any layout of components.  And for any model, requests and    *)
(* merges: a loaded parameter shows what was asked of it under every name  *)
(* it has, and the host keeps what no session may change.                  *)
(***************************************************************************)
EXTENDS ModelLifecycle, HostModules, DataLemmas

-----------------------------------------------------------------------------
(* The inductive invariant *)

States == [active : {"none", "cpu", "cuda"}, acquired : BOOLEAN, stamp : 0 .. MaxSessions,
           transfer : BOOLEAN, pin : BOOLEAN, busy : BOOLEAN, lost : BOOLEAN, stray : BOOLEAN]
Outcomes == [to : States, raises : BOOLEAN, fault : BOOLEAN]

\* The stacks hold the first components, in their order.
Prefix(s) == s \in Seq(C) /\ \A i \in 1 .. Len(s) : s[i] = i

Typed ==
    /\ session \in 0 .. MaxSessions /\ active \in {"none", "cpu", "cuda"}
    /\ routed \in [hooks : BOOLEAN, lease : BOOLEAN, busy : BOOLEAN, since : 0 .. MaxSessions]
    /\ routed.since <= session
    /\ comp \in [C -> States]
    /\ pc \in {"idle", "activating", "unwinding", "closing", "forward", "reacquire", "entering", "exiting"}
    /\ at \in 1 .. Len(Layout) + 1
    /\ Prefix(stack) /\ Prefix(teardown)
    /\ hooks \in BOOLEAN /\ failed \in BOOLEAN /\ hurt \in BOOLEAN /\ faults \in 0 .. MaxFaults

\* What is true of a component's state whatever the offloader does.
Sound(c, r) ==
    /\ r.busy => (r.transfer \/ r.pin) /\ r.acquired
    /\ r.lost => r.acquired
    /\ Kind(c) = "session" => ~r.transfer /\ (r.acquired => r.pin)
    /\ Kind(c) # "session" => ~r.pin /\ ~r.lost /\ ~r.stray

\* And as long as every synchronization has succeeded.
Clean(r) == (r.active # "cuda" => ~Unfinished(r)) /\ ~r.lost /\ ~r.stray

PartsSound == \A c \in C : Sound(c, comp[c])
Faultless == faults = 0 => \A c \in C : Clean(comp[c])

\* Between the calls, and in those that run inside a session.
Inside == pc \in {"idle", "forward", "reacquire", "entering", "exiting"} /\ active # "none"
Stages ==
    /\ pc # "idle" => active # "none"
    /\ pc = "idle" /\ active = "none" =>
         ~hooks /\ ~routed.hooks /\ teardown = <<>> /\ (routed.lease => failed)
         /\ \A c \in C : comp[c].active = "none"
    /\ pc \in {"activating", "unwinding", "closing"} =>
         ~hooks /\ teardown = <<>> /\ \A c \in C : c > Len(stack) => comp[c].active = "none"
    /\ pc = "activating" => \A c \in C : c <= Len(stack) => comp[c].active = active
    /\ Inside => Len(teardown) = Len(Layout) /\ \A c \in C : comp[c].active = active
    /\ hooks => active = "cuda"
    /\ pc = "reacquire" => hooks
    /\ pc \in {"entering", "exiting"} => active = "cuda"

\* A boundary that was entered has a transfer, out of a target.
Stepping ==
    pc \in {"entering", "exiting"} =>
      \A c \in C : c <= Len(stack) /\ Layout[c].trainable => comp[c].transfer /\ comp[c].acquired

\* What a CUDA session in which no call has raised has filled so far.
Filled(c) == comp[c].acquired /\ comp[c].stamp = session
Complete ==
    active = "cuda" /\ ~hurt =>
      /\ pc = "activating" => \A c \in C : c <= Len(stack) => Filled(c)
      /\ pc \in {"idle", "entering", "exiting"} => \A c \in C : Filled(c)
      /\ pc = "forward" =>
           \A c \in C : Filled(c) \/ (hooks /\ Transient(c) /\ c < at /\ ~comp[c].acquired)
      /\ pc = "reacquire" =>
           \A c \in C : Filled(c) \/ (Transient(c) /\ at <= c /\ ~comp[c].acquired)

\* A component that is not transient has its targets, which no release has lost, from
\* its activation to its teardown.
Steady(c) == comp[c].active = "cuda" /\ comp[c].acquired /\ ~comp[c].lost
Persist ==
    active = "cuda" =>
      \A c \in C : ~Transient(c) =>
        /\ Inside => Steady(c)
        /\ pc = "activating" /\ c <= Len(stack) => Steady(c)

\* Factors of this session are staged inside it, and until a component whose teardown
\* waits for them is torn down or has failed to be.
Persistent == \E c \in C : ~Transient(c)
Staging == routed.busy /\ routed.since = session
Routing ==
    /\ pc \in {"activating", "unwinding"} => ~Staging
    /\ Staging /\ active # "none" => active = "cuda"
    /\ routed.hooks /\ active = "cuda" /\ pc # "closing" => routed.lease
    /\ Staging /\ pc = "closing" /\ ~failed =>
         \A c \in C : ~Transient(c) => c <= Len(stack) /\ Steady(c)
    /\ Persistent /\ Staging => routed.lease

LifecycleInv == Typed /\ PartsSound /\ Faultless /\ Stages /\ Stepping /\ Complete /\ Persist /\ Routing

-----------------------------------------------------------------------------
(* What the calls on a component may come to *)

\* The components are numbered, and each is of one of three kinds.
LEMMA Numbered == C = 1 .. Len(Layout) /\ Len(Layout) \in Nat
  BY LayoutAssumption DEF C

\* What the layout says of a component.
LEMMA OneKind ==
    ASSUME NEW c \in C
    PROVE  /\ Kind(c) = "host" \/ Kind(c) = "resident" \/ Kind(c) = "session"
           /\ Transient(c) \in BOOLEAN /\ Layout[c].trainable \in BOOLEAN
           /\ Layout[c].trainable => Kind(c) # "session"
<1> DEFINE Parts == [kind : {"host", "resident", "session"}, transient : BOOLEAN, trainable : BOOLEAN]
<1>1. Layout \in Seq(Parts)
  BY LayoutAssumption
<1>2. Layout[c] \in Parts
  <2> HIDE DEF Parts
  <2> QED
    BY <1>1 DEF C
<1>3. Layout[c].trainable => Layout[c].kind # "session"
  BY LayoutAssumption DEF C
<1> QED
  BY <1>2, <1>3 DEF Kind, Transient

\* The three ways a call may end.
LEMMA Ends ==
    ASSUME NEW r \in States
    PROVE  /\ Returns(r) \in Outcomes /\ Returns(r).to = r /\ ~Returns(r).raises /\ ~Returns(r).fault
           /\ Raises(r) \in Outcomes /\ Raises(r).to = r /\ Raises(r).raises /\ ~Raises(r).fault
           /\ Unsynchronized(r) \in Outcomes /\ Unsynchronized(r).to = r
           /\ Unsynchronized(r).raises /\ Unsynchronized(r).fault
  BY DEF Returns, Raises, Unsynchronized, Outcomes

\* The marks that the calls leave on a component's state.
LEMMA RetiredMarks ==
    ASSUME NEW r \in States
    PROVE  /\ Retired(r) \in States /\ Retired(r).active = r.active /\ Retired(r).stray = r.stray
           /\ ~Retired(r).acquired /\ ~Retired(r).transfer /\ ~Retired(r).pin
           /\ ~Retired(r).busy /\ ~Retired(r).lost
  BY DEF Retired, States

\* The state once the target's stream reads the component's storage.
LEMMA TransferMarks ==
    ASSUME NEW r \in States
    PROVE  /\ Transferring(r) \in States /\ Transferring(r).transfer
           /\ Transferring(r).active = r.active /\ Transferring(r).acquired = r.acquired
           /\ Transferring(r).stamp = r.stamp /\ Transferring(r).pin = r.pin
           /\ Transferring(r).busy = r.busy /\ Transferring(r).lost = r.lost /\ Transferring(r).stray = r.stray
  BY DEF Transferring, States

\* The state once the component holds a lease on its pinned storage.
LEMMA PinMarks ==
    ASSUME NEW r \in States
    PROVE  /\ Pinned(r) \in States /\ Pinned(r).pin
           /\ Pinned(r).active = r.active /\ Pinned(r).acquired = r.acquired
           /\ Pinned(r).stamp = r.stamp /\ Pinned(r).transfer = r.transfer
           /\ Pinned(r).busy = r.busy /\ Pinned(r).lost = r.lost /\ Pinned(r).stray = r.stray
  BY DEF Pinned, States

\* The state once targets are allocated, and once copies into them run.
LEMMA TargetMarks ==
    ASSUME session \in 0 .. MaxSessions, NEW r \in States
    PROVE  /\ Acquired(r) \in States /\ Acquired(r).acquired /\ Acquired(r).stamp = session
           /\ Acquired(r).active = r.active /\ Acquired(r).transfer = r.transfer /\ Acquired(r).pin = r.pin
           /\ Acquired(r).busy = r.busy /\ Acquired(r).lost = r.lost /\ Acquired(r).stray = r.stray
           /\ Staged(r) \in States /\ Staged(r).acquired /\ Staged(r).stamp = session /\ Staged(r).busy
           /\ Staged(r).active = r.active /\ Staged(r).transfer = r.transfer /\ Staged(r).pin = r.pin
           /\ Staged(r).lost = r.lost /\ Staged(r).stray = r.stray
  BY DEF Acquired, Staged, States

\* A release leaves nothing behind but what a failed synchronization may still use;
\* one that returns has let go of the targets.
LEMMA ReleaseOutcome ==
    ASSUME NEW c \in C, NEW r \in States, Sound(c, r), NEW o \in Releases(c, r)
    PROVE  /\ o \in Outcomes /\ Sound(c, o.to) /\ o.to.active = r.active
           /\ o.fault => o.raises
           /\ ~o.fault /\ Clean(r) => ~Unfinished(o.to) /\ ~o.to.lost /\ ~o.to.stray
           /\ ~o.raises /\ r.active = "cuda" => ~o.to.acquired
<1>1. Kind(c) = "host" \/ Kind(c) = "resident" \/ Kind(c) = "session"
  BY OneKind
<1>2. /\ Retired(r) \in States /\ Retired(r).active = r.active /\ Retired(r).stray = r.stray
      /\ ~Retired(r).acquired /\ ~Retired(r).transfer /\ ~Retired(r).pin
      /\ ~Retired(r).busy /\ ~Retired(r).lost
  BY RetiredMarks
<1>3. CASE Kind(c) = "host"
  <2>1. o \in HostReleases(r)
    BY <1>3 DEF Releases
  <2>2. \/ o = Returns(r) /\ ~r.transfer /\ ~r.acquired
        \/ o = Returns(Retired(r)) \/ o = Raises(Retired(r)) \/ o = Unsynchronized(r)
    BY <2>1 DEF HostReleases
  <2> QED
    BY <1>2, <1>3, <2>2, Ends DEF Sound, Clean, Unfinished
<1>4. CASE Kind(c) = "resident"
  <2> DEFINE q == [r EXCEPT !.transfer = FALSE]
  <2>1. o \in ResidentReleases(r)
    BY <1>4 DEF Releases
  <2>2. /\ q \in States /\ q.active = r.active /\ q.acquired = r.acquired /\ ~q.transfer
        /\ q.pin = r.pin /\ q.busy = r.busy /\ q.lost = r.lost /\ q.stray = r.stray
    BY DEF States
  <2>3. \/ o = Returns(r) /\ r.active # "cuda"
        \/ o = Returns(q) /\ ~r.acquired
        \/ o = Returns(Retired(r)) \/ o = Raises(Retired(r)) \/ o = Unsynchronized(r)
    BY <2>1 DEF ResidentReleases
  <2> HIDE DEF q
  <2> QED
    BY <1>2, <1>4, <2>2, <2>3, Ends DEF Sound, Clean, Unfinished
<1>5. CASE Kind(c) = "session"
  <2> DEFINE q == [r EXCEPT !.pin = FALSE]
  <2> DEFINE p == Forgotten(r)
  <2> DEFINE l == Lost(r)
  <2>1. o \in SessionReleases(r)
    BY <1>5 DEF Releases
  <2>2. /\ q \in States /\ q.active = r.active /\ q.acquired = r.acquired /\ q.transfer = r.transfer
        /\ ~q.pin /\ q.busy = r.busy /\ q.lost = r.lost /\ q.stray = r.stray
    BY DEF States
  <2>3. /\ p \in States /\ p.active = r.active
        /\ ~p.acquired /\ ~p.transfer /\ ~p.pin /\ ~p.busy /\ ~p.lost
    BY <1>2 DEF Forgotten, States
  <2>4. /\ l \in States /\ l.active = r.active /\ l.acquired = r.acquired /\ l.transfer = r.transfer
        /\ l.pin = r.pin /\ l.busy = r.busy /\ l.lost /\ l.stray = r.stray
    BY DEF Lost, States
  <2>5. \/ o = Returns(r) /\ r.active # "cuda"
        \/ o = Returns(q) /\ ~r.acquired
        \/ r.lost /\ r.acquired /\ (o = Returns(p) \/ o = Raises(p) \/ o = Unsynchronized(r))
        \/ o = Returns(Retired(r)) \/ o = Raises(Retired(r))
        \/ o = Unsynchronized(l) /\ r.acquired
    BY <2>1 DEF SessionReleases
  <2> HIDE DEF q, p, l
  <2> QED
    BY <1>2, <1>5, <2>2, <2>3, <2>4, <2>5, Ends DEF Sound, Clean, Unfinished
<1> QED
  BY <1>1, <1>3, <1>4, <1>5

\* An acquisition that returns has the targets, and has filled those it had not.
LEMMA AcquireOutcome ==
    ASSUME session \in 0 .. MaxSessions,
           NEW c \in C, NEW r \in States, Sound(c, r), NEW o \in Acquires(c, r)
    PROVE  /\ o \in Outcomes /\ Sound(c, o.to) /\ o.to.active = r.active
           /\ o.fault => o.raises
           /\ o.to.lost = r.lost /\ o.to.stray = r.stray
           /\ ~o.raises => o.to.acquired /\ (IF r.acquired THEN o.to = r ELSE o.to.stamp = session)
<1>1. Kind(c) = "host" \/ Kind(c) = "resident" \/ Kind(c) = "session"
  BY OneKind
<1>2. CASE Kind(c) # "session"
  <2>1. o \in HostAcquires(r) \/ o \in ResidentAcquires(r)
    BY <1>1, <1>2 DEF Acquires
  <2>2. \/ o = Returns(r) /\ r.acquired
        \/ o = Raises(r)
        \/ ~r.acquired /\ ( \/ o = Returns(Acquired(r)) \/ o = Raises(Transferring(r))
                            \/ o = Unsynchronized(Transferring(r))
                            \/ o = Unsynchronized(Staged(Transferring(r))) )
    BY <2>1 DEF HostAcquires, ResidentAcquires
  <2> QED
    BY <1>2, <2>2, Ends, TransferMarks, TargetMarks DEF Sound
<1>3. CASE Kind(c) = "session"
  <2>1. o \in SessionAcquires(r)
    BY <1>3 DEF Acquires
  <2>2. \/ o = Returns(r) /\ r.acquired
        \/ o = Raises(r)
        \/ ~r.acquired /\ ( \/ o = Returns(Staged(Pinned(r))) \/ o = Raises(Pinned(r))
                            \/ o = Raises(Staged(Pinned(r))) )
    BY <2>1 DEF SessionAcquires
  <2> QED
    BY <1>3, <2>2, Ends, PinMarks, TargetMarks DEF Sound
<1> QED
  BY <1>2, <1>3

\* An activation touches a component that is in no session and has nothing unfinished.
LEMMA ActivateOutcome ==
    ASSUME session \in 0 .. MaxSessions, active \in {"cpu", "cuda"},
           NEW c \in C, comp[c] \in States, Sound(c, comp[c]), comp[c].active = "none",
           NEW o \in Activates(c)
    PROVE  /\ o \in Outcomes /\ Sound(c, o.to)
           /\ o.fault => o.raises
           /\ Clean(comp[c]) => Clean(o.to)
           /\ ~o.raises => o.to.active = active
           /\ ~o.raises /\ active = "cuda" => o.to.acquired /\ ~o.to.lost /\ o.to.stamp = session
<1> DEFINE r == comp[c]
<1> DEFINE q == [r EXCEPT !.active = "cuda"]
<1>1. CASE Unfinished(r)
  <2>1. o = Raises(r)
    BY <1>1 DEF Activates
  <2> QED
    BY <2>1 DEF Raises, Outcomes
<1>2. CASE ~Unfinished(r) /\ active = "cpu"
  <2>1. o = Returns([r EXCEPT !.active = "cpu"])
    BY <1>2 DEF Activates
  <2> QED
    BY <1>2, <2>1 DEF Returns, Outcomes, States, Sound, Clean, Unfinished
<1>3. CASE ~Unfinished(r) /\ active = "cuda"
  <2>1. o \in Acquires(c, q)
    BY <1>3 DEF Activates
  <2>2. q \in States /\ Sound(c, q) /\ q.active = "cuda" /\ ~q.acquired /\ ~q.lost /\ q.stray = r.stray
    BY <1>3 DEF States, Sound, Unfinished
  <2>3. /\ o \in Outcomes /\ Sound(c, o.to) /\ o.to.active = "cuda"
        /\ o.fault => o.raises
        /\ o.to.lost = q.lost /\ o.to.stray = q.stray
        /\ ~o.raises => o.to.acquired /\ (IF q.acquired THEN o.to = q ELSE o.to.stamp = session)
    <3> HIDE DEF q, r
    <3> QED
      BY <2>1, <2>2, AcquireOutcome
  <2> HIDE DEF q
  <2>4. Clean(r) => Clean(o.to)
    BY <2>2, <2>3 DEF Clean
  <2> QED
    BY <1>3, <2>2, <2>3, <2>4
<1> QED
  BY <1>1, <1>2, <1>3

\* A boundary that is entered has a transfer beside the targets.
LEMMA EnterOutcome ==
    ASSUME NEW c \in C, comp[c] \in States, Sound(c, comp[c]), NEW o \in Enters(c)
    PROVE  /\ o \in Outcomes /\ Sound(c, o.to)
           /\ o.fault => o.raises
           /\ o.to.active = comp[c].active /\ o.to.acquired = comp[c].acquired /\ o.to.stamp = comp[c].stamp
           /\ o.to.lost = comp[c].lost /\ o.to.stray = comp[c].stray
           /\ ~o.raises /\ Layout[c].trainable => o.to.transfer /\ o.to.acquired
<1> DEFINE r == comp[c]
<1>1. /\ Kind(c) = "host" \/ Kind(c) = "resident" \/ Kind(c) = "session"
      /\ Layout[c].trainable \in BOOLEAN
      /\ Layout[c].trainable => Kind(c) # "session"
  BY OneKind
<1>2. \/ o = Returns(r) /\ ~Layout[c].trainable
      \/ o = Raises(r)
      \/ Layout[c].trainable /\ r.acquired /\ o = Returns(Transferring(r))
      \/ Layout[c].trainable /\ ~r.acquired /\ o = Unsynchronized(Transferring(r))
  <2>1. CASE Kind(c) = "host" /\ ~Layout[c].trainable
    BY <2>1 DEF Enters
  <2>2. CASE Kind(c) = "host" /\ Layout[c].trainable
    BY <2>2 DEF Enters
  <2>3. CASE Kind(c) = "resident" /\ Layout[c].trainable
    BY <2>3 DEF Enters
  <2>4. CASE Kind(c) # "host" /\ ~Layout[c].trainable
    BY <2>4 DEF Enters
  <2> QED
    BY <1>1, <2>1, <2>2, <2>3, <2>4
<1>3. r \in States /\ Sound(c, r)
  OBVIOUS
<1> HIDE DEF r
<1>4. /\ o \in Outcomes /\ Sound(c, o.to)
      /\ o.fault => o.raises
      /\ o.to.active = r.active /\ o.to.acquired = r.acquired /\ o.to.stamp = r.stamp
      /\ o.to.lost = r.lost /\ o.to.stray = r.stray
      /\ ~o.raises /\ Layout[c].trainable => o.to.transfer /\ o.to.acquired
  BY <1>1, <1>2, <1>3, Ends, TransferMarks DEF Sound
<1> QED
  BY <1>4 DEF r

\* One that is left with its copies still running keeps the transfer.
LEMMA ExitOutcome ==
    ASSUME NEW c \in C, comp[c] \in States, Sound(c, comp[c]), NEW o \in Exits(c),
           Layout[c].trainable => comp[c].transfer /\ comp[c].acquired
    PROVE  /\ o \in Outcomes /\ Sound(c, o.to)
           /\ o.fault => o.raises
           /\ o.to.active = comp[c].active /\ o.to.acquired = comp[c].acquired /\ o.to.stamp = comp[c].stamp
           /\ o.to.lost = comp[c].lost /\ o.to.stray = comp[c].stray
<1> DEFINE r == comp[c]
<1>1. r \in States /\ Sound(c, r) /\ (Layout[c].trainable => r.transfer /\ r.acquired)
  OBVIOUS
<1> DEFINE done == [r EXCEPT !.transfer = FALSE, !.busy = FALSE]
<1> DEFINE lasting == [r EXCEPT !.busy = TRUE]
<1>2. /\ done \in States /\ done.active = r.active /\ done.acquired = r.acquired /\ done.stamp = r.stamp
      /\ ~done.transfer /\ done.pin = r.pin /\ ~done.busy /\ done.lost = r.lost /\ done.stray = r.stray
      /\ lasting \in States /\ lasting.active = r.active /\ lasting.acquired = r.acquired
      /\ lasting.stamp = r.stamp /\ lasting.transfer = r.transfer /\ lasting.pin = r.pin
      /\ lasting.lost = r.lost /\ lasting.stray = r.stray
  BY <1>1 DEF States
<1>3. \/ ~Layout[c].trainable /\ o = Returns(r)
      \/ o = Returns(done) \/ o = Raises(done)
      \/ Layout[c].trainable /\ o = Unsynchronized(lasting)
  BY OneKind DEF Exits
<1> HIDE DEF r, done, lasting
<1>4. /\ o \in Outcomes /\ Sound(c, o.to)
      /\ o.fault => o.raises
      /\ o.to.active = r.active /\ o.to.acquired = r.acquired /\ o.to.stamp = r.stamp
      /\ o.to.lost = r.lost /\ o.to.stray = r.stray
  BY <1>1, <1>2, <1>3, Ends DEF Sound
<1> QED
  BY <1>4 DEF r

-----------------------------------------------------------------------------
(* Stacks, and what takes an outcome *)

\* Before anything is pushed.
LEMMA NoPrefix == Prefix(<<>>) /\ Len(<<>>) = 0
  BY DEF Prefix

\* A stack has as many callbacks as there are components, at most.
LEMMA PrefixLength ==
    ASSUME NEW s, Prefix(s)
    PROVE  Len(s) \in Nat /\ Len(s) <= Len(Layout)
<1>1. s \in Seq(C) /\ \A i \in 1 .. Len(s) : s[i] = i
  BY DEF Prefix
<1>2. Len(s) \in Nat
  BY <1>1
<1>3. CASE Len(s) = 0
  BY <1>3, Numbered
<1>4. CASE Len(s) > 0
  <2>1. Len(s) \in 1 .. Len(s)
    BY <1>2, <1>4
  <2>2. s[Len(s)] \in C /\ s[Len(s)] = Len(s)
    BY <1>1, <2>1
  <2> QED
    BY <1>2, <2>2, Numbered
<1> QED
  BY <1>2, <1>3, <1>4

\* Pushing the next component, and popping the last.
LEMMA Pushed ==
    ASSUME NEW s, Prefix(s), Len(s) < Len(Layout)
    PROVE  /\ Len(s) + 1 \in C
           /\ Prefix(Append(s, Len(s) + 1)) /\ Len(Append(s, Len(s) + 1)) = Len(s) + 1
<1>1. s \in Seq(C) /\ Len(s) \in Nat /\ \A i \in 1 .. Len(s) : s[i] = i
  BY DEF Prefix
<1>2. Len(s) + 1 \in C
  BY <1>1, Numbered
<1>3. /\ Append(s, Len(s) + 1) \in Seq(C) /\ Len(Append(s, Len(s) + 1)) = Len(s) + 1
      /\ \A i \in 1 .. Len(s) + 1 : Append(s, Len(s) + 1)[i] = IF i = Len(s) + 1 THEN Len(s) + 1 ELSE s[i]
  BY <1>1, <1>2
<1>4. ASSUME NEW i \in 1 .. Len(s) + 1 PROVE Append(s, Len(s) + 1)[i] = i
  <2>1. CASE i = Len(s) + 1
    BY <1>3, <2>1
  <2>2. CASE i # Len(s) + 1
    <3>1. i \in 1 .. Len(s)
      BY <1>1, <2>2
    <3> QED
      BY <1>1, <1>3, <2>2, <3>1
  <2> QED
    BY <2>1, <2>2
<1> QED
  BY <1>2, <1>3, <1>4 DEF Prefix

\* Unwinding calls back the component pushed last.
LEMMA Popped ==
    ASSUME NEW s, Prefix(s), s # <<>>
    PROVE  /\ Len(s) \in Nat /\ Len(s) >= 1
           /\ Last(s) = Len(s) /\ Last(s) \in C
           /\ Prefix(Front(s)) /\ Len(Front(s)) = Len(s) - 1
<1>1. s \in Seq(C) /\ Len(s) \in Nat /\ Len(s) >= 1 /\ \A i \in 1 .. Len(s) : s[i] = i
  BY DEF Prefix
<1>2. Len(s) \in 1 .. Len(s)
  BY <1>1
<1>3. Last(s) = Len(s) /\ Last(s) \in C
  BY <1>1, <1>2 DEF Last
<1>4. /\ Front(s) \in Seq(C) /\ Len(Front(s)) = Len(s) - 1
      /\ \A i \in 1 .. Len(s) - 1 : Front(s)[i] = s[i]
  BY <1>1, FrontElements
<1> QED
  BY <1>1, <1>3, <1>4 DEF Prefix

\* A component that takes an outcome leaves the others as they are.
LEMMA Taken ==
    ASSUME Typed, PartsSound, Faultless, NEW c \in C, NEW o \in Outcomes, Sound(c, o.to), Takes(c, o),
           faults = 0 /\ ~o.fault => Clean(o.to)
    PROVE  /\ comp' \in [C -> States] /\ faults' \in 0 .. MaxFaults
           /\ \A d \in C : d # c => comp'[d] = comp[d]
           /\ comp'[c] = o.to
           /\ PartsSound' /\ Faultless'
<1>1. comp \in [C -> States] /\ o.to \in States /\ faults \in 0 .. MaxFaults /\ o.fault \in BOOLEAN
  BY DEF Typed, Outcomes
<1>2. comp' = [comp EXCEPT ![c] = o.to]
  BY DEF Takes
<1>3. comp' \in [C -> States] /\ (\A d \in C : d # c => comp'[d] = comp[d]) /\ comp'[c] = o.to
  BY <1>1, <1>2
<1>4. faults' \in 0 .. MaxFaults /\ (faults' = 0 => faults = 0 /\ ~o.fault)
  BY <1>1, LayoutAssumption DEF Takes
<1>5. PartsSound'
  <2> SUFFICES ASSUME NEW d \in C PROVE Sound(d, comp'[d])
    BY DEF PartsSound
  <2> QED
    BY <1>3 DEF PartsSound
<1>6. Faultless'
  <2> SUFFICES ASSUME faults' = 0, NEW d \in C PROVE Clean(comp'[d])
    BY DEF Faultless
  <2> QED
    BY <1>3, <1>4 DEF Faultless
<1> QED
  BY <1>3, <1>4, <1>5, <1>6

-----------------------------------------------------------------------------
(* The steps of the offloader that leave the components alone *)

\* A new session has staged nothing yet.
LEMMA BeginPreserves == LifecycleInv /\ Begin => LifecycleInv'
<1> SUFFICES ASSUME LifecycleInv, Begin PROVE LifecycleInv'
  OBVIOUS
<1>1. Typed'
  <2>1. PICK device \in {"cpu", "cuda"}, route \in BOOLEAN, leased \in BOOLEAN, refused \in BOOLEAN :
          /\ active' = device
          /\ routed' = IF leased THEN [routed EXCEPT !.hooks = TRUE, !.lease = TRUE]
                       ELSE [routed EXCEPT !.hooks = route]
          /\ pc' = IF refused THEN "closing" ELSE "activating"
          /\ hurt' = refused
    BY DEF Begin, LifecycleInv, Typed
  <2>2. /\ routed' \in [hooks : BOOLEAN, lease : BOOLEAN, busy : BOOLEAN, since : 0 .. MaxSessions]
        /\ routed'.since = routed.since
    BY <2>1 DEF LifecycleInv, Typed
  <2>3. session' \in 0 .. MaxSessions /\ routed.since <= session'
    BY LayoutAssumption DEF Begin, LifecycleInv, Typed
  <2> QED
    BY <2>1, <2>2, <2>3, NoPrefix DEF Begin, LifecycleInv, Typed
<1>2. PartsSound' /\ Faultless'
  BY DEF LifecycleInv, PartsSound, Faultless, Begin
<1>3. Stages'
  BY Numbered, NoPrefix DEF LifecycleInv, Typed, Stages, Inside, Begin
<1>4. Stepping'
  BY Numbered, NoPrefix DEF LifecycleInv, Typed, Stepping, Begin
<1>5. Complete'
  BY Numbered, NoPrefix DEF LifecycleInv, Typed, Stages, Inside, Complete, Filled, Begin
<1>6. Persist'
  BY Numbered, NoPrefix DEF LifecycleInv, Typed, Stages, Persist, Inside, Steady, Begin
<1>7. Routing'
  BY Numbered, NoPrefix DEF LifecycleInv, Typed, Stages, Persist, Inside, Steady, Routing, Staging, Begin
<1> QED
  BY <1>1, <1>2, <1>3, <1>4, <1>5, <1>6, <1>7 DEF LifecycleInv

\* Every component of the new session is in it.
LEMMA ActivatedPreserves == LifecycleInv /\ Activated => LifecycleInv'
<1> SUFFICES ASSUME LifecycleInv, Activated PROVE LifecycleInv'
  OBVIOUS
<1>1. Typed'
  BY LayoutAssumption, Numbered, NoPrefix DEF LifecycleInv, Typed, Activated
<1>2. PartsSound' /\ Faultless'
  BY DEF LifecycleInv, PartsSound, Faultless, Activated
<1>3. Stages'
  BY Numbered, NoPrefix DEF LifecycleInv, Typed, Stages, Inside, Activated
<1>4. Stepping'
  BY Numbered, NoPrefix DEF LifecycleInv, Typed, Stepping, Activated
<1>5. Complete'
  BY Numbered, NoPrefix DEF LifecycleInv, Typed, Stages, Inside, Complete, Filled, Activated
<1>6. Persist'
  BY Numbered, NoPrefix DEF LifecycleInv, Typed, Stages, Persist, Inside, Steady, Activated
<1>7. Routing'
  BY Numbered, NoPrefix DEF LifecycleInv, Typed, Stages, Persist, Inside, Steady, Routing, Staging, Activated
<1> QED
  BY <1>1, <1>2, <1>3, <1>4, <1>5, <1>6, <1>7 DEF LifecycleInv

\* The session's components are the ones to tear down.
LEMMA DeactivatePreserves == LifecycleInv /\ Deactivate => LifecycleInv'
<1> SUFFICES ASSUME LifecycleInv, Deactivate PROVE LifecycleInv'
  OBVIOUS
<1>1. Typed'
  BY LayoutAssumption, Numbered, NoPrefix DEF LifecycleInv, Typed, Deactivate
<1>2. PartsSound' /\ Faultless'
  BY DEF LifecycleInv, PartsSound, Faultless, Deactivate
<1>3. Stages'
  BY Numbered, NoPrefix DEF LifecycleInv, Typed, Stages, Inside, Deactivate
<1>4. Stepping'
  BY Numbered, NoPrefix DEF LifecycleInv, Typed, Stepping, Deactivate
<1>5. Complete'
  BY Numbered, NoPrefix DEF LifecycleInv, Typed, Stages, Inside, Complete, Filled, Deactivate
<1>6. Persist'
  BY Numbered, NoPrefix DEF LifecycleInv, Typed, Stages, Persist, Inside, Steady, Deactivate
<1>7. Routing'
  BY Numbered, NoPrefix DEF LifecycleInv, Typed, Stages, Persist, Inside, Steady, Routing, Staging, Deactivate
<1> QED
  BY <1>1, <1>2, <1>3, <1>4, <1>5, <1>6, <1>7 DEF LifecycleInv

\* An activation that failed goes on to deactivate the offloader.
LEMMA UnwoundPreserves == LifecycleInv /\ Unwound => LifecycleInv'
<1> SUFFICES ASSUME LifecycleInv, Unwound PROVE LifecycleInv'
  OBVIOUS
<1>1. Typed'
  BY LayoutAssumption, Numbered, NoPrefix DEF LifecycleInv, Typed, Unwound
<1>2. PartsSound' /\ Faultless'
  BY DEF LifecycleInv, PartsSound, Faultless, Unwound
<1>3. Stages'
  BY Numbered, NoPrefix DEF LifecycleInv, Typed, Stages, Inside, Unwound
<1>4. Stepping'
  BY Numbered, NoPrefix DEF LifecycleInv, Typed, Stepping, Unwound
<1>5. Complete'
  BY Numbered, NoPrefix DEF LifecycleInv, Typed, Stages, Inside, Complete, Filled, Unwound
<1>6. Persist'
  BY Numbered, NoPrefix DEF LifecycleInv, Typed, Stages, Persist, Inside, Steady, Unwound
<1>7. Routing'
  BY Numbered, NoPrefix DEF LifecycleInv, Typed, Stages, Persist, Inside, Steady, Routing, Staging, Unwound
<1> QED
  BY <1>1, <1>2, <1>3, <1>4, <1>5, <1>6, <1>7 DEF LifecycleInv

\* Unless a teardown raised, nothing is staged when the lease goes.
LEMMA DeactivatedPreserves == LifecycleInv /\ Deactivated => LifecycleInv'
<1> SUFFICES ASSUME LifecycleInv, Deactivated PROVE LifecycleInv'
  OBVIOUS
<1>1. Typed'
  BY LayoutAssumption, Numbered, NoPrefix DEF LifecycleInv, Typed, Deactivated
<1>2. PartsSound' /\ Faultless'
  BY DEF LifecycleInv, PartsSound, Faultless, Deactivated
<1>3. Stages'
  BY Numbered, NoPrefix DEF LifecycleInv, Typed, Stages, Inside, Deactivated
<1>4. Stepping'
  BY Numbered, NoPrefix DEF LifecycleInv, Typed, Stepping, Deactivated
<1>5. Complete'
  BY Numbered, NoPrefix DEF LifecycleInv, Typed, Stages, Inside, Complete, Filled, Deactivated
<1>6. Persist'
  BY Numbered, NoPrefix DEF LifecycleInv, Typed, Stages, Persist, Inside, Steady, Deactivated
<1>7. Routing'
  <2>1. /\ pc = "closing" /\ stack = <<>> /\ active' = "none" /\ pc' = "idle"
        /\ routed'.busy = routed.busy /\ routed'.since = routed.since
        /\ routed'.lease = (routed.lease /\ failed) /\ session' = session
    BY DEF Deactivated, LifecycleInv, Typed
  <2>2. Staging' = Staging
    BY <2>1 DEF Staging
  <2>3. ASSUME Persistent, Staging PROVE routed.lease /\ failed
    <3>1. PICK c \in C : ~Transient(c)
      BY <2>3 DEF Persistent
    <3>2. routed.lease
      BY <2>3 DEF LifecycleInv, Routing
    <3>3. ~failed => c <= Len(stack)
      BY <2>1, <2>3, <3>1 DEF LifecycleInv, Routing
    <3> QED
      BY <2>1, <3>2, <3>3, NoPrefix, Numbered DEF LifecycleInv, Typed
  <2> QED
    BY <2>1, <2>2, <2>3 DEF Routing
<1> QED
  BY <1>1, <1>2, <1>3, <1>4, <1>5, <1>6, <1>7 DEF LifecycleInv

\* A forward begins at the first component.
LEMMA ForwardPreserves == LifecycleInv /\ Forward => LifecycleInv'
<1> SUFFICES ASSUME LifecycleInv, Forward PROVE LifecycleInv'
  OBVIOUS
<1>1. Typed'
  BY LayoutAssumption, Numbered, NoPrefix DEF LifecycleInv, Typed, Forward
<1>2. PartsSound' /\ Faultless'
  BY DEF LifecycleInv, PartsSound, Faultless, Forward
<1>3. Stages'
  BY Numbered, NoPrefix DEF LifecycleInv, Typed, Stages, Inside, Forward
<1>4. Stepping'
  BY Numbered, NoPrefix DEF LifecycleInv, Typed, Stepping, Forward
<1>5. Complete'
  BY Numbered, NoPrefix DEF LifecycleInv, Typed, Stages, Inside, Complete, Filled, Forward
<1>6. Persist'
  BY Numbered, NoPrefix DEF LifecycleInv, Typed, Stages, Persist, Inside, Steady, Forward
<1>7. Routing'
  BY Numbered, NoPrefix DEF LifecycleInv, Typed, Stages, Persist, Inside, Steady, Routing, Staging, Forward
<1> QED
  BY <1>1, <1>2, <1>3, <1>4, <1>5, <1>6, <1>7 DEF LifecycleInv

\* It ends with what it has released still to be acquired.
LEMMA ForwardEndPreserves == LifecycleInv /\ ForwardEnd => LifecycleInv'
<1> SUFFICES ASSUME LifecycleInv, ForwardEnd PROVE LifecycleInv'
  OBVIOUS
<1>1. Typed'
  BY LayoutAssumption, Numbered, NoPrefix DEF LifecycleInv, Typed, ForwardEnd
<1>2. PartsSound' /\ Faultless'
  BY DEF LifecycleInv, PartsSound, Faultless, ForwardEnd
<1>3. Stages'
  BY Numbered, NoPrefix DEF LifecycleInv, Typed, Stages, Inside, ForwardEnd
<1>4. Stepping'
  BY Numbered, NoPrefix DEF LifecycleInv, Typed, Stepping, ForwardEnd
<1>5. Complete'
  BY Numbered, NoPrefix DEF LifecycleInv, Typed, Stages, Inside, Complete, Filled, ForwardEnd
<1>6. Persist'
  BY Numbered, NoPrefix DEF LifecycleInv, Typed, Stages, Persist, Inside, Steady, ForwardEnd
<1>7. Routing'
  BY Numbered, NoPrefix DEF LifecycleInv, Typed, Stages, Persist, Inside, Steady, Routing, Staging, ForwardEnd
<1> QED
  BY <1>1, <1>2, <1>3, <1>4, <1>5, <1>6, <1>7 DEF LifecycleInv

\* All of it has been acquired again.
LEMMA ReacquiredPreserves == LifecycleInv /\ Reacquired => LifecycleInv'
<1> SUFFICES ASSUME LifecycleInv, Reacquired PROVE LifecycleInv'
  OBVIOUS
<1>1. Typed'
  BY LayoutAssumption, Numbered, NoPrefix DEF LifecycleInv, Typed, Reacquired
<1>2. PartsSound' /\ Faultless'
  BY DEF LifecycleInv, PartsSound, Faultless, Reacquired
<1>3. Stages'
  BY Numbered, NoPrefix DEF LifecycleInv, Typed, Stages, Inside, Reacquired
<1>4. Stepping'
  BY Numbered, NoPrefix DEF LifecycleInv, Typed, Stepping, Reacquired
<1>5. Complete'
  BY Numbered, NoPrefix DEF LifecycleInv, Typed, Stages, Inside, Complete, Filled, Reacquired
<1>6. Persist'
  BY Numbered, NoPrefix DEF LifecycleInv, Typed, Stages, Persist, Inside, Steady, Reacquired
<1>7. Routing'
  BY Numbered, NoPrefix DEF LifecycleInv, Typed, Stages, Persist, Inside, Steady, Routing, Staging, Reacquired
<1> QED
  BY <1>1, <1>2, <1>3, <1>4, <1>5, <1>6, <1>7 DEF LifecycleInv

\* A step begins with no boundary entered.
LEMMA StepPreserves == LifecycleInv /\ Step => LifecycleInv'
<1> SUFFICES ASSUME LifecycleInv, Step PROVE LifecycleInv'
  OBVIOUS
<1>1. Typed'
  BY LayoutAssumption, Numbered, NoPrefix DEF LifecycleInv, Typed, Step
<1>2. PartsSound' /\ Faultless'
  BY DEF LifecycleInv, PartsSound, Faultless, Step
<1>3. Stages'
  BY Numbered, NoPrefix DEF LifecycleInv, Typed, Stages, Inside, Step
<1>4. Stepping'
  BY Numbered, NoPrefix DEF LifecycleInv, Typed, Stepping, Step
<1>5. Complete'
  BY Numbered, NoPrefix DEF LifecycleInv, Typed, Stages, Inside, Complete, Filled, Step
<1>6. Persist'
  BY Numbered, NoPrefix DEF LifecycleInv, Typed, Stages, Persist, Inside, Steady, Step
<1>7. Routing'
  BY Numbered, NoPrefix DEF LifecycleInv, Typed, Stages, Persist, Inside, Steady, Routing, Staging, Step
<1> QED
  BY <1>1, <1>2, <1>3, <1>4, <1>5, <1>6, <1>7 DEF LifecycleInv

\* The optimizer runs between the boundaries.
LEMMA OptimizePreserves == LifecycleInv /\ Optimize => LifecycleInv'
<1> SUFFICES ASSUME LifecycleInv, Optimize PROVE LifecycleInv'
  OBVIOUS
<1>1. Typed'
  BY LayoutAssumption, Numbered, NoPrefix DEF LifecycleInv, Typed, Optimize
<1>2. PartsSound' /\ Faultless'
  BY DEF LifecycleInv, PartsSound, Faultless, Optimize
<1>3. Stages'
  BY Numbered, NoPrefix DEF LifecycleInv, Typed, Stages, Inside, Optimize
<1>4. Stepping'
  BY Numbered, NoPrefix DEF LifecycleInv, Typed, Stepping, Optimize
<1>5. Complete'
  BY Numbered, NoPrefix DEF LifecycleInv, Typed, Stages, Inside, Complete, Filled, Optimize
<1>6. Persist'
  BY Numbered, NoPrefix DEF LifecycleInv, Typed, Stages, Persist, Inside, Steady, Optimize
<1>7. Routing'
  BY Numbered, NoPrefix DEF LifecycleInv, Typed, Stages, Persist, Inside, Steady, Routing, Staging, Optimize
<1> QED
  BY <1>1, <1>2, <1>3, <1>4, <1>5, <1>6, <1>7 DEF LifecycleInv

\* The step is over.
LEMMA SteppedPreserves == LifecycleInv /\ Stepped => LifecycleInv'
<1> SUFFICES ASSUME LifecycleInv, Stepped PROVE LifecycleInv'
  OBVIOUS
<1>1. Typed'
  BY LayoutAssumption, Numbered, NoPrefix DEF LifecycleInv, Typed, Stepped
<1>2. PartsSound' /\ Faultless'
  BY DEF LifecycleInv, PartsSound, Faultless, Stepped
<1>3. Stages'
  BY Numbered, NoPrefix DEF LifecycleInv, Typed, Stages, Inside, Stepped
<1>4. Stepping'
  BY Numbered, NoPrefix DEF LifecycleInv, Typed, Stepping, Stepped
<1>5. Complete'
  BY Numbered, NoPrefix DEF LifecycleInv, Typed, Stages, Inside, Complete, Filled, Stepped
<1>6. Persist'
  BY Numbered, NoPrefix DEF LifecycleInv, Typed, Stages, Persist, Inside, Steady, Stepped
<1>7. Routing'
  BY Numbered, NoPrefix DEF LifecycleInv, Typed, Stages, Persist, Inside, Steady, Routing, Staging, Stepped
<1> QED
  BY <1>1, <1>2, <1>3, <1>4, <1>5, <1>6, <1>7 DEF LifecycleInv

-----------------------------------------------------------------------------
(* The steps of a component *)

\* One component more is activated, or the first failure starts the unwinding.
LEMMA ActivatePreserves == LifecycleInv /\ Activate => LifecycleInv'
<1> SUFFICES ASSUME LifecycleInv, Activate PROVE LifecycleInv'
  OBVIOUS
<1> DEFINE c == Len(stack) + 1
<1>1. /\ Typed /\ PartsSound /\ Faultless /\ Stages /\ Prefix(stack)
      /\ pc = "activating" /\ Len(stack) < Len(Layout) /\ Len(stack) \in Nat
  BY PrefixLength DEF LifecycleInv, Typed, Activate
<1>2. /\ c \in C /\ Prefix(Append(stack, c)) /\ Len(Append(stack, c)) = c
  BY <1>1, Pushed
<1>3. PICK o \in Activates(c) :
        /\ Takes(c, o)
        /\ stack' = Append(stack, c)
        /\ pc' = IF o.raises THEN "unwinding" ELSE pc
        /\ hurt' = (hurt \/ o.raises)
  BY DEF Activate
<1>4. /\ comp[c] \in States /\ Sound(c, comp[c]) /\ comp[c].active = "none"
      /\ active \in {"cpu", "cuda"} /\ session \in 0 .. MaxSessions
  BY <1>1, <1>2 DEF Typed, PartsSound, Stages
<1> HIDE DEF c
<1>5. /\ o \in Outcomes /\ Sound(c, o.to)
      /\ o.fault => o.raises
      /\ Clean(comp[c]) => Clean(o.to)
      /\ ~o.raises => o.to.active = active
      /\ ~o.raises /\ active = "cuda" => o.to.acquired /\ ~o.to.lost /\ o.to.stamp = session
  BY <1>2, <1>3, <1>4, ActivateOutcome
<1>6. faults = 0 /\ ~o.fault => Clean(o.to)
  BY <1>1, <1>2, <1>5 DEF Faultless
<1>7. /\ comp' \in [C -> States] /\ faults' \in 0 .. MaxFaults
      /\ \A d \in C : d # c => comp'[d] = comp[d]
      /\ comp'[c] = o.to
      /\ PartsSound' /\ Faultless'
  BY <1>1, <1>2, <1>3, <1>5, <1>6, Taken
<1>8. /\ o.raises \in BOOLEAN /\ stack' = Append(stack, c) /\ Len(stack') = c /\ Len(stack) = c - 1
      /\ pc' = IF o.raises THEN "unwinding" ELSE "activating"
      /\ UNCHANGED <<session, active, routed, hooks, at, teardown, failed>>
  BY <1>1, <1>2, <1>3, <1>5 DEF Activate, Outcomes, c
<1>9. \A d \in C : /\ d \in Int
                   /\ d <= Len(stack') => d = c \/ d <= Len(stack)
                   /\ d > Len(stack') => d # c /\ d > Len(stack)
  BY <1>1, <1>2, <1>8, Numbered
<1>10. Typed'
  BY <1>1, <1>2, <1>3, <1>7, <1>8 DEF Typed
<1>11. Stages'
  BY <1>1, <1>5, <1>7, <1>8, <1>9 DEF Stages, Inside
<1>12. Stepping'
  BY <1>8 DEF Stepping
<1>13. Complete'
  BY <1>1, <1>3, <1>5, <1>7, <1>8, <1>9 DEF LifecycleInv, Complete, Filled
<1>14. Persist'
  BY <1>1, <1>5, <1>7, <1>8, <1>9 DEF LifecycleInv, Persist, Steady, Inside
<1>15. Routing'
  BY <1>1, <1>8 DEF LifecycleInv, Routing, Staging
<1> QED
  BY <1>7, <1>10, <1>11, <1>12, <1>13, <1>14, <1>15 DEF LifecycleInv

\* A component that is torn down is in no session any more; if its teardown returned
\* it has waited for what was staged.
LEMMA ClosePreserves == LifecycleInv /\ Close => LifecycleInv'
<1> SUFFICES ASSUME LifecycleInv, Close PROVE LifecycleInv'
  OBVIOUS
<1> DEFINE c == Last(stack)
<1>1. /\ Typed /\ PartsSound /\ Faultless /\ Stages /\ Prefix(stack)
      /\ pc \in {"unwinding", "closing"} /\ stack # <<>>
  BY DEF LifecycleInv, Typed, Close
<1>2. /\ c \in C /\ c = Len(stack) /\ Len(stack) \in Nat
      /\ Prefix(Front(stack)) /\ Len(Front(stack)) = c - 1
  BY <1>1, Popped
<1>3. PICK o \in Deactivates(c) :
        /\ Takes(c, o)
        /\ failed' = (failed \/ o.raises)
        /\ routed' = [routed EXCEPT !.busy = @ /\ ~Quiets(c, o)]
  BY DEF Close
<1>4. comp[c] \in States /\ Sound(c, comp[c])
  BY <1>1, <1>2 DEF Typed, PartsSound
<1> HIDE DEF c
<1>5. PICK q \in Releases(c, comp[c]) : o = [q EXCEPT !.to.active = "none"]
  BY DEF Deactivates
<1>6. /\ q \in Outcomes /\ Sound(c, q.to)
      /\ ~q.fault /\ Clean(comp[c]) => ~Unfinished(q.to) /\ ~q.to.lost /\ ~q.to.stray
      /\ ~q.raises /\ comp[c].active = "cuda" => ~q.to.acquired
  BY <1>2, <1>4, ReleaseOutcome
<1>7. /\ o \in Outcomes /\ o.to.active = "none" /\ o.raises = q.raises /\ o.fault = q.fault
      /\ o.to.acquired = q.to.acquired /\ o.to.transfer = q.to.transfer /\ o.to.pin = q.to.pin
      /\ o.to.busy = q.to.busy /\ o.to.lost = q.to.lost /\ o.to.stray = q.to.stray
  BY <1>5, <1>6 DEF Outcomes, States
<1>8. Sound(c, o.to)
  BY <1>6, <1>7 DEF Sound
<1>9. faults = 0 /\ ~o.fault => Clean(o.to)
  BY <1>1, <1>2, <1>6, <1>7 DEF Faultless, Clean, Unfinished
<1>10. /\ comp' \in [C -> States] /\ faults' \in 0 .. MaxFaults
       /\ \A d \in C : d # c => comp'[d] = comp[d]
       /\ comp'[c] = o.to
       /\ PartsSound' /\ Faultless'
  BY <1>1, <1>2, <1>3, <1>7, <1>8, <1>9, Taken
<1>11. /\ o.raises \in BOOLEAN /\ failed' = (failed \/ o.raises) /\ failed \in BOOLEAN
       /\ stack' = Front(stack) /\ Len(stack') = c - 1 /\ Len(stack) = c /\ Prefix(stack')
       /\ UNCHANGED <<session, active, hooks, pc, at, teardown, hurt>>
  BY <1>1, <1>2, <1>3, <1>7 DEF Typed, Close, Outcomes, c
<1>12. /\ routed' \in [hooks : BOOLEAN, lease : BOOLEAN, busy : BOOLEAN, since : 0 .. MaxSessions]
       /\ routed'.hooks = routed.hooks /\ routed'.lease = routed.lease /\ routed'.since = routed.since
       /\ routed'.busy = (routed.busy /\ ~Quiets(c, o))
  BY <1>1, <1>3 DEF Typed, Quiets
<1>13. \A d \in C : /\ d \in Int
                    /\ d <= Len(stack) => d = c \/ d <= Len(stack')
                    /\ d > Len(stack') => d = c \/ d > Len(stack)
  BY <1>2, <1>11, Numbered
<1>14. Typed'
  BY <1>1, <1>10, <1>11, <1>12 DEF Typed
<1>15. Stages'
  BY <1>1, <1>7, <1>10, <1>11, <1>12, <1>13 DEF Stages, Inside
<1>16. Stepping' /\ Complete' /\ Persist'
  BY <1>1, <1>11 DEF Stepping, Complete, Persist, Inside
<1>17. Routing'
  <2>1. Staging' => Staging /\ ~Quiets(c, o)
    BY <1>11, <1>12 DEF Staging
  <2>2. pc \in {"activating", "unwinding"} => ~Staging
    BY DEF LifecycleInv, Routing
  <2>3. ASSUME Staging', pc = "closing", ~failed', NEW d \in C, ~Transient(d)
        PROVE  d <= Len(stack') /\ Steady(d)'
    <3>1. d <= Len(stack) /\ Steady(d) /\ active = "cuda" /\ ~failed /\ ~o.raises
      BY <1>1, <1>11, <2>1, <2>3 DEF LifecycleInv, Routing, Stages
    <3>2. d # c
      BY <1>6, <1>7, <2>1, <2>3, <3>1 DEF Quiets, Steady
    <3> QED
      BY <1>10, <1>13, <2>3, <3>1, <3>2 DEF Steady
  <2> QED
    BY <1>11, <1>12, <2>1, <2>2, <2>3 DEF LifecycleInv, Routing
<1> QED
  BY <1>10, <1>14, <1>15, <1>16, <1>17 DEF LifecycleInv

\* A boundary is entered: its transfer has begun.
LEMMA EnterPreserves == LifecycleInv /\ Enter => LifecycleInv'
<1> SUFFICES ASSUME LifecycleInv, Enter PROVE LifecycleInv'
  OBVIOUS
<1> DEFINE c == Len(stack) + 1
<1>1. /\ Typed /\ PartsSound /\ Faultless /\ Stages /\ Prefix(stack)
      /\ pc = "entering" /\ Len(stack) < Len(Layout) /\ Len(stack) \in Nat
  BY PrefixLength DEF LifecycleInv, Typed, Enter
<1>2. /\ c \in C /\ Prefix(Append(stack, c)) /\ Len(Append(stack, c)) = c
  BY <1>1, Pushed
<1>3. PICK o \in Enters(c) :
        /\ Takes(c, o)
        /\ stack' = IF o.raises THEN stack ELSE Append(stack, c)
        /\ pc' = IF o.raises THEN "exiting" ELSE pc
        /\ failed' = o.raises
  BY DEF Enter
<1>4. comp[c] \in States /\ Sound(c, comp[c])
  BY <1>1, <1>2 DEF Typed, PartsSound
<1> HIDE DEF c
<1>5. /\ o \in Outcomes /\ Sound(c, o.to)
      /\ o.to.active = comp[c].active /\ o.to.acquired = comp[c].acquired /\ o.to.stamp = comp[c].stamp
      /\ o.to.lost = comp[c].lost /\ o.to.stray = comp[c].stray
      /\ ~o.raises /\ Layout[c].trainable => o.to.transfer /\ o.to.acquired
  BY <1>2, <1>3, <1>4, EnterOutcome
<1>6. active = "cuda" /\ comp[c].active = "cuda"
  BY <1>1, <1>2 DEF Stages, Inside
<1>7. faults = 0 /\ ~o.fault => Clean(o.to)
  BY <1>1, <1>2, <1>5, <1>6 DEF Faultless, Clean
<1>8. /\ comp' \in [C -> States] /\ faults' \in 0 .. MaxFaults
      /\ \A d \in C : d # c => comp'[d] = comp[d]
      /\ comp'[c] = o.to
      /\ PartsSound' /\ Faultless'
  BY <1>1, <1>2, <1>3, <1>5, <1>7, Taken
<1>9. /\ o.raises \in BOOLEAN /\ failed' = o.raises /\ Len(stack) = c - 1 /\ Prefix(stack')
      /\ stack' = IF o.raises THEN stack ELSE Append(stack, c)
      /\ pc' = IF o.raises THEN "exiting" ELSE "entering"
      /\ UNCHANGED <<session, active, routed, hooks, at, teardown, hurt>>
  BY <1>1, <1>2, <1>3, <1>5 DEF Enter, Outcomes, c
<1>10. ASSUME NEW d \in C, d <= Len(stack') PROVE (d # c => d <= Len(stack)) /\ (o.raises => d # c)
  <2>1. d \in Nat /\ c = Len(stack) + 1
    BY <1>1, Numbered DEF c
  <2>2. CASE o.raises
    <3>1. d <= Len(stack)
      BY <1>9, <1>10, <2>2
    <3> QED
      BY <1>1, <2>1, <3>1
  <2>3. CASE ~o.raises
    <3>1. Len(stack') = c
      BY <1>2, <1>9, <2>3
    <3>2. d # c => d <= Len(stack)
      BY <1>1, <1>10, <2>1, <3>1
    <3> QED
      BY <2>3, <3>2
  <2> QED
    BY <2>2, <2>3
<1>11. \A d \in C : /\ comp'[d].active = comp[d].active /\ comp'[d].acquired = comp[d].acquired
                    /\ comp'[d].stamp = comp[d].stamp /\ comp'[d].lost = comp[d].lost
  BY <1>5, <1>8
<1>12. Typed'
  BY <1>1, <1>8, <1>9 DEF Typed
<1>13. Stages'
  BY <1>1, <1>9, <1>11 DEF Stages, Inside
<1>14. Stepping'
  BY <1>1, <1>5, <1>8, <1>9, <1>10 DEF LifecycleInv, Stepping
<1>15. Complete'
  BY <1>1, <1>9, <1>11 DEF LifecycleInv, Complete, Filled
<1>16. Persist'
  BY <1>1, <1>9, <1>11 DEF LifecycleInv, Persist, Steady, Inside
<1>17. Routing'
  BY <1>1, <1>9 DEF LifecycleInv, Routing, Staging
<1> QED
  BY <1>8, <1>12, <1>13, <1>14, <1>15, <1>16, <1>17 DEF LifecycleInv

\* A boundary is left: what still copies keeps its transfer.
LEMMA ExitPreserves == LifecycleInv /\ Exit => LifecycleInv'
<1> SUFFICES ASSUME LifecycleInv, Exit PROVE LifecycleInv'
  OBVIOUS
<1> DEFINE c == Last(stack)
<1>1. /\ Typed /\ PartsSound /\ Faultless /\ Stages /\ Prefix(stack)
      /\ pc = "exiting" /\ stack # <<>>
  BY DEF LifecycleInv, Typed, Exit
<1>2. /\ c \in C /\ c = Len(stack) /\ Len(stack) \in Nat
      /\ Prefix(Front(stack)) /\ Len(Front(stack)) = c - 1
  BY <1>1, Popped
<1>3. PICK o \in Exits(c) : Takes(c, o) /\ failed' = (failed \/ o.raises)
  BY DEF Exit
<1>4. /\ comp[c] \in States /\ Sound(c, comp[c])
      /\ Layout[c].trainable => comp[c].transfer /\ comp[c].acquired
  <2>1. c <= Len(stack)
    BY <1>2
  <2> HIDE DEF c
  <2> QED
    BY <1>1, <1>2, <2>1 DEF LifecycleInv, Typed, PartsSound, Stepping
<1> HIDE DEF c
<1>5. /\ o \in Outcomes /\ Sound(c, o.to)
      /\ o.to.active = comp[c].active /\ o.to.acquired = comp[c].acquired /\ o.to.stamp = comp[c].stamp
      /\ o.to.lost = comp[c].lost /\ o.to.stray = comp[c].stray
  BY <1>2, <1>3, <1>4, ExitOutcome
<1>6. active = "cuda" /\ comp[c].active = "cuda"
  BY <1>1, <1>2 DEF Stages, Inside
<1>7. faults = 0 /\ ~o.fault => Clean(o.to)
  BY <1>1, <1>2, <1>5, <1>6 DEF Faultless, Clean
<1>8. /\ comp' \in [C -> States] /\ faults' \in 0 .. MaxFaults
      /\ \A d \in C : d # c => comp'[d] = comp[d]
      /\ comp'[c] = o.to
      /\ PartsSound' /\ Faultless'
  BY <1>1, <1>2, <1>3, <1>5, <1>7, Taken
<1>9. /\ failed' \in BOOLEAN /\ Len(stack') = c - 1 /\ Len(stack) = c /\ Prefix(stack')
      /\ UNCHANGED <<session, active, routed, hooks, pc, at, teardown, hurt>>
  BY <1>1, <1>2, <1>3, <1>5 DEF Exit, Outcomes, Typed, c
<1>10. \A d \in C : d <= Len(stack') => d # c /\ d <= Len(stack)
  BY <1>2, <1>9, Numbered
<1>11. \A d \in C : /\ comp'[d].active = comp[d].active /\ comp'[d].acquired = comp[d].acquired
                    /\ comp'[d].stamp = comp[d].stamp /\ comp'[d].lost = comp[d].lost
  BY <1>5, <1>8
<1>12. Typed'
  BY <1>1, <1>8, <1>9 DEF Typed
<1>13. Stages'
  BY <1>1, <1>9, <1>11 DEF Stages, Inside
<1>14. Stepping'
  BY <1>1, <1>8, <1>9, <1>10 DEF LifecycleInv, Stepping
<1>15. Complete'
  BY <1>1, <1>9, <1>11 DEF LifecycleInv, Complete, Filled
<1>16. Persist'
  BY <1>1, <1>9, <1>11 DEF LifecycleInv, Persist, Steady, Inside
<1>17. Routing'
  BY <1>1, <1>9 DEF LifecycleInv, Routing, Staging
<1> QED
  BY <1>8, <1>12, <1>13, <1>14, <1>15, <1>16, <1>17 DEF LifecycleInv

\* A component that runs may go on refilling its targets, and one that is transient
\* lets go of them; nothing is staged but under the lease.
LEMMA ForwardComponentPreserves == LifecycleInv /\ ForwardComponent => LifecycleInv'
<1> SUFFICES ASSUME LifecycleInv, ForwardComponent PROVE LifecycleInv'
  OBVIOUS
<1> DEFINE r == comp[at]
<1> DEFINE ran == [r EXCEPT !.busy = @ \/ (Kind(at) = "session" /\ r.acquired /\ ~r.lost)]
<1> DEFINE staging == IF routed.hooks /\ active = "cuda" THEN [routed EXCEPT !.busy = TRUE, !.since = session]
                      ELSE routed
<1> DEFINE Onward == pc' = pc /\ hurt' = hurt /\ at' = at + 1
<1>1. /\ Typed /\ PartsSound /\ Faultless /\ Stages
      /\ pc = "forward" /\ at \in C
      /\ UNCHANGED <<session, active, hooks, stack, teardown, failed>>
  BY DEF LifecycleInv, ForwardComponent
<1>2. /\ r \in States /\ Sound(at, r)
      /\ ran \in States /\ ran.active = r.active /\ ran.acquired = r.acquired /\ ran.stamp = r.stamp
      /\ ran.transfer = r.transfer /\ ran.pin = r.pin /\ ran.lost = r.lost /\ ran.stray = r.stray
      /\ ran.busy = (r.busy \/ (Kind(at) = "session" /\ r.acquired /\ ~r.lost))
  BY <1>1 DEF Typed, PartsSound, States
<1>3. PICK o : /\ o = Returns(ran) \/ (hooks /\ Transient(at) /\ o \in Releases(at, ran))
               /\ Takes(at, o)
               /\ routed' = staging \/ routed' = [staging EXCEPT !.busy = @ /\ ~Quiets(at, o)]
               /\ Abandon \/ (~o.raises /\ Onward)
  <2>1. CASE /\ active = "cuda" => r.acquired
             /\ \E o \in (IF hooks /\ Transient(at) THEN Releases(at, ran) ELSE {Returns(ran)}) :
                  /\ Takes(at, o)
                  /\ routed' = [staging EXCEPT !.busy = @ /\ ~Quiets(at, o)]
                  /\ IF o.raises THEN Abandon ELSE at' = at + 1 /\ UNCHANGED <<pc, hurt>>
    BY <2>1
  <2>2. CASE Abandon /\ comp' = [comp EXCEPT ![at] = ran] /\ routed' = staging /\ UNCHANGED faults
    <3>1. Takes(at, Returns(ran))
      BY <1>2, <2>2, Ends DEF Takes
    <3> QED
      BY <2>2, <3>1
  <2> QED
    BY <2>1, <2>2 DEF ForwardComponent
<1> HIDE DEF ran
<1>4. Sound(at, ran)
  BY <1>2 DEF Sound
<1>5. r.active = active /\ (hooks => active = "cuda")
  BY <1>1 DEF Stages, Inside
<1>6. /\ o \in Outcomes /\ Sound(at, o.to) /\ o.to.active = r.active
      /\ ~o.fault /\ Clean(ran) => ~o.to.lost /\ ~o.to.stray
      /\ \/ /\ ~o.raises /\ o.to.acquired = r.acquired /\ o.to.stamp = r.stamp /\ o.to.lost = r.lost
            /\ o.to = ran
         \/ hooks /\ Transient(at) /\ (~o.raises => ~o.to.acquired)
  <2>1. CASE o = Returns(ran)
    BY <1>2, <1>4, <2>1, Ends DEF Clean
  <2>2. CASE hooks /\ Transient(at) /\ o \in Releases(at, ran)
    <3>1. /\ o \in Outcomes /\ Sound(at, o.to) /\ o.to.active = ran.active
          /\ ~o.fault /\ Clean(ran) => ~Unfinished(o.to) /\ ~o.to.lost /\ ~o.to.stray
          /\ ~o.raises /\ ran.active = "cuda" => ~o.to.acquired
      BY <1>1, <1>2, <1>4, <2>2, ReleaseOutcome
    <3> QED
      BY <1>2, <1>5, <2>2, <3>1
  <2> QED
    BY <1>3, <2>1, <2>2
<1>7. faults = 0 /\ ~o.fault => Clean(o.to)
  <2>1. faults = 0 => Clean(ran)
    BY <1>1, <1>2 DEF Faultless, Clean, Unfinished
  <2> QED
    BY <1>5, <1>6, <2>1 DEF Clean
<1>8. /\ comp' \in [C -> States] /\ faults' \in 0 .. MaxFaults
      /\ \A d \in C : d # at => comp'[d] = comp[d]
      /\ comp'[at] = o.to
      /\ PartsSound' /\ Faultless'
  BY <1>1, <1>3, <1>6, <1>7, Taken
<1>9. /\ staging \in [hooks : BOOLEAN, lease : BOOLEAN, busy : BOOLEAN, since : 0 .. MaxSessions]
      /\ staging.hooks = routed.hooks /\ staging.lease = routed.lease
      /\ \/ staging.busy = routed.busy /\ staging.since = routed.since
         \/ routed.hooks /\ active = "cuda" /\ staging.since = session
  BY <1>1 DEF Typed
<1>10. /\ routed' \in [hooks : BOOLEAN, lease : BOOLEAN, busy : BOOLEAN, since : 0 .. MaxSessions]
       /\ routed'.hooks = routed.hooks /\ routed'.lease = routed.lease
       /\ \/ (routed'.busy => routed.busy) /\ routed'.since = routed.since
          \/ routed.hooks /\ active = "cuda" /\ routed'.since = session
  <2> HIDE DEF staging
  <2>1. CASE routed' = staging
    BY <1>9, <2>1
  <2>2. CASE routed' = [staging EXCEPT !.busy = @ /\ ~Quiets(at, o)]
    <3>1. Quiets(at, o) \in BOOLEAN
      BY DEF Quiets
    <3> HIDE DEF Quiets
    <3>2. /\ routed' \in [hooks : BOOLEAN, lease : BOOLEAN, busy : BOOLEAN, since : 0 .. MaxSessions]
          /\ routed'.hooks = staging.hooks /\ routed'.lease = staging.lease
          /\ routed'.since = staging.since /\ (routed'.busy => staging.busy)
      BY <1>9, <2>2, <3>1
    <3> QED
      BY <1>9, <3>2
  <2> QED
    BY <1>3, <2>1, <2>2
<1>11. /\ pc' \in {"forward", "idle"} /\ hurt' \in BOOLEAN /\ at' \in 1 .. Len(Layout) + 1
       /\ \/ hurt' = TRUE
          \/ hurt' = hurt /\ pc' = "forward" /\ at' = at + 1 /\ ~o.raises
  <2>1. at \in Nat /\ at + 1 \in 1 .. Len(Layout) + 1 /\ 1 \in 1 .. Len(Layout) + 1
    BY <1>1, Numbered
  <2>2. hurt \in BOOLEAN
    BY <1>1 DEF Typed
  <2>3. CASE Abandon
    BY <2>1, <2>3 DEF Abandon
  <2>4. CASE ~o.raises /\ at' = at + 1 /\ UNCHANGED <<pc, hurt>>
    BY <1>1, <2>1, <2>2, <2>4
  <2> QED
    BY <1>3, <2>3, <2>4
<1> HIDE DEF staging, Onward
<1>12. Typed'
  BY <1>1, <1>8, <1>10, <1>11 DEF Typed
<1>13. \A d \in C : comp'[d].active = comp[d].active
  BY <1>6, <1>8
<1>14. Stages'
  BY <1>1, <1>11, <1>13 DEF Stages, Inside
<1>15. Stepping'
  BY <1>11 DEF Stepping
<1>16. Complete'
  <2> SUFFICES ASSUME active = "cuda", ~hurt', NEW d \in C
               PROVE  Filled(d)' \/ (hooks /\ Transient(d) /\ d < at' /\ ~comp'[d].acquired)
    BY <1>1, <1>11 DEF Complete
  <2>1. ~hurt /\ at' = at + 1 /\ ~o.raises
    BY <1>11
  <2>2. Filled(d) \/ (hooks /\ Transient(d) /\ d < at /\ ~comp[d].acquired)
    BY <1>1, <2>1 DEF LifecycleInv, Complete
  <2>3. d \in Nat /\ at \in Nat
    BY <1>1, Numbered
  <2>4. CASE d # at
    BY <1>1, <1>8, <2>1, <2>2, <2>3, <2>4 DEF Filled
  <2>5. CASE d = at
    BY <1>1, <1>6, <1>8, <2>1, <2>2, <2>3, <2>5 DEF Filled
  <2> QED
    BY <2>4, <2>5
<1>17. Persist'
  BY <1>1, <1>6, <1>8, <1>11 DEF LifecycleInv, Persist, Steady, Inside, Stages
<1>18. Routing'
  <2>1. Staging' => Staging \/ (routed.hooks /\ active = "cuda")
    BY <1>1, <1>10 DEF Staging
  <2> QED
    BY <1>1, <1>10, <1>11, <2>1 DEF LifecycleInv, Routing
<1> QED
  BY <1>8, <1>12, <1>14, <1>15, <1>16, <1>17, <1>18 DEF LifecycleInv

\* What the forward has released is acquired again, in order.
LEMMA ReacquirePreserves == LifecycleInv /\ Reacquire => LifecycleInv'
<1> SUFFICES ASSUME LifecycleInv, Reacquire PROVE LifecycleInv'
  OBVIOUS
<1> DEFINE r == comp[at]
<1>1. /\ Typed /\ PartsSound /\ Faultless /\ Stages
      /\ pc = "reacquire" /\ at \in C
      /\ UNCHANGED <<session, active, routed, hooks, stack, teardown, failed>>
  BY DEF LifecycleInv, Reacquire
<1>2. r \in States /\ Sound(at, r) /\ r.active = "cuda" /\ session \in 0 .. MaxSessions
  BY <1>1 DEF Typed, PartsSound, Stages, Inside
<1>3. PICK o : /\ IF Transient(at) THEN o \in Acquires(at, r) ELSE o = Returns(r)
               /\ Takes(at, o)
               /\ IF o.raises THEN Abandon ELSE at' = at + 1 /\ UNCHANGED <<pc, hurt>>
  BY DEF Reacquire
<1> HIDE DEF r
<1>4. /\ o \in Outcomes /\ Sound(at, o.to) /\ o.to.active = r.active
      /\ o.to.lost = r.lost /\ o.to.stray = r.stray
      /\ ~o.raises /\ Transient(at) =>
           o.to.acquired /\ (IF r.acquired THEN o.to = r ELSE o.to.stamp = session)
      /\ ~Transient(at) => o.to = r
  <2>1. CASE Transient(at)
    <3>1. o \in Acquires(at, r)
      BY <1>3, <2>1
    <3>2. /\ o \in Outcomes /\ Sound(at, o.to) /\ o.to.active = r.active
          /\ o.to.lost = r.lost /\ o.to.stray = r.stray
          /\ ~o.raises => o.to.acquired /\ (IF r.acquired THEN o.to = r ELSE o.to.stamp = session)
      BY <1>1, <1>2, <3>1, AcquireOutcome
    <3> QED
      BY <2>1, <3>2
  <2>2. CASE ~Transient(at)
    BY <1>2, <1>3, <2>2, Ends
  <2> QED
    BY <2>1, <2>2
<1>5. faults = 0 /\ ~o.fault => Clean(o.to)
  BY <1>1, <1>2, <1>4 DEF Faultless, Clean, r
<1>6. /\ comp' \in [C -> States] /\ faults' \in 0 .. MaxFaults
      /\ \A d \in C : d # at => comp'[d] = comp[d]
      /\ comp'[at] = o.to
      /\ PartsSound' /\ Faultless'
  BY <1>1, <1>3, <1>4, <1>5, Taken
<1>7. /\ pc' \in {"reacquire", "idle"} /\ hurt' \in BOOLEAN /\ at' \in 1 .. Len(Layout) + 1
      /\ \/ hurt' = TRUE
         \/ hurt' = hurt /\ pc' = "reacquire" /\ at' = at + 1 /\ ~o.raises
  <2>1. at \in Nat /\ at + 1 \in 1 .. Len(Layout) + 1 /\ 1 \in 1 .. Len(Layout) + 1
    BY <1>1, Numbered
  <2>2. hurt \in BOOLEAN
    BY <1>1 DEF Typed
  <2>3. CASE Abandon
    BY <2>1, <2>3 DEF Abandon
  <2>4. CASE ~o.raises /\ at' = at + 1 /\ UNCHANGED <<pc, hurt>>
    BY <1>1, <2>1, <2>2, <2>4
  <2> QED
    BY <1>3, <2>3, <2>4
<1>8. Typed'
  BY <1>1, <1>6, <1>7 DEF Typed
<1>9. \A d \in C : comp'[d].active = comp[d].active
  BY <1>4, <1>6 DEF r
<1>10. Stages'
  BY <1>1, <1>7, <1>9 DEF Stages, Inside
<1>11. Stepping'
  BY <1>7 DEF Stepping
<1>12. Complete'
  <2> SUFFICES ASSUME active = "cuda", ~hurt', NEW d \in C
               PROVE  Filled(d)' \/ (Transient(d) /\ at' <= d /\ ~comp'[d].acquired)
    BY <1>1, <1>7 DEF Complete
  <2>1. ~hurt /\ at' = at + 1 /\ ~o.raises
    BY <1>7
  <2>2. Filled(d) \/ (Transient(d) /\ at <= d /\ ~comp[d].acquired)
    BY <1>1, <2>1 DEF LifecycleInv, Complete
  <2>3. d \in Nat /\ at \in Nat
    BY <1>1, Numbered
  <2>4. CASE d # at
    BY <1>1, <1>6, <2>1, <2>2, <2>3, <2>4 DEF Filled
  <2>5. CASE d = at
    BY <1>1, <1>4, <1>6, <2>1, <2>2, <2>3, <2>5 DEF Filled, r
  <2> QED
    BY <2>4, <2>5
<1>13. Persist'
  BY <1>1, <1>4, <1>6, <1>7 DEF LifecycleInv, Persist, Steady, Inside, Stages, r
<1>14. Routing'
  BY <1>1, <1>7 DEF LifecycleInv, Routing, Staging
<1> QED
  BY <1>6, <1>8, <1>10, <1>11, <1>12, <1>13, <1>14 DEF LifecycleInv

\* Copies that are over need nothing any more.
LEMMA ArrivePreserves == LifecycleInv /\ Arrive => LifecycleInv'
<1> SUFFICES ASSUME LifecycleInv, Arrive PROVE LifecycleInv'
  OBVIOUS
<1>1. /\ Typed /\ PartsSound /\ Faultless /\ Stages
      /\ UNCHANGED <<session, active, hooks, pc, at, stack, teardown, failed, hurt, faults>>
  BY DEF LifecycleInv, Arrive
<1>2. CASE routed' = [routed EXCEPT !.busy = FALSE] /\ UNCHANGED comp
  <2>1. /\ routed' \in [hooks : BOOLEAN, lease : BOOLEAN, busy : BOOLEAN, since : 0 .. MaxSessions]
        /\ routed'.hooks = routed.hooks /\ routed'.lease = routed.lease /\ routed'.since = routed.since
        /\ routed'.busy = FALSE
    BY <1>1, <1>2 DEF Typed
  <2>2. Typed' /\ PartsSound' /\ Faultless'
    BY <1>1, <1>2, <2>1 DEF Typed, PartsSound, Faultless
  <2>3. Stages' /\ Stepping' /\ Complete'
    BY <1>1, <1>2, <2>1 DEF LifecycleInv, Stages, Inside, Stepping, Complete, Filled
  <2>4. Persist' /\ Routing'
    BY <1>1, <1>2, <2>1 DEF LifecycleInv, Persist, Inside, Steady, Routing, Staging
  <2> QED
    BY <2>2, <2>3, <2>4 DEF LifecycleInv
<1>3. ASSUME NEW c \in C, comp' = [comp EXCEPT ![c].busy = FALSE, ![c].stray = FALSE], UNCHANGED routed
      PROVE  LifecycleInv'
  <2>1. /\ comp' \in [C -> States]
        /\ \A d \in C :
             /\ comp'[d].active = comp[d].active /\ comp'[d].acquired = comp[d].acquired
             /\ comp'[d].stamp = comp[d].stamp /\ comp'[d].lost = comp[d].lost
             /\ comp'[d].transfer = comp[d].transfer /\ comp'[d].pin = comp[d].pin
             /\ (comp'[d].busy => comp[d].busy) /\ (comp'[d].stray => comp[d].stray)
    BY <1>1, <1>3 DEF Typed, States
  <2>2. Typed'
    BY <1>1, <1>3, <2>1 DEF Typed
  <2>3. PartsSound'
    BY <1>1, <2>1 DEF PartsSound, Sound
  <2>4. Faultless'
    BY <1>1, <2>1 DEF Faultless, Clean, Unfinished
  <2>5. Stages' /\ Stepping'
    BY <1>1, <1>3, <2>1 DEF LifecycleInv, Stages, Inside, Stepping
  <2>6. Complete'
    BY <1>1, <1>3, <2>1 DEF LifecycleInv, Complete, Filled
  <2>7. Persist'
    BY <1>1, <1>3, <2>1 DEF LifecycleInv, Persist, Inside, Steady
  <2>8. Routing'
    BY <1>1, <1>3, <2>1 DEF LifecycleInv, Routing, Staging, Steady
  <2> QED
    BY <2>2, <2>3, <2>4, <2>5, <2>6, <2>7, <2>8 DEF LifecycleInv
<1> QED
  BY <1>2, <1>3 DEF Arrive

-----------------------------------------------------------------------------
(* The theorems *)

\* A session's calls, in any order and however they fail, keep the inductive
\* invariant (model_offloader.py, composite_component.py and the components under it).
THEOREM LifecycleInvariance == Spec => []LifecycleInv
<1>1. Init => LifecycleInv
  <2> SUFFICES ASSUME Init PROVE LifecycleInv
    OBVIOUS
  <2>1. Fresh \in States
    BY LayoutAssumption DEF Fresh, States
  <2>2. \A c \in C : comp[c] = Fresh
    BY DEF Init
  <2>3. comp \in [C -> States]
    BY <2>1 DEF Init
  <2>4. routed \in [hooks : BOOLEAN, lease : BOOLEAN, busy : BOOLEAN, since : 0 .. MaxSessions]
        /\ routed.since = 0 /\ 0 \in 0 .. MaxSessions /\ 0 \in 0 .. MaxFaults
        /\ 1 \in 1 .. Len(Layout) + 1
    BY LayoutAssumption, Numbered DEF Init
  <2>8. Typed
    <3>1. routed.since <= session /\ session \in 0 .. MaxSessions /\ faults \in 0 .. MaxFaults
      BY <2>4 DEF Init
    <3>2. at \in 1 .. Len(Layout) + 1 /\ Prefix(stack) /\ Prefix(teardown)
      BY <2>4, NoPrefix DEF Init
    <3>3. /\ active = "none" /\ pc = "idle" /\ hooks = FALSE /\ failed = FALSE /\ hurt = FALSE
      BY DEF Init
    <3> QED
      BY <2>3, <2>4, <3>1, <3>2, <3>3 DEF Typed
  <2>5. PartsSound /\ Faultless
    BY <2>2 DEF PartsSound, Faultless, Sound, Clean, Unfinished, Fresh
  <2>6. Stages
    BY <2>2 DEF Init, Stages, Inside, Fresh
  <2>7. Stepping /\ Complete /\ Persist /\ Routing
    BY DEF Init, Stepping, Complete, Persist, Inside, Routing, Staging
  <2> QED
    BY <2>5, <2>6, <2>7, <2>8 DEF LifecycleInv
<1>2. LifecycleInv /\ [Next]_vars => LifecycleInv'
  <2> SUFFICES ASSUME LifecycleInv, [Next]_vars PROVE LifecycleInv'
    OBVIOUS
  <2>1. CASE UNCHANGED vars
    BY <2>1 DEF vars, LifecycleInv, Typed, PartsSound, Faultless, Stages, Inside, Stepping, Complete, Filled,
                Persist, Steady, Routing, Staging
  <2>2. CASE Begin \/ Activate \/ Activated \/ Deactivate \/ Close \/ Unwound \/ Deactivated
    BY <2>2, BeginPreserves, ActivatePreserves, ActivatedPreserves, DeactivatePreserves, ClosePreserves,
       UnwoundPreserves, DeactivatedPreserves
  <2>3. CASE Forward \/ ForwardComponent \/ ForwardEnd \/ Reacquire \/ Reacquired
    BY <2>3, ForwardPreserves, ForwardComponentPreserves, ForwardEndPreserves, ReacquirePreserves,
       ReacquiredPreserves
  <2>4. CASE Step \/ Enter \/ Optimize \/ Exit \/ Stepped
    BY <2>4, StepPreserves, EnterPreserves, OptimizePreserves, ExitPreserves, SteppedPreserves
  <2>5. CASE Arrive
    BY <2>5, ArrivePreserves
  <2> QED
    BY <2>1, <2>2, <2>3, <2>4, <2>5 DEF Next
<1> QED
  BY <1>1, <1>2, PTL DEF Spec

\* Every component's state is one of those the calls name, and the stacks name components.
THEOREM LifecycleTypes == Spec => []TypeOK
<1>1. ASSUME NEW s, Prefix(s) PROVE s \in SeqOf(C, Len(Layout))
  <2>1. s \in [1 .. Len(s) -> C] /\ Len(s) \in 0 .. Len(Layout)
    BY <1>1, PrefixLength, Numbered DEF Prefix
  <2> QED
    BY <2>1 DEF SeqOf
<1>2. LifecycleInv => TypeOK
  BY <1>1 DEF LifecycleInv, Typed, TypeOK, States
<1> QED
  BY <1>2, LifecycleInvariance, PTL

\* A component that is not transient has forgotten no copies, and one whose targets could
\* not be synchronized is in no CUDA session, so that nothing releases it again.
Remembers(c, r) == ~Transient(c) => ~r.stray /\ (r.lost => r.active # "cuda")
Remembered == \A c \in C : Remembers(c, comp[c])

\* A release forgets copies only where an earlier one has failed in the same session.
LEMMA ReleaseRemembers ==
    ASSUME NEW c \in C, NEW r \in States, r.lost => r.active # "cuda", NEW o \in Releases(c, r)
    PROVE  o.to.stray = r.stray
<1>1. Retired(r).stray = r.stray /\ Lost(r).stray = r.stray
  BY RetiredMarks DEF Lost, States
<1>2. [r EXCEPT !.pin = FALSE].stray = r.stray /\ [r EXCEPT !.transfer = FALSE].stray = r.stray
  BY DEF States
<1> DEFINE Ways(q) == o = Returns(q) \/ o = Raises(q) \/ o = Unsynchronized(q)
<1>3. \/ Ways(r) \/ Ways(Retired(r)) \/ Ways(Lost(r))
      \/ Ways([r EXCEPT !.pin = FALSE]) \/ Ways([r EXCEPT !.transfer = FALSE])
  <2>1. CASE o \in HostReleases(r)
    BY <2>1 DEF HostReleases
  <2>2. CASE o \in ResidentReleases(r)
    BY <2>2 DEF ResidentReleases
  <2>3. CASE o \in SessionReleases(r)
    BY <2>3 DEF SessionReleases
  <2> QED
    BY <2>1, <2>2, <2>3 DEF Releases
<1>4. \A q : Ways(q) => o.to = q
  BY DEF Returns, Raises, Unsynchronized
<1> HIDE DEF Ways
<1> QED
  BY <1>1, <1>2, <1>3, <1>4

\* What a component's call comes to disturbs no other component.
LEMMA TakenRemembered ==
    ASSUME comp \in [C -> States], Remembered, NEW c \in C, NEW o, Takes(c, o), Remembers(c, o.to)
    PROVE  Remembered'
<1>1. \A d \in C : comp'[d] = IF d = c THEN o.to ELSE comp[d]
  BY DEF Takes
<1> QED
  BY <1>1 DEF Remembered, Remembers

\* One call on a component that is not transient is activated, torn down, run or stepped
\* without forgetting what its targets' streams still copy.
LEMMA RemembersAlways == LifecycleInv /\ Remembered /\ Next => Remembered'
<1> SUFFICES ASSUME LifecycleInv, Remembered, Next PROVE Remembered'
  OBVIOUS
<1>1. /\ Typed /\ Stages /\ comp \in [C -> States] /\ session \in 0 .. MaxSessions
      /\ \A c \in C : comp[c] \in States /\ Sound(c, comp[c]) /\ Remembers(c, comp[c])
  BY DEF LifecycleInv, Typed, PartsSound, Remembered
<1>2. CASE UNCHANGED comp
  BY <1>2 DEF Remembered, Remembers
<1>3. CASE Activate
  <2> DEFINE c == Len(stack) + 1
  <2>1. c \in C /\ c > Len(stack) /\ pc = "activating"
    BY <1>1, <1>3, Numbered, PrefixLength DEF Activate, Typed
  <2>2. PICK o \in Activates(c) : Takes(c, o)
    BY <1>3 DEF Activate
  <2> HIDE DEF c
  <2>3. comp[c].active = "none" /\ active \in {"cpu", "cuda"}
    BY <1>1, <2>1 DEF Typed, Stages
  <2> DEFINE r == comp[c]
  <2> DEFINE q == [r EXCEPT !.active = "cuda"]
  <2>4. CASE Unfinished(r)
    <3>1. o.to = r
      BY <2>2, <2>4 DEF Activates, Raises
    <3> QED
      BY <1>1, <2>1, <2>2, <3>1, TakenRemembered
  <2>5. CASE ~Unfinished(r) /\ active = "cpu"
    <3>1. o.to = [r EXCEPT !.active = "cpu"]
      BY <2>2, <2>3, <2>5 DEF Activates, Returns
    <3>2. o.to.lost = r.lost /\ o.to.stray = r.stray /\ o.to.active = "cpu"
      BY <1>1, <2>1, <3>1 DEF States
    <3> QED
      BY <1>1, <2>1, <2>2, <3>2, TakenRemembered DEF Remembers
  <2>6. CASE ~Unfinished(r) /\ active = "cuda"
    <3>1. o \in Acquires(c, q)
      BY <2>2, <2>3, <2>6 DEF Activates
    <3>2. q \in States /\ Sound(c, q) /\ ~q.lost /\ q.stray = r.stray
      BY <1>1, <2>1, <2>6 DEF States, Sound, Unfinished
    <3>3. o.to.lost = q.lost /\ o.to.stray = q.stray
      <4> HIDE DEF q, r
      <4> QED
        BY <1>1, <2>1, <3>1, <3>2, AcquireOutcome
    <3> HIDE DEF q
    <3> QED
      BY <1>1, <2>1, <2>2, <3>2, <3>3, TakenRemembered DEF Remembers
  <2> QED
    BY <2>3, <2>4, <2>5, <2>6
<1>4. CASE Close
  <2> DEFINE c == Last(stack)
  <2>1. c \in C
    BY <1>1, <1>4, Popped DEF Typed, Close
  <2>2. PICK o \in Deactivates(c) : Takes(c, o)
    BY <1>4 DEF Close
  <2> HIDE DEF c
  <2>3. PICK q \in Releases(c, comp[c]) : o = [q EXCEPT !.to.active = "none"]
    BY <2>2 DEF Deactivates
  <2>4. q \in Outcomes
    BY <1>1, <2>1, ReleaseOutcome
  <2>5. o.to.active = "none" /\ o.to.stray = q.to.stray
    BY <2>3, <2>4 DEF Outcomes, States
  <2>6. ~Transient(c) => q.to.stray = comp[c].stray
    BY <1>1, <2>1, ReleaseRemembers DEF Remembers
  <2>7. Remembers(c, o.to)
    BY <1>1, <2>1, <2>5, <2>6 DEF Remembers
  <2> QED
    BY <1>1, <2>1, <2>2, <2>7, TakenRemembered
<1>5. CASE ForwardComponent
  <2> DEFINE r == comp[at]
  <2> DEFINE ran == [r EXCEPT !.busy = @ \/ (Kind(at) = "session" /\ r.acquired /\ ~r.lost)]
  <2>1. at \in C
    BY <1>5 DEF ForwardComponent
  <2>2. ran.active = r.active /\ ran.lost = r.lost /\ ran.stray = r.stray
    BY <1>1, <2>1 DEF States
  <2>3. Remembers(at, ran)
    BY <1>1, <2>1, <2>2 DEF Remembers
  <2>4. CASE \E o \in (IF hooks /\ Transient(at) THEN Releases(at, ran) ELSE {Returns(ran)}) : Takes(at, o)
    <3>1. PICK o \in (IF hooks /\ Transient(at) THEN Releases(at, ran) ELSE {Returns(ran)}) : Takes(at, o)
      BY <2>4
    <3>2. Remembers(at, o.to)
      <4>1. CASE Transient(at)
        BY <4>1 DEF Remembers
      <4>2. CASE ~Transient(at)
        BY <2>3, <3>1, <4>2 DEF Returns
      <4> QED
        BY <4>1, <4>2
    <3> HIDE DEF ran
    <3> QED
      BY <1>1, <2>1, <3>1, <3>2, TakenRemembered
  <2>5. CASE comp' = [comp EXCEPT ![at] = ran]
    <3> HIDE DEF ran
    <3> QED
      BY <1>1, <2>1, <2>3, <2>5 DEF Remembered, Remembers
  <2> QED
    BY <1>5, <2>4, <2>5 DEF ForwardComponent
<1>6. CASE Reacquire
  <2>1. PICK o \in (IF Transient(at) THEN Acquires(at, comp[at]) ELSE {Returns(comp[at])}) :
          at \in C /\ Takes(at, o)
    BY <1>6 DEF Reacquire
  <2>2. Remembers(at, o.to)
    BY <1>1, <2>1 DEF Remembers, Returns
  <2> QED
    BY <1>1, <2>1, <2>2, TakenRemembered
<1>7. CASE Enter
  <2> DEFINE c == Len(stack) + 1
  <2>1. c \in C
    BY <1>1, <1>7, Numbered, PrefixLength DEF Enter, Typed
  <2>2. PICK o \in Enters(c) : Takes(c, o)
    BY <1>7 DEF Enter
  <2> HIDE DEF c
  <2>3. o.to.active = comp[c].active /\ o.to.lost = comp[c].lost /\ o.to.stray = comp[c].stray
    BY <1>1, <2>1, EnterOutcome
  <2> QED
    BY <1>1, <2>1, <2>2, <2>3, TakenRemembered DEF Remembers
<1>8. CASE Exit
  <2> DEFINE c == Last(stack)
  <2>1. c \in C /\ c = Len(stack) /\ Len(stack) \in Nat /\ pc = "exiting"
    BY <1>1, <1>8, Popped DEF Typed, Exit
  <2>2. PICK o \in Exits(c) : Takes(c, o)
    BY <1>8 DEF Exit
  <2> HIDE DEF c
  <2>3. Layout[c].trainable => comp[c].transfer /\ comp[c].acquired
    BY <2>1 DEF LifecycleInv, Stepping
  <2>4. o.to.active = comp[c].active /\ o.to.lost = comp[c].lost /\ o.to.stray = comp[c].stray
    BY <1>1, <2>1, <2>3, ExitOutcome
  <2> QED
    BY <1>1, <2>1, <2>2, <2>4, TakenRemembered DEF Remembers
<1>9. CASE Arrive
  <2>1. CASE UNCHANGED comp
    BY <1>2, <2>1
  <2>2. ASSUME NEW c \in C, comp' = [comp EXCEPT ![c].busy = FALSE, ![c].stray = FALSE]
        PROVE  Remembered'
    <3>1. \A d \in C : /\ comp'[d].active = comp[d].active /\ comp'[d].lost = comp[d].lost
                       /\ comp'[d].stray => comp[d].stray
      BY <1>1, <2>2 DEF States
    <3> QED
      BY <1>1, <3>1 DEF Remembered, Remembers
  <2> QED
    BY <1>9, <2>1, <2>2 DEF Arrive
<1> QED
  BY <1>2, <1>3, <1>4, <1>5, <1>6, <1>7, <1>8, <1>9
     DEF Next, Begin, Activated, Deactivate, Unwound, Deactivated, Forward, ForwardEnd, Reacquired, Step,
         Optimize, Stepped

\* A component's storage stays leased and its targets allocated while copies between
\* them run, through failed uploads, steps, releases and deactivations; only a transient
\* group that streams or rolls ever lets go of both under its copies, and only after a
\* synchronization has failed (TransferLease.finish, BlockComponent.release, activate).
THEOREM ComponentsKeepStorage == Spec => []ComponentsHeld
<1>1. Init => Remembered
  BY DEF Init, Remembered, Remembers, Fresh
<1>2. LifecycleInv /\ Remembered /\ [Next]_vars => Remembered'
  BY RemembersAlways DEF vars, Remembered, Remembers
<1>3. LifecycleInv /\ Remembered => ComponentsHeld
  BY LayoutAssumption DEF LifecycleInv, Typed, PartsSound, Sound, Faultless, Clean, Remembered, Remembers,
                          ComponentsHeld
<1> QED
  BY <1>1, <1>2, <1>3, LifecycleInvariance, PTL DEF Spec

\* The same, with the factors that routed hooks stage, which stay leased provided some
\* component is not transient: where every component is, a forward may run while none
\* has targets, and no teardown then waits for what its hooks staged
\* (_clear_active_adapter_hooks).
THEOREM StorageStays == ASSUME Persistent PROVE Spec => []StorageHeld
<1>1. LifecycleInv /\ ComponentsHeld => StorageHeld
  BY DEF LifecycleInv, Routing, Staging, StorageHeld
<1> QED
  BY <1>1, LifecycleInvariance, ComponentsKeepStorage, PTL

\* In a CUDA session in which no call has raised, every component has targets, filled
\* in this session (the guards of activate, reacquire_after_forward).
THEOREM FilledAnew == Spec => []FilledThisSession
<1>1. LifecycleInv => FilledThisSession
  BY DEF LifecycleInv, Stages, Inside, Complete, Filled, FilledThisSession
<1> QED
  BY <1>1, LifecycleInvariance, PTL

\* Whatever raised, between calls there is a whole session or none, and when no
\* synchronization has failed nothing outlives it (activate's except, deactivate's
\* finally).
THEOREM TornDown == Spec => []TearsDown
<1>1. LifecycleInv => SessionEnds
  BY DEF LifecycleInv, Stages, Inside, SessionEnds
<1>2. LifecycleInv => NothingLeaks
  BY DEF LifecycleInv, Stages, Faultless, Clean, NothingLeaks
<1>3. LifecycleInv => TearsDown
  BY <1>1, <1>2 DEF TearsDown
<1> QED
  BY <1>3, LifecycleInvariance, PTL

-----------------------------------------------------------------------------
(* Sets of numbers in their order *)

\* A finite set of integers that is not empty has a largest member.
LEMMA LargestExists ==
  ASSUME NEW S \in SUBSET Int, IsFiniteSet(S), S # {}
  PROVE  \E x \in S : \A y \in S : y <= x
<1> DEFINE G == {U \in SUBSET S : U # {} => \E x \in U : \A y \in U : y <= x}
<1>1. {} \in G
  OBVIOUS
<1>2. ASSUME NEW U \in SUBSET S, U # {}, U \ {NextOf(U)} \in G
      PROVE  U \in G
  <2> DEFINE z == NextOf(U)
  <2>1. z \in U /\ U \subseteq Int
    BY <1>2, NextOfIn
  <2>2. CASE U \ {z} = {}
    <3>1. \E x \in U : \A y \in U : y <= x
      <4> HIDE DEF z
      <4>1. \A y \in U : y = z
        BY <2>2
      <4>2. z \in Int
        BY <2>1
      <4> QED BY <2>1, <4>1, <4>2
    <3> QED
      BY <3>1
  <2>3. CASE U \ {z} # {}
    <3>1. PICK x \in U \ {z} : \A y \in U \ {z} : y <= x
      BY <1>2, <2>3
    <3> DEFINE w == IF x < z THEN z ELSE x
    <3>2. w \in U /\ \A y \in U : y <= w
      <4>1. x \in Int /\ z \in Int /\ x \in U
        BY <2>1
      <4>2. w \in U /\ x <= w /\ z <= w /\ w \in Int
        BY <2>1, <4>1
      <4> HIDE DEF w, z
      <4>3. ASSUME NEW y \in U PROVE y <= w
        <5>1. y \in Int /\ (y = z \/ y <= x)
          BY <2>1, <3>1
        <5> QED
          BY <4>1, <4>2, <5>1
      <4> QED
        BY <4>2, <4>3
    <3>3. \E y \in U : \A v \in U : v <= y
      <4> HIDE DEF z, w
      <4> QED BY <3>2
    <3> QED
      BY <3>3
  <2> QED
    BY <2>2, <2>3
<1>3. S \in G
  <2> HIDE DEF G
  <2> QED
    BY <1>1, <1>2, SubsetsByNext
<1> QED
  BY <1>3

\* The community module's maximum is that member.
LEMMA MaxOf ==
  ASSUME NEW S \in SUBSET Int, IsFiniteSet(S), S # {}
  PROVE  Max(S) \in S /\ \A y \in S : y <= Max(S)
BY LargestExists DEF Max

\* The enumeration of a set of numbers in their order.
Enumerates(f, S) ==
  /\ f \in [1 .. Cardinality(S) -> S]
  /\ \A i, j \in 1 .. Cardinality(S) : i < j => f[i] < f[j]

LEMMA EnumerationExists ==
  ASSUME NEW S, IsFiniteSet(S)
  PROVE  S \subseteq Int => \E f : Enumerates(f, S)
<1> DEFINE B == {T \in SUBSET S : T \subseteq Int /\ ~\E f : Enumerates(f, T)}
<1>1. ASSUME B # {}
      PROVE  FALSE
  <2>1. PICK T \in B : \A V \in B : V \subseteq T => V = T
    <3>1. B \in SUBSET (SUBSET S) /\ B # {} /\ IsFiniteSet(S)
      BY <1>1
    <3> HIDE DEF B
    <3> QED
      BY <3>1, LeastSubset
  <2>2. T \in SUBSET Int /\ IsFiniteSet(T)
    BY FS_Subset
  <2>3. CASE T = {}
    <3>1. Cardinality(T) = 0
      BY <2>3, FS_EmptySet
    <3> DEFINE none == [i \in 1 .. 0 |-> 0]
    <3>2. 1 .. 0 = {}
      OBVIOUS
    <3>3. Enumerates(none, T)
      BY <3>1, <3>2 DEF Enumerates
    <3> HIDE DEF none
    <3> QED
      BY <2>1, <3>3
  <2>4. CASE T # {}
    <3> DEFINE x == Max(T)
               U == T \ {x}
               k == Cardinality(U)
    <3>1. x \in T /\ x \in Int /\ \A y \in T : y <= x
      BY <2>2, <2>4, MaxOf
    <3> HIDE DEF x
    <3>2. U \in SUBSET S /\ U \notin B
      BY <2>1, <3>1
    <3>3. PICK f : Enumerates(f, U)
      BY <3>2
    <3>4. k \in Nat /\ Cardinality(T) = k + 1
      <4>1. /\ Cardinality(U) = Cardinality(T) - 1 
            /\ IsFiniteSet(U)
        BY <2>2, <3>1, FS_RemoveElement
      <4>2. Cardinality(T) \in Nat /\ Cardinality(U) \in Nat
        BY <2>2, <4>1, FS_CardinalityType
      <4> QED
        BY <4>1, <4>2
    <3>5. f \in [1 .. k -> U] /\ \A i, j \in 1 .. k : i < j => f[i] < f[j]
      BY <3>3 DEF Enumerates
    <3> HIDE DEF k
    <3> DEFINE g == [i \in 1 .. k + 1 |-> IF i \in 1 .. k THEN f[i] ELSE x]
    <3>6. g \in [1 .. k + 1 -> T]
      BY <3>1, <3>5
    <3>7. \A i \in 1 .. k : g[i] = f[i] /\ f[i] \in T /\ f[i] < x
      <4>1. ASSUME NEW i \in 1 .. k
            PROVE  i \in 1 .. k + 1 /\ f[i] \in U
        BY <3>4, <3>5
      <4>2. \A y \in U : y \in T /\ y \in Int /\ y # x /\ y <= x
        BY <2>2, <3>1
      <4>3. \A y \in U : y < x
        BY <3>1, <4>2
      <4> HIDE DEF U
      <4> QED
        BY <4>1, <4>2, <4>3
    <3>8. g[k + 1] = x
      BY <3>4
    <3>9. ASSUME NEW i \in 1 .. k + 1, NEW j \in 1 .. k + 1, i < j
          PROVE  g[i] < g[j]
      <4>1. i \in 1 .. k /\ (j \in 1 .. k \/ j = k + 1)
        BY <3>4, <3>9
      <4> HIDE DEF g
      <4> QED
        BY <3>5, <3>7, <3>8, <3>9, <4>1
    <3>10. Enumerates(g, T)
      <4> HIDE DEF g
      <4> QED
        BY <3>4, <3>6, <3>9 DEF Enumerates
    <3>11. \E h : Enumerates(h, T)
      <4> HIDE DEF g
      <4> QED BY <3>10
    <3> QED
      BY <2>1, <3>11
  <2> QED
    BY <2>3, <2>4
<1>2. S \notin B
  BY <1>1
<1> QED
  BY <1>2

\* It repeats no member, and leaves none out.
LEMMA EnumerationOnto ==
  ASSUME NEW S \in SUBSET Int, IsFiniteSet(S), NEW f, Enumerates(f, S)
  PROVE  /\ \A i, j \in DOMAIN f : f[i] = f[j] => i = j
         /\ \A x \in S : \E i \in DOMAIN f : f[i] = x
         /\ \A i \in DOMAIN f : f[i] \in S
<1> DEFINE k == Cardinality(S)
<1>1. k \in Nat
  BY FS_CardinalityType
<1>2. f \in [1 .. k -> S] /\ \A i, j \in 1 .. k : i < j => f[i] < f[j]
  BY DEF Enumerates
<1> HIDE DEF k
<1>3. ASSUME NEW i \in 1 .. k, NEW j \in 1 .. k, f[i] = f[j]
      PROVE  i = j
  <2>1. i < j \/ j < i \/ i = j
    BY <1>1
  <2>2. f[i] \in Int /\ f[j] \in Int
    BY <1>2
  <2> QED
    BY <1>2, <1>3, <2>1, <2>2
<1>4. f \in Injection(1 .. k, S)
  BY <1>2, <1>3 DEF Injection, IsInjective
<1>5. IsFiniteSet(1 .. k) /\ Cardinality(1 .. k) = k
  <2>1. 0 \in Int /\ 1 \in Int /\ k \in Int
    BY <1>1
  <2>2. /\ IsFiniteSet(1 .. k)
        /\ Cardinality(1 .. k) = IF 1 > k THEN 0 ELSE k - 1 + 1
    BY <2>1, FS_Interval
  <2> QED
    BY <1>1, <2>2
<1>6. f \in Surjection(1 .. k, S)
  BY <1>4, <1>5, FS_Injection DEF k
<1>7. \A x \in S : \E i \in 1 .. k : f[i] = x
  BY <1>6 DEF Surjection
<1> QED
  BY <1>2, <1>3, <1>7

-----------------------------------------------------------------------------
(* One owner *)

LEMMA BlockIndicesRight ==
  /\ \A i, j \in DOMAIN BlockIndices : BlockIndices[i] = BlockIndices[j] => i = j
  /\ \A n \in InBlocks : \E i \in DOMAIN BlockIndices : BlockIndices[i] = At[n]
  /\ \A i \in DOMAIN BlockIndices : \E n \in InBlocks : BlockIndices[i] = At[n]
<1> DEFINE S == {At[n] : n \in InBlocks}
<1>1. S \in SUBSET Int /\ IsFiniteSet(S)
  <2>1. S \in SUBSET Int
    BY PlacesAssumption DEF InBlocks
  <2>2. IsFiniteSet(InBlocks)
    BY PlacesAssumption, FS_Subset DEF InBlocks
  <2>3. IsFiniteSet(S)
    <3> DEFINE f == [n \in InBlocks |-> At[n]]
    <3>1. f \in Surjection(InBlocks, S)
      BY DEF Surjection
    <3> HIDE DEF f, S
    <3> QED
      BY <2>2, <3>1, FS_Surjection
  <2> QED
    BY <2>1, <2>3
<1>2. BlockIndices = CHOOSE f \in [1 .. Cardinality(S) -> S] : \A i, j \in 1 .. Cardinality(S) : i < j => f[i] < f[j]
  BY DEF BlockIndices
<1>3. \E f \in [1 .. Cardinality(S) -> S] : \A i, j \in 1 .. Cardinality(S) : i < j => f[i] < f[j]
  <2>1. \E f : Enumerates(f, S)
    <3> HIDE DEF S
    <3> QED
      BY <1>1, EnumerationExists
  <2> QED
    BY <2>1 DEF Enumerates
<1>4. Enumerates(BlockIndices, S)
  <2> HIDE DEF S
  <2> QED
    BY <1>2, <1>3 DEF Enumerates
<1>5. /\ \A i, j \in DOMAIN BlockIndices : BlockIndices[i] = BlockIndices[j] => i = j
      /\ \A x \in S : \E i \in DOMAIN BlockIndices : BlockIndices[i] = x
      /\ \A i \in DOMAIN BlockIndices : BlockIndices[i] \in S
  <2> HIDE DEF S
  <2> QED
    BY <1>1, <1>4, EnumerationOnto
<1> QED
  BY <1>5

\* A model is open; the parts are those of its names.
Opened == model \in Models

LEMMA OneOwnerOf ==
  ASSUME Opened, NEW n \in Names
  PROVE  \E c \in Components : \A d \in Components : n \in ParamNames(d) <=> d = c
<1>1. model.transient \in Seq(SUBSET Names)
  BY ModelsAssumption DEF Opened, WellFormed
<1> DEFINE L == Len(model.transient)
<1>2. L \in Nat /\ DOMAIN model.transient = 1 .. L
  BY <1>1
<1>3. CASE n \in BlockParams
  <2>1. n \in InBlocks
    BY <1>3 DEF BlockParams
  <2>2. PICK k \in DOMAIN BlockIndices : BlockIndices[k] = At[n]
    BY <2>1, BlockIndicesRight
  <2> DEFINE c == <<"block", k>>
  <2>3. c \in Components
    BY DEF Components
  <2>4. ASSUME NEW d \in Components
        PROVE  n \in ParamNames(d) <=> d = c
    <3>1. CASE \E j \in DOMAIN BlockIndices : d = <<"block", j>>
      <4>1. PICK j \in DOMAIN BlockIndices : d = <<"block", j>>
        BY <3>1
      <4>2. n \in ParamNames(d) <=> BlockIndices[j] = At[n]
        BY <1>3, <4>1 DEF ParamNames
      <4>3. BlockIndices[j] = At[n] <=> j = k
        BY <2>2, BlockIndicesRight
      <4> QED
        BY <4>1, <4>2, <4>3
    <3>2. CASE ~\E j \in DOMAIN BlockIndices : d = <<"block", j>>
      <4>1. n \notin ParamNames(d)
        BY <1>3, <2>4, <3>2 DEF ParamNames, Components
      <4> QED
        BY <3>2, <4>1
    <3> QED
      BY <3>1, <3>2
  <2> QED
    BY <2>3, <2>4
<1>4. CASE n \notin BlockParams /\ \E k \in 1 .. L : n \in model.transient[k]
  <2> DEFINE N == {k \in 1 .. L : n \in model.transient[k]}
             k == Min(N)
             c == <<"path", k>>
  <2>1. N \in SUBSET (0 .. L) /\ N # {}
    BY <1>2, <1>4
  <2>2. k \in N /\ \A j \in N : k <= j
    <3> HIDE DEF N
    <3> QED
      BY <1>2, <2>1, MinLeast
  <2> HIDE DEF k
  <2>3. c \in Components
    BY <1>2, <2>2 DEF Components
  <2>4. ASSUME NEW j \in 1 .. L
        PROVE  (n \in model.transient[j] /\ n \notin Earlier(j)) <=> j = k
    <3>1. n \in Earlier(j) <=> \E i \in 1 .. j - 1 : n \in model.transient[i]
      BY DEF Earlier
    <3>2. ASSUME NEW i \in 1 .. j - 1
          PROVE  i \in 1 .. L /\ i < j
      BY <1>2
    <3>3. j # k /\ j \in N => k \in 1 .. j - 1
      BY <1>2, <2>2
    <3>4. ASSUME j = k, NEW i \in 1 .. j - 1
          PROVE  n \notin model.transient[i]
      <4>1. i \in 1 .. L /\ i < k /\ k \in 1 .. L
        BY <3>2, <3>4
      <4> QED
        BY <1>2, <2>2, <4>1
    <3> QED
      BY <2>2, <3>1, <3>2, <3>3, <3>4
  <2>5. n \in Earlier(L + 1)
    BY <1>2, <2>2 DEF Earlier
  <2>6. ASSUME NEW d \in Components
        PROVE  n \in ParamNames(d) <=> d = c
    <3>1. CASE \E j \in 1 .. L : d = <<"path", j>>
      <4>1. PICK j \in 1 .. L : d = <<"path", j>>
        BY <3>1
      <4>2. n \in ParamNames(d) <=> n \in model.transient[j] /\ n \notin Earlier(j)
        BY <1>4, <4>1 DEF ParamNames
      <4> QED
        BY <2>4, <4>1, <4>2
    <3>2. CASE ~\E j \in 1 .. L : d = <<"path", j>>
      <4>1. n \notin ParamNames(d)
        BY <1>2, <1>4, <2>5, <2>6, <3>2 DEF ParamNames, Components
      <4> QED
        BY <2>2, <3>2, <4>1
    <3> QED
      BY <3>1, <3>2
  <2> QED
    BY <2>3, <2>6
<1>5. CASE n \notin BlockParams /\ ~\E k \in 1 .. L : n \in model.transient[k]
  <2> DEFINE c == <<"resident", 0>>
  <2>1. c \in Components
    BY DEF Components
  <2>2. n \notin Earlier(L + 1)
    <3>1. \A i \in 1 .. L + 1 - 1 : i \in 1 .. L
      BY <1>2
    <3> QED
      BY <1>5, <3>1 DEF Earlier
  <2>3. ASSUME NEW d \in Components
        PROVE  n \in ParamNames(d) <=> d = c
    <3>1. CASE d = c
      BY <1>5, <2>2, <3>1 DEF ParamNames
    <3>2. CASE d # c
      BY <1>2, <1>5, <2>3, <3>2 DEF ParamNames, Components
    <3> QED
      BY <3>1, <3>2
  <2> QED
    BY <2>1, <2>3
<1> QED
  BY <1>3, <1>4, <1>5

-----------------------------------------------------------------------------
(* Folding the adapters of a request *)

\* What an adapter at a place of the request makes of the contributions so far.
Counts(request, n, i) == request[i].strength # 0 /\ n \in Targets(request[i].spec)
Gathering(request, n, i, c) == IF Counts(request, n, i) THEN Add(c, n, request[i]) ELSE c
Gathers(request, n, D, g) ==
  g = [U \in SUBSET D |->
         IF U = {} THEN NoContributions ELSE Gathering(request, n, Max(U), g[U \ {Max(U)}])]

LEMMA GathersUnique ==
  ASSUME NEW request, NEW n, NEW T, IsFiniteSet(T), NEW g, NEW h,
         Gathers(request, n, T, g), Gathers(request, n, T, h)
  PROVE  T \subseteq Int => g = h
<1> DEFINE B == {U \in SUBSET T : T \subseteq Int /\ g[U] # h[U]}
<1>1. ASSUME B # {}
      PROVE  FALSE
  <2>1. PICK U \in B : \A V \in B : V \subseteq U => V = U
    <3>1. B \in SUBSET (SUBSET T)
      OBVIOUS
    <3> HIDE DEF B
    <3> QED
      BY <1>1, <3>1, LeastSubset
  <2>2. U # {}
    BY DEF Gathers
  <2>3. U \in SUBSET Int /\ IsFiniteSet(U)
    BY FS_Subset
  <2>4. Max(U) \in U
    BY <2>2, <2>3, MaxOf
  <2>5. g[U \ {Max(U)}] = h[U \ {Max(U)}]
    BY <2>1, <2>4
  <2> QED
    BY <2>1, <2>2, <2>5 DEF Gathers
<1>2. ASSUME T \subseteq Int
      PROVE  \A U \in SUBSET T : g[U] = h[U]
  BY <1>1, <1>2
<1> QED
  BY <1>2 DEF Gathers

LEMMA GathersRestricts ==
  ASSUME NEW request, NEW n, NEW T, NEW g, Gathers(request, n, T, g), NEW W \in SUBSET T
  PROVE  Gathers(request, n, W, [U \in SUBSET W |-> g[U]])
<1> DEFINE r == [U \in SUBSET W |-> g[U]]
<1>1. \A U \in SUBSET W : g[U] = IF U = {} THEN NoContributions ELSE Gathering(request, n, Max(U), g[U \ {Max(U)}])
  BY DEF Gathers
<1>2. \A U \in SUBSET W : U # {} => g[U \ {Max(U)}] = r[U \ {Max(U)}]
  OBVIOUS
<1>3. \A U \in SUBSET W : r[U] = IF U = {} THEN NoContributions ELSE Gathering(request, n, Max(U), r[U \ {Max(U)}])
  BY <1>1, <1>2
<1> HIDE DEF r
<1>4. r = [U \in SUBSET W |-> r[U]]
  BY DEF r
<1> QED
  BY <1>3, <1>4 DEF Gathers, r

LEMMA GathersExists ==
  ASSUME NEW request, NEW n, NEW S, IsFiniteSet(S)
  PROVE  S \subseteq Int => \E g : Gathers(request, n, S, g)
<1> DEFINE B == {T \in SUBSET S : T \subseteq Int /\ ~\E g : Gathers(request, n, T, g)}
<1>1. ASSUME B # {}
      PROVE  FALSE
  <2>1. PICK T \in B : \A V \in B : V \subseteq T => V = T
    <3>1. B \in SUBSET (SUBSET S)
      OBVIOUS
    <3> HIDE DEF B
    <3> QED
      BY <1>1, <3>1, LeastSubset
  <2>0. \A U \in SUBSET T : U # {} => Max(U) \in U
    <3>1. ASSUME NEW U \in SUBSET T, U # {}
          PROVE  Max(U) \in U
      <4>1. U \in SUBSET S /\ U \in SUBSET Int
        BY <2>1
      <4>2. IsFiniteSet(U)
        BY <4>1, FS_Subset
      <4> QED
        BY <3>1, <4>1, <4>2, MaxOf
    <3> QED
      BY <3>1
  <2> DEFINE sol(U) == CHOOSE g : Gathers(request, n, U, g)
             total(U) == sol(U)[U]
             whole == [U \in SUBSET T |->
                         IF U = {} THEN NoContributions ELSE Gathering(request, n, Max(U), total(U \ {Max(U)}))]
  <2>2. \A V \in SUBSET T : V # T => Gathers(request, n, V, sol(V))
    <3>1. \A V \in SUBSET T : V # T => \E g : Gathers(request, n, V, g)
      BY <2>1
    <3> QED
      BY <3>1
  <2>3. ASSUME NEW V \in SUBSET T, V # T
        PROVE  total(V) = whole[V]
    <3>1. Gathers(request, n, V, sol(V))
      BY <2>2, <2>3
    <3>2. CASE V = {}
      BY <3>1, <3>2 DEF Gathers
    <3>3. CASE V # {}
      <4> DEFINE W == V \ {Max(V)}
      <4>1. W \in SUBSET T /\ W # T /\ W \in SUBSET V
        BY <2>0, <3>3
      <4>2. Gathers(request, n, W, [U \in SUBSET W |-> sol(V)[U]])
        BY <3>1, <4>1, GathersRestricts
      <4>3. IsFiniteSet(W) /\ W \subseteq Int
        <5>1. W \in SUBSET S /\ W \subseteq Int
          BY <2>1, <4>1
        <5> QED
          BY <5>1, FS_Subset
      <4>4. Gathers(request, n, W, sol(W))
        BY <2>2, <4>1
      <4>5. sol(W) = [U \in SUBSET W |-> sol(V)[U]]
        <5> HIDE DEF sol, W
        <5> QED BY <4>2, <4>3, <4>4, GathersUnique
      <4>6. total(W) = sol(V)[W]
        BY <4>5
      <4>7. sol(V)[V] = Gathering(request, n, Max(V), sol(V)[W])
        BY <3>1, <3>3 DEF Gathers
      <4> QED
        BY <3>3, <4>6, <4>7
    <3> QED
      BY <3>2, <3>3
  <2>4. \A U \in SUBSET T : U # {} => total(U \ {Max(U)}) = whole[U \ {Max(U)}]
    BY <2>0, <2>3
  <2>5. whole = [U \in SUBSET T |-> whole[U]]
    OBVIOUS
  <2>6. \A U \in SUBSET T : whole[U] = IF U = {} THEN NoContributions ELSE Gathering(request, n, Max(U), whole[U \ {Max(U)}])
    <3>1. \A U \in SUBSET T : whole[U] = IF U = {} THEN NoContributions ELSE Gathering(request, n, Max(U), total(U \ {Max(U)}))
      OBVIOUS
    <3> HIDE DEF whole, total
    <3> QED
      BY <2>4, <3>1
  <2>7. Gathers(request, n, T, whole)
    <3> HIDE DEF whole
    <3> QED
      BY <2>5, <2>6 DEF Gathers
  <2> QED
    BY <2>1, <2>7
<1>2. S \notin B
  BY <1>1
<1> QED
  BY <1>2

\* The first numbers are finitely many.
LEMMA FirstFinite ==
  ASSUME NEW k \in Nat
  PROVE  IsFiniteSet(1 .. k) /\ 1 .. k \in SUBSET Int /\ 1 .. k \subseteq Int
<1>1. 1 \in Int /\ k \in Int
  OBVIOUS
<1>2. IsFiniteSet(1 .. k)
  BY <1>1, FS_Interval
<1> QED
  BY <1>2

\* The community module's recursion is the one Gathers states.
Uses == [spec : Specs, strength : Int]
Prefixed(request, n, k) == (CHOOSE g : Gathers(request, n, 1 .. k, g))[1 .. k]

LEMMA ContributionsGather ==
  ASSUME NEW request \in Seq(Uses), NEW n
  PROVE  Contributions(request, n) = Prefixed(request, n, Len(request))
<1> DEFINE D == DOMAIN request
<1>1. D = 1 .. Len(request) /\ Len(request) \in Nat
  OBVIOUS
<1>2. Contributions(request, n) =
        (CHOOSE g : g = [U \in SUBSET D |-> IF U = {} THEN NoContributions
             ELSE IF request[Max(U)] \in Adapters(request) /\ n \in Targets(request[Max(U)].spec)
                  THEN Add(g[U \ {Max(U)}], n, request[Max(U)]) ELSE g[U \ {Max(U)}]])[D]
  BY DEF Contributions, FoldLeft, MapThenFoldSet
<1>3. \A i \in D : request[i] \in Adapters(request) <=> request[i].strength # 0
  BY DEF Adapters, ToSet
<1>4. \A U \in SUBSET D : U # {} => Max(U) \in D
  <2>1. ASSUME NEW U \in SUBSET D, U # {}
        PROVE  Max(U) \in D
    <3>1. U \in SUBSET Int /\ IsFiniteSet(1 .. Len(request)) /\ U \in SUBSET (1 .. Len(request))
      BY <1>1, <2>1, FirstFinite
    <3>2. IsFiniteSet(U)
      BY <3>1, FS_Subset
    <3> QED
      BY <2>1, <3>1, <3>2, MaxOf
  <2> QED
    BY <2>1
<1>5. \A g : (g = [U \in SUBSET D |-> IF U = {} THEN NoContributions
             ELSE IF request[Max(U)] \in Adapters(request) /\ n \in Targets(request[Max(U)].spec)
                  THEN Add(g[U \ {Max(U)}], n, request[Max(U)]) ELSE g[U \ {Max(U)}]])
        <=> Gathers(request, n, D, g)
  <2> HIDE DEF D
  <2>1. \A g : \A U \in SUBSET D :
          (IF U = {} THEN NoContributions
             ELSE IF request[Max(U)] \in Adapters(request) /\ n \in Targets(request[Max(U)].spec)
                  THEN Add(g[U \ {Max(U)}], n, request[Max(U)]) ELSE g[U \ {Max(U)}])
          = IF U = {} THEN NoContributions ELSE Gathering(request, n, Max(U), g[U \ {Max(U)}])
    BY <1>3, <1>4 DEF Gathering, Counts
  <2> QED
    BY <2>1 DEF Gathers
<1>6. Contributions(request, n) = (CHOOSE g : Gathers(request, n, D, g))[D]
  BY <1>2, <1>5
<1> QED
  BY <1>1, <1>6 DEF Prefixed

\* The first adapters of a request, one at a time.
LEMMA PrefixedSteps ==
  ASSUME NEW request, NEW n, NEW k \in Nat
  PROVE  /\ Prefixed(request, n, 0) = NoContributions
         /\ Prefixed(request, n, k + 1) = Gathering(request, n, k + 1, Prefixed(request, n, k))
<1>1. ASSUME NEW j \in Nat
      PROVE  Gathers(request, n, 1 .. j, CHOOSE g : Gathers(request, n, 1 .. j, g))
  <2>1. IsFiniteSet(1 .. j) /\ 1 .. j \subseteq Int
    BY FirstFinite
  <2>2. \E g : Gathers(request, n, 1 .. j, g)
    BY <2>1, GathersExists
  <2> QED
    BY <2>2
<1> DEFINE g(j) == CHOOSE g : Gathers(request, n, 1 .. j, g)
           m == k + 1
<1>2. Prefixed(request, n, 0) = NoContributions
  <2>1. Gathers(request, n, 1 .. 0, g(0))
    BY <1>1
  <2>2. 1 .. 0 = {}
    OBVIOUS
  <2> HIDE DEF g
  <2>3. g(0)[1 .. 0] = NoContributions
    BY <2>1, <2>2 DEF Gathers
  <2> QED
    BY <2>3 DEF Prefixed, g
<1>3. Gathers(request, n, 1 .. k, g(k)) /\ Gathers(request, n, 1 .. m, g(m))
  BY <1>1
<1> HIDE DEF g
<1>4. 1 .. m # {} /\ 1 .. m \in SUBSET Int /\ IsFiniteSet(1 .. m) /\ IsFiniteSet(1 .. k) /\ 1 .. k \subseteq Int
  <2>1. m \in Nat /\ 1 \in 1 .. m
    OBVIOUS
  <2> HIDE DEF m
  <2> QED
    BY <2>1, FirstFinite
<1>5. Max(1 .. m) = m
  <2>1. Max(1 .. m) \in 1 .. m /\ \A y \in 1 .. m : y <= Max(1 .. m)
    BY <1>4, MaxOf
  <2>2. m \in 1 .. m
    OBVIOUS
  <2> HIDE DEF m
  <2>3. m <= Max(1 .. m) /\ Max(1 .. m) <= m /\ m \in Int /\ Max(1 .. m) \in Int
    BY <2>1, <2>2
  <2> QED
    BY <2>3
<1>6. (1 .. m) \ {m} = 1 .. k /\ 1 .. k \in SUBSET (1 .. m)
  OBVIOUS
<1> HIDE DEF m
<1>7. Gathers(request, n, 1 .. k, [U \in SUBSET (1 .. k) |-> g(m)[U]])
  <2> DEFINE T == 1 .. m
             W == 1 .. k
             h == g(m)
  <2>1. Gathers(request, n, T, h) /\ W \in SUBSET T
    BY <1>3, <1>6
  <2> HIDE DEF T, W, h
  <2>2. Gathers(request, n, W, [U \in SUBSET W |-> h[U]])
    BY <2>1, GathersRestricts
  <2> QED
    BY <2>2 DEF W, h
<1>8. g(k) = [U \in SUBSET (1 .. k) |-> g(m)[U]]
  BY <1>3, <1>4, <1>7, GathersUnique
<1>9. g(m)[1 .. k] = g(k)[1 .. k]
  BY <1>8
<1>10. g(m)[1 .. m] = Gathering(request, n, m, g(m)[1 .. k])
  BY <1>3, <1>4, <1>5, <1>6 DEF Gathers
<1>11. Prefixed(request, n, m) = Gathering(request, n, m, Prefixed(request, n, k))
  BY <1>9, <1>10 DEF Prefixed, g
<1> QED
  BY <1>2, <1>11 DEF m

-----------------------------------------------------------------------------
(* What the folded contributions are *)

Strengths(request) == [i \in DOMAIN request |-> request[i].strength]
DeltasTo(request, n, k, s) ==
  {i \in 1 .. k : Counts(request, n, i) /\ n \in DeltaTargets(request[i].spec) /\ request[i].spec = s}
ValuesTo(request, n, k) == {i \in 1 .. k : Counts(request, n, i) /\ n \notin DeltaTargets(request[i].spec)}

ContributionSet ==
  [ups : [Specs -> Int], from : SUBSET Specs, lora : BOOLEAN, dense : BOOLEAN, values : Seq(Uses), requires_base : BOOLEAN]

Grouped(request, n, k, c) ==
  /\ c \in ContributionSet
  /\ \A s \in Specs : c.ups[s] = Sum(Strengths(request), DeltasTo(request, n, k, s))
  /\ c.values = <<>> <=> ValuesTo(request, n, k) = {}
  /\ Len(c.values) = 1 => \E i \in 1 .. k : ValuesTo(request, n, k) = {i} /\ Head(c.values) = request[i]

LEMMA GroupedNone ==
  ASSUME NEW request \in Seq(Uses), NEW n
  PROVE  Grouped(request, n, 0, NoContributions)
<1>1. NoContributions \in ContributionSet
  BY DEF NoContributions, ContributionSet, NoDeltas
<1>2. 1 .. 0 = {}
  OBVIOUS
<1>3. \A s \in Specs : NoContributions.ups[s] = Sum(Strengths(request), DeltasTo(request, n, 0, s))
  <2>1. ASSUME NEW s \in Specs
        PROVE  DeltasTo(request, n, 0, s) = {}
    BY <1>2 DEF DeltasTo
  <2>2. \A s \in Specs : NoContributions.ups[s] = 0
    BY DEF NoContributions, NoDeltas
  <2> QED
    BY <2>1, <2>2, SumEmpty
<1>4. NoContributions.values = <<>> /\ ValuesTo(request, n, 0) = {} /\ Len(NoContributions.values) # 1
  BY <1>2 DEF NoContributions, ValuesTo
<1> QED
  BY <1>1, <1>3, <1>4 DEF Grouped

LEMMA GroupedMore ==
  ASSUME NEW request \in Seq(Uses), NEW n, NEW k \in Nat, k + 1 <= Len(request), NEW c,
         Grouped(request, n, k, c)
  PROVE  Grouped(request, n, k + 1, Gathering(request, n, k + 1, c))
<1> DEFINE m == k + 1
           a == request[m]
           d == Gathering(request, n, m, c)
           f == Strengths(request)
<1>1. m \in 1 .. Len(request) /\ a \in Uses /\ m \notin 1 .. k /\ 1 .. m = 1 .. k \cup {m} /\ m \in 1 .. m
  OBVIOUS
<1>2. a.spec \in Specs /\ a.strength \in Int
  BY <1>1 DEF Uses
<1>3. /\ c \in ContributionSet
      /\ \A s \in Specs : c.ups[s] = Sum(f, DeltasTo(request, n, k, s))
      /\ c.values = <<>> <=> ValuesTo(request, n, k) = {}
      /\ Len(c.values) = 1 => \E i \in 1 .. k : ValuesTo(request, n, k) = {i} /\ Head(c.values) = request[i]
  BY DEF Grouped
<1>4. \A i \in 1 .. m : f[i] \in Int
  <2>1. \A i \in 1 .. m : i \in DOMAIN request /\ request[i] \in Uses
    BY <1>1
  <2> QED
    BY <2>1 DEF Strengths, Uses
<1>5. f[m] = a.strength
  BY <1>1 DEF Strengths
<1> HIDE DEF m, f
<1>6. \A s : DeltasTo(request, n, m, s) =
         IF Counts(request, n, m) /\ n \in DeltaTargets(a.spec) /\ a.spec = s
         THEN DeltasTo(request, n, k, s) \cup {m} ELSE DeltasTo(request, n, k, s)
  BY <1>1 DEF DeltasTo
<1>7. ValuesTo(request, n, m) =
         IF Counts(request, n, m) /\ n \notin DeltaTargets(a.spec)
         THEN ValuesTo(request, n, k) \cup {m} ELSE ValuesTo(request, n, k)
  BY <1>1 DEF ValuesTo
<1>8. CASE ~Counts(request, n, m)
  <2>1. d = c
    BY <1>8 DEF Gathering
  <2>2. /\ \A s : DeltasTo(request, n, m, s) = DeltasTo(request, n, k, s)
        /\ ValuesTo(request, n, m) = ValuesTo(request, n, k)
    BY <1>6, <1>7, <1>8
  <2> HIDE DEF d
  <2>3. Len(c.values) = 1 => \E i \in 1 .. m : ValuesTo(request, n, m) = {i} /\ Head(c.values) = request[i]
    BY <1>1, <1>3, <2>2
  <2>4. Grouped(request, n, m, c)
    BY <1>3, <2>2, <2>3 DEF Grouped, f
  <2> QED
    BY <2>1, <2>4 DEF d, m
<1>9. CASE Counts(request, n, m) /\ n \in DeltaTargets(a.spec)
  <2>1. d = [c EXCEPT !.ups[a.spec] = @ + a.strength, !.from = @ \cup {a.spec},
                   !.lora = @ \/ n \in Part(a.spec, "A"),
                   !.dense = @ \/ n \in Part(a.spec, "delta"),
                   !.requires_base = @ \/ ~Source[a.spec].partial]
    BY <1>9 DEF Gathering, Add
  <2>2. c.ups \in [Specs -> Int] /\ c.values \in Seq(Uses)
    BY <1>3 DEF ContributionSet
  <2>10. /\ c.from \in SUBSET Specs /\ c.lora \in BOOLEAN /\ c.dense \in BOOLEAN /\ c.requires_base \in BOOLEAN
         /\ c = [ups |-> c.ups, from |-> c.from, lora |-> c.lora, dense |-> c.dense, values |-> c.values,
                 requires_base |-> c.requires_base]
    BY <1>3 DEF ContributionSet
  <2>11. c.from \cup {a.spec} \in SUBSET Specs
    BY <1>2, <2>10
  <2> HIDE DEF a
  <2>3. /\ d.ups = [c.ups EXCEPT ![a.spec] = @ + a.strength] /\ d.values = c.values
        /\ d.lora \in BOOLEAN /\ d.dense \in BOOLEAN /\ d.requires_base \in BOOLEAN
        /\ d.from \in SUBSET Specs
        /\ d = [ups |-> d.ups, from |-> d.from, lora |-> d.lora, dense |-> d.dense, values |-> d.values,
                requires_base |-> d.requires_base]
    <3> DEFINE e == [ups |-> [c.ups EXCEPT ![a.spec] = @ + a.strength], from |-> c.from \cup {a.spec},
                     lora |-> c.lora \/ n \in Part(a.spec, "A"), dense |-> c.dense \/ n \in Part(a.spec, "delta"),
                     values |-> c.values, requires_base |-> c.requires_base \/ ~Source[a.spec].partial]
    <3>1. d = e
      BY <2>1, <2>10
    <3> HIDE DEF d
    <3> QED
      BY <2>10, <2>11, <3>1
  <2> HIDE DEF d
  <2>4. d \in ContributionSet
    <3>1. d.ups \in [Specs -> Int]
      BY <1>2, <2>2, <2>3
    <3> QED
      BY <2>2, <2>3, <3>1 DEF ContributionSet
  <2>5. ASSUME NEW s \in Specs
        PROVE  d.ups[s] = Sum(f, DeltasTo(request, n, m, s))
    <3>1. CASE s = a.spec
      <4> DEFINE D == DeltasTo(request, n, k, s)
      <4>1. IsFiniteSet(D) /\ m \notin D /\ \A i \in D \cup {m} : f[i] \in Int
        <5>1. D \in SUBSET (1 .. k) /\ IsFiniteSet(1 .. k)
          BY FirstFinite DEF DeltasTo
        <5>2. IsFiniteSet(D)
          BY <5>1, FS_Subset
        <5> QED
          BY <1>1, <1>4, <5>1, <5>2
      <4>2. DeltasTo(request, n, m, s) = D \cup {m}
        BY <1>6, <1>9, <3>1
      <4> HIDE DEF D
      <4>3. Sum(f, D \cup {m}) = Sum(f, D) + f[m]
        BY <4>1, SumAdd
      <4>4. d.ups[s] = c.ups[s] + a.strength
        BY <2>2, <2>3, <3>1
      <4>5. c.ups[s] = Sum(f, D)
        BY <1>3 DEF D
      <4> QED
        BY <1>5, <4>2, <4>3, <4>4, <4>5
    <3>2. CASE s # a.spec
      <4>1. d.ups[s] = c.ups[s]
        BY <1>2, <2>2, <2>3, <3>2
      <4>2. DeltasTo(request, n, m, s) = DeltasTo(request, n, k, s)
        BY <1>6, <3>2
      <4> QED
        BY <1>3, <4>1, <4>2
    <3> QED
      BY <3>1, <3>2
  <2>6. ValuesTo(request, n, m) = ValuesTo(request, n, k)
    BY <1>7, <1>9
  <2>7. Len(d.values) = 1 => \E i \in 1 .. m : ValuesTo(request, n, m) = {i} /\ Head(d.values) = request[i]
    BY <1>1, <1>3, <2>3, <2>6
  <2>8. d.values = <<>> <=> ValuesTo(request, n, m) = {}
    BY <1>3, <2>3, <2>6
  <2>9. Grouped(request, n, m, d)
    BY <2>4, <2>5, <2>7, <2>8 DEF Grouped, f
  <2> QED
    BY <2>9 DEF d, m
<1>10. CASE Counts(request, n, m) /\ n \notin DeltaTargets(a.spec)
  <2>1. d = [c EXCEPT !.values = Append(@, a)]
    BY <1>10 DEF Gathering, Add
  <2>2. c.ups \in [Specs -> Int] /\ c.values \in Seq(Uses)
    BY <1>3 DEF ContributionSet
  <2>3. /\ d.ups = c.ups /\ d.values = Append(c.values, a)
        /\ d.lora \in BOOLEAN /\ d.dense \in BOOLEAN /\ d.requires_base \in BOOLEAN
        /\ d.from \in SUBSET Specs
        /\ d = [ups |-> d.ups, from |-> d.from, lora |-> d.lora, dense |-> d.dense, values |-> d.values,
                requires_base |-> d.requires_base]
    BY <1>3, <2>1 DEF ContributionSet
  <2> HIDE DEF d
  <2>4. d.values \in Seq(Uses) /\ d.values # <<>> /\ Len(d.values) = Len(c.values) + 1 /\ Len(c.values) \in Nat
    BY <1>1, <2>2, <2>3
  <2>5. d \in ContributionSet
    BY <2>2, <2>3, <2>4 DEF ContributionSet
  <2>6. \A s \in Specs : d.ups[s] = Sum(f, DeltasTo(request, n, m, s))
    BY <1>3, <1>6, <1>10, <2>3
  <2>7. ValuesTo(request, n, m) = ValuesTo(request, n, k) \cup {m}
    BY <1>7, <1>10
  <2>8. ASSUME Len(d.values) = 1
        PROVE  \E i \in 1 .. m : ValuesTo(request, n, m) = {i} /\ Head(d.values) = request[i]
    <3>1. c.values = <<>>
      BY <2>2, <2>4, <2>8
    <3>2. ValuesTo(request, n, m) = {m}
      BY <1>3, <2>7, <3>1
    <3>3. Head(d.values) = a
      BY <1>1, <2>3, <3>1
    <3> QED
      BY <1>1, <3>2, <3>3
  <2>9. Grouped(request, n, m, d)
    BY <2>4, <2>5, <2>6, <2>7, <2>8 DEF Grouped, f
  <2> QED
    BY <2>9 DEF d, m
<1> QED
  BY <1>8, <1>9, <1>10

\* The contributions to a name: the sums of its deltas, and its value.
LEMMA ContributionsGrouped ==
  ASSUME NEW request \in Seq(Uses), NEW n
  PROVE  Grouped(request, n, Len(request), Contributions(request, n))
<1> DEFINE L == Len(request)
           B == {k \in 0 .. L : ~Grouped(request, n, k, Prefixed(request, n, k))}
<1>1. L \in Nat
  OBVIOUS
<1>2. ASSUME B # {}
      PROVE  FALSE
  <2> DEFINE k == Min(B)
  <2>1. k \in B /\ \A j \in B : k <= j
    <3>1. B \in SUBSET (0 .. L)
      OBVIOUS
    <3> HIDE DEF B, L
    <3> QED
      BY <1>1, <1>2, <3>1, MinLeast
  <2> HIDE DEF k
  <2>2. Prefixed(request, n, 0) = NoContributions
    BY PrefixedSteps
  <2>3. k # 0
    BY <2>1, <2>2, GroupedNone
  <2> DEFINE j == k - 1
  <2>4. j \in Nat /\ j + 1 = k /\ j \in 0 .. L /\ j \notin B /\ j + 1 <= L
    BY <1>1, <2>1, <2>3
  <2>5. Grouped(request, n, j, Prefixed(request, n, j))
    BY <2>4
  <2>6. Prefixed(request, n, j + 1) = Gathering(request, n, j + 1, Prefixed(request, n, j))
    BY <2>4, PrefixedSteps
  <2> HIDE DEF j
  <2>7. Grouped(request, n, j + 1, Prefixed(request, n, j + 1))
    BY <2>4, <2>5, <2>6, GroupedMore
  <2> QED
    BY <2>1, <2>4, <2>7
<1>3. Grouped(request, n, L, Prefixed(request, n, L))
  BY <1>1, <1>2
<1> QED
  BY <1>3, ContributionsGather

-----------------------------------------------------------------------------
(* An update applied is what the request asks for *)

Froms == ({"model"} \X Names) \cup ({"value"} \X Specs) \cup {None}
Contents == [from : Froms, scale : Int, ups : [Specs -> Int], steps : Nat]

Right(request) == request \in Seq(Uses) /\ \A a \in ToSet(request) : Builds(a.spec)

\* What is asked of some names, of which the request updates no other than n.
Alone(request, A, n) == n \in A /\ A \subseteq Names /\ Updated(request) \cap A \subseteq {n}

Summed(request, A, s) == {i \in Asks(request, A) \ Gives(request, A) : request[i].spec = s}

LEMMA StrengthIsSum ==
  ASSUME NEW request \in Seq(Uses), NEW A, NEW s
  PROVE  /\ Strength(request, A, s) = Sum(Strengths(request), Summed(request, A, s))
         /\ Strength(request, A, s) \in Int
<1> DEFINE S == Summed(request, A, s)
           f == Strengths(request)
<1>1. S \in SUBSET DOMAIN request /\ IsFiniteSet(S) /\ \A i \in S : f[i] = request[i].strength /\ f[i] \in Int
  <2>1. S \in SUBSET DOMAIN request
    BY DEF Summed, Asks
  <2>2. DOMAIN request = 1 .. Len(request) /\ Len(request) \in Nat
    OBVIOUS
  <2>3. IsFiniteSet(S)
    <3>1. IsFiniteSet(DOMAIN request)
      BY <2>2, FirstFinite
    <3> QED
      BY <2>1, <3>1, FS_Subset
  <2>4. ASSUME NEW i \in DOMAIN request
        PROVE  f[i] = request[i].strength /\ f[i] \in Int
    <3>1. request[i] \in Uses
      OBVIOUS
    <3> QED
      BY <3>1 DEF Strengths, Uses
  <2> QED
    BY <2>1, <2>3, <2>4
<1>2. Strength(request, A, s) = MapThenSumSet(LAMBDA i : request[i].strength, S)
  BY DEF Strength, Summed
<1>3. MapThenSumSet(LAMBDA i : request[i].strength, S) =
        (CHOOSE g : g = [U \in SUBSET S |-> IF U = {} THEN 0 ELSE request[NextOf(U)].strength + g[U \ {NextOf(U)}]])[S]
  BY DEF MapThenSumSet, MapThenFoldSet, NextOf
<1> HIDE DEF S, f
<1>4. \A g : (g = [U \in SUBSET S |-> IF U = {} THEN 0 ELSE request[NextOf(U)].strength + g[U \ {NextOf(U)}]])
             <=> Adds(f, S, g)
  <2>1. \A g : \A U \in SUBSET S :
          (IF U = {} THEN 0 ELSE request[NextOf(U)].strength + g[U \ {NextOf(U)}])
          = IF U = {} THEN 0 ELSE f[NextOf(U)] + g[U \ {NextOf(U)}]
    BY <1>1, NextOfIn
  <2> QED
    BY <2>1 DEF Adds
<1>5. Strength(request, A, s) = (CHOOSE g : Adds(f, S, g))[S]
  BY <1>2, <1>3, <1>4
<1>6. Strength(request, A, s) = Sum(f, S)
  BY <1>5, SumIsAdds
<1>7. Sum(f, S) \in Int
  BY <1>1, SumType
<1> QED
  BY <1>6, <1>7 DEF f, S

\* Among such names the request asks what it asks of n.
LEMMA AskedAlone ==
  ASSUME NEW request, Right(request), NEW A, NEW n, Alone(request, A, n)
  PROVE  /\ Gives(request, A) = ValuesTo(request, n, Len(request))
         /\ \A s : Summed(request, A, s) = DeltasTo(request, n, Len(request), s)
         /\ Asks(request, A) # {} => n \in Updated(request)
<1>1. DOMAIN request = 1 .. Len(request) /\ \A i \in DOMAIN request : request[i] \in ToSet(request) /\ Builds(request[i].spec)
  BY DEF Right, ToSet
<1>2. ASSUME NEW i \in DOMAIN request, request[i].strength # 0, NEW m \in Targets(request[i].spec) \cap A
      PROVE  m = n /\ n \in Updated(request)
  <2>1. m \in Updated(request)
    BY <1>1, <1>2 DEF Updated, Adapters, Alone
  <2> QED
    BY <2>1 DEF Alone
<1>3. n \in A
  BY DEF Alone
<1>4. \A i \in DOMAIN request : i \in Asks(request, A) <=> Counts(request, n, i)
  BY <1>2, <1>3 DEF Asks, Counts
<1>5. \A i \in DOMAIN request : DeltaTargets(request[i].spec) \cap Part(request[i].spec, "value") = {}
  BY <1>1 DEF Builds
<1>6. \A i \in DOMAIN request : i \in Gives(request, A) <=> Counts(request, n, i) /\ n \in Part(request[i].spec, "value")
  <2>1. \A i \in DOMAIN request : Part(request[i].spec, "value") \subseteq Targets(request[i].spec)
    BY DEF Targets
  <2>2. \A i \in DOMAIN request : i \in Gives(request, A) <=> i \in Asks(request, A) /\ Part(request[i].spec, "value") \cap A # {}
    BY DEF Gives
  <2>3. \A i \in Asks(request, A) : i \in DOMAIN request /\ request[i].strength # 0
    BY DEF Asks
  <2> QED
    BY <1>2, <1>3, <1>4, <2>1, <2>2, <2>3
<1>7. \A i \in DOMAIN request : Counts(request, n, i) =>
         (n \in Part(request[i].spec, "value") <=> n \notin DeltaTargets(request[i].spec))
  BY <1>5 DEF Counts, Targets
<1>8. Gives(request, A) \subseteq DOMAIN request /\ Asks(request, A) \subseteq DOMAIN request
  BY DEF Gives, Asks
<1>9. Gives(request, A) = ValuesTo(request, n, Len(request))
  BY <1>1, <1>6, <1>7, <1>8 DEF ValuesTo
<1>10. ASSUME NEW s
       PROVE  Summed(request, A, s) = DeltasTo(request, n, Len(request), s)
  <2>1. \A i \in DOMAIN request : i \in Asks(request, A) \ Gives(request, A) <=>
           Counts(request, n, i) /\ n \in DeltaTargets(request[i].spec)
    BY <1>4, <1>6, <1>7
  <2> QED
    BY <1>1, <1>8, <2>1 DEF Summed, DeltasTo
<1>11. Asks(request, A) # {} => n \in Updated(request)
  BY <1>2 DEF Asks
<1> QED
  BY <1>9, <1>10, <1>11

\* The plan of a name applied to its content.
Base(p, content) == IF p.value # NoSpec THEN ValueOf(p.value) ELSE content

LEMMA AppliedIsAfter ==
  ASSUME NEW request, Right(request), Groups(request),
         NEW A, NEW n, Alone(request, A, n), NEW content \in Contents
  PROVE  /\ PlanOf(request, n).value # NoSpec <=> Gives(request, A) # {}
         /\ Contributions(request, n).values # <<>> <=> Gives(request, A) # {}
         /\ PlanOf(request, n).value \in Specs \cup {NoSpec}
         /\ Apply(PlanOf(request, n), Base(PlanOf(request, n), content)) = After(content, request, A)
         /\ After(content, request, A) \in Contents
         /\ After(content, request, A).steps = IF Gives(request, A) = {} THEN content.steps ELSE 0
<1> DEFINE c == Contributions(request, n)
           p == PlanOf(request, n)
           L == Len(request)
           given == c.values # <<>>
<1>1. request \in Seq(Uses) /\ n \in Names
  BY DEF Right, Alone
<1>2. /\ c \in ContributionSet
      /\ \A s \in Specs : c.ups[s] = Sum(Strengths(request), DeltasTo(request, n, L, s))
      /\ c.values = <<>> <=> ValuesTo(request, n, L) = {}
      /\ Len(c.values) = 1 => \E i \in 1 .. L : ValuesTo(request, n, L) = {i} /\ Head(c.values) = request[i]
  BY <1>1, ContributionsGrouped DEF Grouped
<1>3. /\ Gives(request, A) = ValuesTo(request, n, L)
      /\ \A s : Summed(request, A, s) = DeltasTo(request, n, L, s)
      /\ Asks(request, A) # {} => n \in Updated(request)
  BY AskedAlone
<1>4. p = [value |-> IF given THEN Head(c.values).spec ELSE NoSpec,
           scale |-> IF given /\ Source[Head(c.values).spec].scales THEN Head(c.values).strength ELSE 1,
           ups |-> c.ups, from |-> c.from, lora |-> c.lora, dense |-> c.dense]
  BY DEF PlanOf, Plan
<1> HIDE DEF c, p, L
<1>5. given => Len(c.values) = 1
  <2>1. c.values \in Seq(Uses)
    BY <1>2 DEF ContributionSet
  <2>2. ASSUME given
        PROVE  Len(c.values) <= 1
    <3>1. Gives(request, A) # {} /\ Gives(request, A) \subseteq Asks(request, A)
      BY <1>2, <1>3, <2>2 DEF Gives
    <3>2. n \in Updated(request)
      BY <1>3, <3>1
    <3> QED
      BY <3>2 DEF Groups, c
  <2>3. Len(c.values) \in Nat /\ (Len(c.values) = 0 => c.values = <<>>)
    BY <2>1, EmptySeq
  <2> DEFINE l == Len(c.values)
  <2>4. (given => l <= 1) /\ l \in Nat /\ (given => l # 0)
    BY <2>2, <2>3
  <2> HIDE DEF l, given
  <2>5. given => l = 1
    BY <2>4
  <2> QED
    BY <2>5 DEF l
<1>6. \A s \in Specs : c.ups[s] = Strength(request, A, s) /\ Strength(request, A, s) \in Int
  BY <1>1, <1>2, <1>3, StrengthIsSum
<1> DEFINE i == CHOOSE j \in Gives(request, A) : TRUE
           a == request[i]
           scale == IF Gives(request, A) # {} /\ Source[a.spec].scales THEN a.strength ELSE 1
           base == IF Gives(request, A) # {} THEN ValueOf(a.spec) ELSE content
<1>7. given <=> Gives(request, A) # {}
  BY <1>2, <1>3
<1>8. given => Head(c.values) = a /\ a \in Uses
  <2>1. ASSUME given
        PROVE  Head(c.values) = a /\ a \in Uses
    <3>1. PICK j \in 1 .. L : ValuesTo(request, n, L) = {j} /\ Head(c.values) = request[j]
      BY <1>2, <1>5, <2>1
    <3>2. Gives(request, A) = {j}
      BY <1>3, <3>1
    <3>3. i = j
      BY <3>2
    <3>4. request[j] \in Uses
      BY <1>1 DEF L
    <3> QED
      BY <3>1, <3>3, <3>4
  <2> QED
    BY <2>1
<1>9. After(content, request, A) =
        [base EXCEPT !.scale = @ * scale, !.ups = [s \in Specs |-> @[s] * scale + Strength(request, A, s)]]
  BY DEF After
<1> HIDE DEF i
<1>10. p.scale = scale /\ scale \in Int /\ p.ups = c.ups
  BY <1>4, <1>7, <1>8 DEF Uses
<1>11. Base(p, content) = base
  <2>1. CASE given
    <3>1. p.value = a.spec /\ a.spec \in Specs
      BY <1>4, <1>8, <2>1 DEF Uses
    <3> QED
      BY <1>7, <2>1, <3>1, NoSpecAssumption DEF Base
  <2>2. CASE ~given
    BY <1>4, <1>7, <2>2 DEF Base
  <2> QED
    BY <2>1, <2>2
<1>12. base \in Contents
  <2>1. CASE given
    <3>1. a.spec \in Specs
      BY <1>8, <2>1 DEF Uses
    <3> HIDE DEF a
    <3>2. ValueOf(a.spec) \in Contents
      BY <3>1 DEF ValueOf, Pristine, NoDeltas, Contents, Froms
    <3> QED
      BY <1>7, <2>1, <3>2 DEF a
  <2>2. CASE ~given
    BY <1>7, <2>2
  <2> QED
    BY <2>1, <2>2
<1>13. p.value \in Specs \cup {NoSpec} /\ (p.value # NoSpec <=> given)
  BY <1>4, <1>8, NoSpecAssumption DEF Uses
<1> HIDE DEF scale
<1>18. base.steps = IF Gives(request, A) = {} THEN content.steps ELSE 0
  BY DEF ValueOf, Pristine
<1> HIDE DEF base, a, given
<1>14. Apply(p, base) = [base EXCEPT !.scale = @ * scale, !.ups = [s \in Specs |-> @[s] * scale + c.ups[s]]]
  BY <1>10 DEF Apply
<1>15. Apply(p, base) = After(content, request, A)
  <2>1. [s \in Specs |-> base.ups[s] * scale + c.ups[s]] = [s \in Specs |-> base.ups[s] * scale + Strength(request, A, s)]
    BY <1>6
  <2> QED
    BY <1>9, <1>12, <1>14, <2>1 DEF Contents
<1>16. After(content, request, A) \in Contents
  <2>1. base.scale * scale \in Int
    BY <1>10, <1>12 DEF Contents
  <2>2. [s \in Specs |-> base.ups[s] * scale + Strength(request, A, s)] \in [Specs -> Int]
    BY <1>6, <1>10, <1>12 DEF Contents
  <2> QED
    BY <1>9, <1>12, <2>1, <2>2 DEF Contents
<1>17. After(content, request, A).steps = IF Gives(request, A) = {} THEN content.steps ELSE 0
  BY <1>9, <1>12, <1>18 DEF Contents
<1> QED
  BY <1>7, <1>11, <1>13, <1>15, <1>16, <1>17 DEF p, c, given

\* A request that updates none of some names asks nothing of them.
LEMMA AfterNothing ==
  ASSUME NEW request \in Seq(Uses), NEW A \in SUBSET Names, Updated(request) \cap A = {}, NEW content \in Contents
  PROVE  /\ Gives(request, A) = {}
         /\ After(content, request, A) = content
<1>1. Asks(request, A) = {}
  BY DEF Asks, Updated, Adapters, ToSet
<1>2. Gives(request, A) = {}
  BY <1>1 DEF Gives
<1>3. ASSUME NEW s
      PROVE  Strength(request, A, s) = 0
  <2>1. Summed(request, A, s) = {}
    BY <1>1 DEF Summed
  <2> QED
    BY <2>1, StrengthIsSum, SumEmpty
<1>4. After(content, request, A) =
        [content EXCEPT !.scale = @ * 1, !.ups = [s \in Specs |-> @[s] * 1 + Strength(request, A, s)]]
  BY <1>2 DEF After
<1>5. content.scale * 1 = content.scale
  BY DEF Contents
<1>6. [s \in Specs |-> content.ups[s] * 1 + Strength(request, A, s)] = content.ups
  BY <1>3 DEF Contents
<1>7. After(content, request, A) = content
  BY <1>4, <1>5, <1>6 DEF Contents
<1> QED
  BY <1>2, <1>7

\* No update at all.
LEMMA NoPlanIsNothing ==
  ASSUME NEW content \in Contents
  PROVE  Apply(NoPlan, content) = content /\ NoPlan.value = NoSpec
<1>1. NoPlan.scale = 1 /\ NoPlan.ups = NoDeltas /\ NoPlan.value = NoSpec
  BY DEF NoPlan, Plan, NoContributions
<1>2. content.scale * 1 = content.scale /\ [s \in Specs |-> content.ups[s] * 1 + NoDeltas[s]] = content.ups
  BY DEF Contents, NoDeltas
<1> QED
  BY <1>1, <1>2 DEF Apply, Contents

\* The residual that routed adapters add to one name.
LEMMA RoutedIsAfter ==
  ASSUME NEW request, Right(request), Groups(request), NEW n \in Names,
         Contributions(request, n).values = <<>>, NEW content \in Contents
  PROVE  /\ Gives(request, {n}) = {}
         /\ [content EXCEPT !.ups = [s \in Specs |-> @[s] + Contributions(request, n).ups[s]]] = After(content, request, {n})
<1>1. Alone(request, {n}, n)
  BY DEF Alone
<1>2. Gives(request, {n}) = {}
  BY <1>1, AppliedIsAfter
<1>3. request \in Seq(Uses)
  BY DEF Right
<1>4. \A s \in Specs : Contributions(request, n).ups[s] = Strength(request, {n}, s) /\ Strength(request, {n}, s) \in Int
  BY <1>1, <1>3, ContributionsGrouped, AskedAlone, StrengthIsSum DEF Grouped
<1>5. After(content, request, {n}) =
        [content EXCEPT !.scale = @ * 1, !.ups = [s \in Specs |-> @[s] * 1 + Strength(request, {n}, s)]]
  BY <1>2 DEF After
<1>6. content.scale * 1 = content.scale
  BY DEF Contents
<1>7. [s \in Specs |-> content.ups[s] * 1 + Strength(request, {n}, s)] = [s \in Specs |-> content.ups[s] + Contributions(request, n).ups[s]]
  <2>1. \A s \in Specs : content.ups[s] * 1 = content.ups[s]
    BY DEF Contents
  <2> QED
    BY <1>4, <2>1
<1>8. [content EXCEPT !.ups = [s \in Specs |-> @[s] + Contributions(request, n).ups[s]]] = After(content, request, {n})
  BY <1>5, <1>6, <1>7 DEF Contents
<1> QED
  BY <1>2, <1>8

-----------------------------------------------------------------------------
(* The inductive invariant *)

Own(n) == <<"own", model.wrap[n]>>
Base0(n) == <<"base", model.tie[n]>>
Mapped(byt) == \A n \in model.mapped : byt[Base0(n)] = Pristine(<<"model", model.tie[n]>>)

\* A request that updates each storage under one name.
Distinct1(request) ==
  /\ Right(request) /\ Groups(request)
  /\ \A n, o \in Updated(request) : model.tie[n] = model.tie[o] => n = o

(* While the model is built: which objects the names point at, what each   *)
(* storage holds, and what the operations still to apply will make of it.  *)
Pointed(reg) ==
  \A n \in Names :
    \/ reg[n] = Own(n)
    \/ \E r \in Aliases(n) : reg[n] = <<"copy", r>> /\ \A m \in Aliases(n) : reg[m] = reg[n]
Stored ==
  data = [o \in Writables |->
            IF o[1] = "copy" THEN o ELSE IF o[2] \in model.meta THEN None ELSE <<"base", model.tie[o[2]]>>]
Operation(op) ==
  /\ op.name \in Names /\ op.param = Own(op.name) /\ op.aliases = Aliases(op.name)
  /\ op.plan.value \in Specs \cup {NoSpec}
  /\ op.plan.value # NoSpec <=> Gives(merged, Aliases(op.name)) # {}
  /\ op.plan.value # NoSpec => op.name \in model.meta
  /\ Apply(op.plan, Base(op.plan, Pristine(<<"model", model.tie[op.name]>>))) = Permanently(op.name)
Pending(n) == \E op \in ops : op.name \in Aliases(n)
Waits(n) == registry[n] = Own(n) /\ (n \notin model.meta => bytes[Base0(n)] = Pristine(<<"model", model.tie[n]>>))
Ready(n) ==
  IF Provided(n) THEN Data(registry[n]) # None /\ Shown(n) = Permanently(n) ELSE registry[n] = Own(n)
Building ==
  /\ Pointed(registry) /\ Stored
  /\ merged = <<>> => ops = {} /\ \A n \in Names : Waits(n)
  /\ \A op \in ops : Operation(op)
  /\ \A op, oq \in ops : model.tie[op.name] = model.tie[oq.name] => op = oq
  /\ \A n \in Names : IF Pending(n) THEN Waits(n) ELSE Ready(n)

(* Once it is captured: one HostParam for the names of a storage, and its  *)
(* backing.                                                                *)
Hosted ==
  /\ host \in [Names -> Names] /\ backing \in [Names -> Storages \cup {None}]
  /\ \A n \in Names : host[n] \in Aliases(n)
  /\ \A n, o \in Names : model.tie[n] = model.tie[o] =>
        host[n] = host[o] /\ backing[n] = backing[o] /\ (Trains(n) <=> Trains(o))
  /\ \A n, o \in Names : backing[n] # None /\ backing[n] = backing[o] => model.tie[n] = model.tie[o]
  /\ \A n \in Names :
        /\ backing[n] = None <=> ~Provided(n)
        /\ backing[n][1] # "gpu"
        /\ Trains(n) => backing[n] # None /\ Owned(backing[n])

\* What a session s makes available, and what it shows of a name.
Avail(s, n) == Provided(n) \/ Gives(s.request, Aliases(n)) # {}
Target(s, n) == After(Permanently(n), s.request, IF s.mode = "merge" THEN Aliases(n) ELSE {})

\* What holds of a session that was accepted.
Serving(s) ==
  /\ s \in Sessions /\ Right(s.request) /\ Groups(s.request)
  /\ s.mode = "routed" => \A n \in Updated(s.request) : Contributions(s.request, n).values = <<>>
  /\ s.mode = "merge" =>
        /\ \A n, o \in Updated(s.request) : model.tie[n] = model.tie[o] => n = o
        /\ s.device = "cpu" => Updated(s.request) = {}
        /\ \A n \in Updated(s.request) :
              LET c == Contributions(s.request, n) IN
              IF c.values = <<>> THEN ~Provided(n) => ~c.requires_base ELSE ~Provided(n)

(* The objects of the names when the components acq are acquired: they are *)
(* given as arguments, as are the bytes, to speak of the next state too.   *)
Pointing(s, acq, reg, dat) ==
  /\ reg \in [Names -> Writables \cup ({"cpu", "gpu"} \X Names)]
  /\ dat \in [Writables -> Storages \cup {None}]
  /\ \A n \in Names :
        IF Trains(n)
        THEN /\ reg[n] \in Writables
             /\ dat[reg[n]] = IF n \in NamesOf(acq) THEN <<"gpu", host[n]>> ELSE backing[n]
        ELSE reg[n] = IF n \in NamesOf(acq) /\ Avail(s, n) THEN <<"gpu", host[n]>> ELSE <<"cpu", host[n]>>
  /\ \A n, o \in Names : Trains(n) /\ Trains(o) /\ reg[n] = reg[o] => model.tie[n] = model.tie[o]
Backed(byt, k) ==
  \A n \in Names : Provided(n) =>
    IF Trains(n) THEN byt[backing[n]].steps = k /\ (k = 0 => byt[backing[n]] = Permanently(n))
    ELSE byt[backing[n]] = Permanently(n)
Targeted(s, acq, byt, k) ==
  \A n \in NamesOf(acq) : Avail(s, n) =>
    IF Trains(n) THEN byt[<<"gpu", host[n]>>].steps = k /\ (k = 0 => byt[<<"gpu", host[n]>>] = Target(s, n))
    ELSE byt[<<"gpu", host[n]>>] = Target(s, n)
Captured ==
  /\ Hosted /\ Backed(bytes, steps)
  /\ acquired \subseteq Components
  /\ Pointing(activation, acquired, registry, data) /\ Targeted(activation, acquired, bytes, steps)
  /\ phase = "idle" => acquired = {} /\ activation = NoSession
  /\ phase = "active" => Serving(activation) /\ (activation.device = "cpu" => acquired = {})
  /\ \A n \in Names : routedUps[n] =
        IF phase = "active" /\ activation.mode = "routed" THEN Contributions(activation.request, n).ups ELSE NoDeltas

Closed ==
  ops = {} /\ acquired = {} /\ activation = NoSession /\ merged = <<>> /\ steps = 0
Opening ==
  /\ model \in Models /\ bytes \in [Storages -> Contents] /\ steps \in Nat
  /\ Mapped(bytes) /\ Distinct1(merged)
  /\ phase # "merging" => ops = {}
  /\ phase \in {"loaded", "merging"} =>
        acquired = {} /\ activation = NoSession /\ steps = 0 /\ routedUps = [n \in Names |-> NoDeltas]
ModulesInv ==
  /\ phase \in {"unopened", "loaded", "merging", "idle", "active", "dead"}
  /\ phase = "unopened" => Closed
  /\ phase # "unopened" => Opening
  /\ phase \in {"loaded", "merging"} => Building
  /\ phase \in {"idle", "active"} => Captured

-----------------------------------------------------------------------------
(* What a model's names have in common *)

LEMMA ModelIs ==
  ASSUME model \in Models
  PROVE  /\ WellFormed(model)
         /\ \A n \in Names : model.tie[n] \in Names /\ model.wrap[n] \in Names /\ model.tie[model.wrap[n]] = model.tie[n]
         /\ \A n \in Names : model.wrap[n] \in model.meta <=> n \in model.meta
         /\ \A n, o \in Names : model.wrap[n] = model.wrap[o] => (Trains(n) <=> Trains(o))
<1>1. WellFormed(model)
  BY ModelsAssumption
<1>2. \A n \in Names : model.tie[n] \in Names /\ model.wrap[n] \in Names /\ model.tie[model.wrap[n]] = model.tie[n]
  BY <1>1 DEF WellFormed
<1>3. \A n \in Names : model.wrap[n] \in model.meta <=> n \in model.meta
  BY <1>1, <1>2 DEF WellFormed
<1>4. \A n, o \in Names : model.wrap[n] = model.wrap[o] => (Trains(n) <=> Trains(o))
  BY <1>1 DEF WellFormed, Trains
<1> QED
  BY <1>1, <1>2, <1>3, <1>4

LEMMA AliasesAre ==
  ASSUME NEW n \in Names
  PROVE  /\ Aliases(n) \subseteq Names /\ n \in Aliases(n)
         /\ \A m : m \in Aliases(n) <=> m \in Names /\ model.tie[m] = model.tie[n]
         /\ \A m \in Aliases(n) : Aliases(m) = Aliases(n) /\ m \in Names
BY DEF Aliases

LEMMA AliasesSame ==
  ASSUME NEW n \in Names, NEW o \in Names, model.tie[n] = model.tie[o]
  PROVE  /\ Aliases(n) = Aliases(o)
         /\ model \in Models => Permanently(n) = Permanently(o) /\ (Provided(n) <=> Provided(o))
<1>1. Aliases(n) = Aliases(o)
  BY DEF Aliases
<1>2. ASSUME model \in Models
      PROVE  Permanently(n) = Permanently(o) /\ (Provided(n) <=> Provided(o))
  <2>1. n \in model.meta <=> o \in model.meta
    BY <1>2, ModelIs DEF WellFormed
  <2> QED
    BY <1>1, <2>1 DEF Permanently, Provided
<1> QED
  BY <1>1, <1>2

\* Names of one storage are of one component.
LEMMA TogetherAlways ==
  ASSUME model \in Models, NEW n \in Names, NEW o \in Names, model.tie[n] = model.tie[o], NEW c \in Components
  PROVE  n \in ParamNames(c) <=> o \in ParamNames(c)
<1>1. /\ model.transient \in Seq(SUBSET Names)
      /\ Streams(model, n) <=> Streams(model, o)
      /\ Streams(model, n) => At[n] = At[o]
      /\ \A k \in DOMAIN model.transient : n \in model.transient[k] <=> o \in model.transient[k]
  BY ModelIs DEF WellFormed
<1>2. \A m \in Names : m \in BlockParams <=> Streams(model, m)
  BY DEF BlockParams, InBlocks, Selected, Streams, Trains
<1> DEFINE L == Len(model.transient)
<1>3. DOMAIN model.transient = 1 .. L /\ L \in Nat
  BY <1>1
<1>4. ASSUME NEW k \in 1 .. L + 1
      PROVE  n \in Earlier(k) <=> o \in Earlier(k)
  <2>1. \A j \in 1 .. k - 1 : j \in 1 .. L
    BY <1>3
  <2> QED
    BY <1>1, <1>3, <2>1 DEF Earlier
<1>5. CASE \E k \in DOMAIN BlockIndices : c = <<"block", k>>
  BY <1>1, <1>2, <1>5 DEF ParamNames
<1>6. CASE \E k \in DOMAIN model.transient : c = <<"path", k>>
  <2>1. PICK k \in 1 .. L : c = <<"path", k>>
    BY <1>3, <1>6
  <2>2. k \in 1 .. L + 1
    BY <1>3
  <2> QED
    BY <1>1, <1>2, <1>3, <1>4, <2>1, <2>2 DEF ParamNames
<1>7. CASE c = <<"resident", 0>>
  <2>1. L + 1 \in 1 .. L + 1
    BY <1>3
  <2>2. ParamNames(c) = (Names \ BlockParams) \ Earlier(L + 1)
    BY <1>7 DEF ParamNames
  <2>3. n \in Earlier(L + 1) <=> o \in Earlier(L + 1)
    BY <1>4, <2>1
  <2> HIDE DEF L
  <2>4. n \in BlockParams <=> o \in BlockParams
    BY <1>1, <1>2
  <2> QED
    BY <2>2, <2>3, <2>4
<1> QED
  BY <1>5, <1>6, <1>7 DEF Components

LEMMA ComponentIs ==
  ASSUME model \in Models, NEW n \in Names
  PROVE  /\ ComponentOf(n) \in Components
         /\ \A c \in Components : n \in ParamNames(c) <=> c = ComponentOf(n)
<1>1. PICK c \in Components : \A d \in Components : n \in ParamNames(d) <=> d = c
  BY OneOwnerOf DEF Opened
<1>2. ComponentOf(n) \in Components /\ n \in ParamNames(ComponentOf(n))
  BY <1>1 DEF ComponentOf
<1> QED
  BY <1>1, <1>2

LEMMA ParamNamesIn ==
  ASSUME model \in Models, NEW c \in Components
  PROVE  ParamNames(c) \subseteq Names
<1>1. model.transient \in Seq(SUBSET Names)
  BY ModelIs DEF WellFormed
<1>2. BlockParams \subseteq Names
  BY DEF BlockParams, InBlocks
<1>3. \A k \in DOMAIN model.transient : model.transient[k] \subseteq Names
  BY <1>1
<1> QED
  BY <1>2, <1>3 DEF ParamNames, Components

LEMMA NamesOfAre ==
  ASSUME model \in Models, NEW acq \in SUBSET Components
  PROVE  /\ NamesOf(acq) \subseteq Names
         /\ \A n \in Names : n \in NamesOf(acq) <=> ComponentOf(n) \in acq
         /\ \A n, o \in Names : model.tie[n] = model.tie[o] => (n \in NamesOf(acq) <=> o \in NamesOf(acq))
<1>1. NamesOf(acq) \subseteq Names
  BY ParamNamesIn DEF NamesOf
<1>2. \A n \in Names : n \in NamesOf(acq) <=> ComponentOf(n) \in acq
  BY ComponentIs DEF NamesOf
<1>3. \A n, o \in Names : model.tie[n] = model.tie[o] => (n \in NamesOf(acq) <=> o \in NamesOf(acq))
  BY TogetherAlways DEF NamesOf
<1> QED
  BY <1>1, <1>2, <1>3

\* A request that updates each storage under one name asks it of that name.
LEMMA AsksOfOne ==
  ASSUME NEW request, \A n, o \in Updated(request) : model.tie[n] = model.tie[o] => n = o, NEW n \in Names
  PROVE  \E u \in Aliases(n) : Alone(request, Aliases(n), u) /\ (Updated(request) \cap Aliases(n) # {} => u \in Updated(request))
<1>1. CASE Updated(request) \cap Aliases(n) = {}
  BY <1>1, AliasesAre DEF Alone
<1>2. CASE Updated(request) \cap Aliases(n) # {}
  <2>1. PICK u \in Updated(request) \cap Aliases(n) : TRUE
    BY <1>2
  <2>2. \A m \in Updated(request) \cap Aliases(n) : m = u
    BY <2>1, AliasesAre
  <2>3. Alone(request, Aliases(n), u)
    BY <2>1, <2>2, AliasesAre DEF Alone
  <2> QED
    BY <2>1, <2>3
<1> QED
  BY <1>1, <1>2

LEMMA PristineIn ==
  ASSUME NEW x, x \in Froms
  PROVE  Pristine(x) \in Contents
BY DEF Pristine, Contents, NoDeltas

LEMMA PermanentlyIn ==
  ASSUME model \in Models, Distinct1(merged), NEW n \in Names
  PROVE  /\ Permanently(n) \in Contents
         /\ Permanently(n).steps = 0
<1>1. PICK u \in Aliases(n) : Alone(merged, Aliases(n), u)
  BY AsksOfOne DEF Distinct1
<1>2. Pristine(<<"model", model.tie[n]>>) \in Contents
  BY ModelIs, PristineIn DEF Froms
<1>3. Pristine(<<"model", model.tie[n]>>).steps = 0
  BY DEF Pristine
<1> QED
  BY <1>1, <1>2, <1>3, AppliedIsAfter DEF Distinct1, Permanently

-----------------------------------------------------------------------------
(* While the model is built *)

\* Names share an identity exactly if they share storage.
LEMMA SharingIs ==
  ASSUME model \in Models, Pointed(registry), Stored
  PROVE  /\ \A n \in Names :
              /\ registry[n] \in Writables
              /\ Data(registry[n]) = IF registry[n] = Own(n) THEN (IF n \in model.meta THEN None ELSE Base0(n)) ELSE registry[n]
              /\ IsMeta(n) <=> registry[n] = Own(n) /\ n \in model.meta
              /\ Data(registry[n]) \in Storages \cup {None}
         /\ \A n, o \in Names : registry[n] = registry[o] => model.tie[n] = model.tie[o]
         /\ \A n, o \in Names : Identity(n) = Identity(o) <=> model.tie[n] = model.tie[o]
         /\ \A n, o \in Names : model.tie[n] = model.tie[o] => Data(registry[n]) = Data(registry[o]) /\ (IsMeta(n) <=> IsMeta(o))
         /\ \A n \in Names : Tied(n) = Aliases(n)
<1>1. ASSUME NEW n \in Names
      PROVE  /\ registry[n] \in Writables
             /\ Data(registry[n]) = IF registry[n] = Own(n) THEN (IF n \in model.meta THEN None ELSE Base0(n)) ELSE registry[n]
             /\ IsMeta(n) <=> registry[n] = Own(n) /\ n \in model.meta
             /\ Data(registry[n]) \in Storages \cup {None}
             /\ registry[n] # Own(n) => \E r \in Aliases(n) : registry[n] = <<"copy", r>> /\ \A m \in Aliases(n) : registry[m] = registry[n]
  <2>1. model.tie[n] \in Names /\ model.wrap[n] \in Names /\ model.tie[model.wrap[n]] = model.tie[n]
        /\ (model.wrap[n] \in model.meta <=> n \in model.meta)
    BY ModelIs
  <2>2. CASE registry[n] = Own(n)
    <3>1. Own(n) \in Writables /\ Own(n)[1] = "own" /\ Own(n)[2] = model.wrap[n]
      BY <2>1 DEF Own, Writables
    <3>2. Data(Own(n)) = data[Own(n)]
      BY <3>1 DEF Data
    <3>3. data[Own(n)] = IF n \in model.meta THEN None ELSE Base0(n)
      BY <2>1, <3>1 DEF Stored, Base0
    <3>4. Base0(n) \in Storages /\ Base0(n) # None
      BY <2>1 DEF Base0, Storages, None
    <3> QED
      BY <2>2, <3>1, <3>2, <3>3, <3>4 DEF IsMeta
  <2>3. CASE registry[n] # Own(n)
    <3>1. PICK r \in Aliases(n) : registry[n] = <<"copy", r>> /\ \A m \in Aliases(n) : registry[m] = registry[n]
      BY <2>3 DEF Pointed
    <3>2. r \in Names /\ <<"copy", r>> \in Writables /\ <<"copy", r>>[1] = "copy"
      BY AliasesAre DEF Writables
    <3>3. Data(<<"copy", r>>) = <<"copy", r>>
      BY <3>2 DEF Data, Stored
    <3>4. <<"copy", r>> \in Storages /\ <<"copy", r>> # None
      BY <3>2 DEF Storages, None
    <3> QED
      BY <2>3, <3>1, <3>2, <3>3, <3>4 DEF IsMeta
  <2> QED
    BY <2>2, <2>3
<1>2. ASSUME NEW n \in Names, NEW o \in Names, model.tie[n] = model.tie[o]
      PROVE  /\ Identity(n) = Identity(o) /\ Data(registry[n]) = Data(registry[o]) /\ (IsMeta(n) <=> IsMeta(o))
  <2>1. (n \in model.meta <=> o \in model.meta) /\ (n \in model.meta => model.wrap[n] = model.wrap[o])
    BY <1>2, ModelIs DEF WellFormed
  <2>2. n \in Aliases(o) /\ o \in Aliases(n)
    BY <1>2 DEF Aliases
  <2>3. CASE registry[n] = Own(n) /\ registry[o] = Own(o)
    BY <1>1, <1>2, <2>1, <2>3 DEF Identity, Own, Base0
  <2>4. CASE registry[n] # Own(n) \/ registry[o] # Own(o)
    <3>1. registry[n] = registry[o]
      BY <1>1, <2>2, <2>4
    <3> QED
      BY <3>1 DEF Identity, IsMeta
  <2> QED
    BY <2>3, <2>4
<1>3. ASSUME NEW n \in Names, NEW o \in Names, registry[n] = registry[o]
      PROVE  model.tie[n] = model.tie[o]
  <2>1. CASE registry[n] = Own(n) /\ registry[o] = Own(o)
    <3>1. Own(n)[2] = model.wrap[n] /\ Own(o)[2] = model.wrap[o]
      BY DEF Own
    <3>2. model.wrap[n] = model.wrap[o]
      BY <1>3, <2>1, <3>1
    <3> QED
      BY <3>2, ModelIs DEF WellFormed
  <2>2. CASE registry[n] # Own(n)
    <3>1. PICK r \in Aliases(n) : registry[n] = <<"copy", r>>
      BY <1>1, <2>2
    <3>2. registry[o] # Own(o)
      BY <1>3, <3>1 DEF Own
    <3>3. PICK q \in Aliases(o) : registry[o] = <<"copy", q>>
      BY <1>1, <3>2
    <3>4. <<"copy", r>>[2] = r /\ <<"copy", q>>[2] = q
      OBVIOUS
    <3>5. r = q
      BY <1>3, <3>1, <3>3, <3>4
    <3> QED
      BY <3>5, AliasesAre
  <2>3. CASE registry[o] # Own(o)
    <3>1. PICK r \in Aliases(o) : registry[o] = <<"copy", r>>
      BY <1>1, <2>3
    <3>2. registry[n] # Own(n)
      BY <1>3, <3>1 DEF Own
    <3> QED
      BY <2>2, <3>2
  <2> QED
    BY <2>1, <2>2, <2>3
<1>4. ASSUME NEW n \in Names, NEW o \in Names, Identity(n) = Identity(o)
      PROVE  model.tie[n] = model.tie[o]
  <2>1. CASE registry[n] = registry[o]
    BY <1>3, <2>1
  <2>2. CASE registry[n] # registry[o]
    <3>1. ASSUME NEW m \in Names
          PROVE  /\ Identity(m) = IF registry[m] = Own(m) /\ m \notin model.meta THEN Base0(m) ELSE registry[m]
                 /\ registry[m][1] # "base"
      BY <1>1 DEF Identity, Own, Writables
    <3>2. Identity(n) = Base0(n) /\ Identity(o) = Base0(o)
      BY <1>4, <2>2, <3>1 DEF Base0
    <3>3. Base0(n)[2] = model.tie[n] /\ Base0(o)[2] = model.tie[o]
      BY DEF Base0
    <3> QED
      BY <1>4, <3>2, <3>3
  <2> QED
    BY <2>1, <2>2
<1>5. \A n \in Names : Tied(n) = Aliases(n)
  BY <1>2, <1>4 DEF Tied, Aliases
<1> QED
  BY <1>1, <1>2, <1>3, <1>4, <1>5

\* What was decided from the same model is the same.
LEMMA SameModel ==
  ASSUME model' = model
  PROVE  /\ \A n : Aliases(n)' = Aliases(n) /\ (Trains(n)' <=> Trains(n))
         /\ \A n : Own(n)' = Own(n) /\ Base0(n)' = Base0(n)
         /\ \A s : Owned(s)' <=> Owned(s)
         /\ Components' = Components
         /\ \A c : ParamNames(c)' = ParamNames(c)
         /\ \A acq : NamesOf(acq)' = NamesOf(acq)
         /\ \A n : ComponentOf(n)' = ComponentOf(n)
<1>1. \A n : Aliases(n)' = Aliases(n) /\ (Trains(n)' <=> Trains(n)) /\ Own(n)' = Own(n) /\ Base0(n)' = Base0(n)
  BY DEF Aliases, Trains, Own, Base0
<1>2. \A s : Owned(s)' <=> Owned(s)
  BY DEF Owned
<1>3. BlockIndices' = BlockIndices
  BY DEF BlockIndices, InBlocks
<1>4. Components' = Components
  BY <1>3 DEF Components
<1>5. BlockParams' = BlockParams /\ \A k : Earlier(k)' = Earlier(k)
  BY DEF BlockParams, InBlocks, Selected, Trains, Earlier
<1>6. \A c : ParamNames(c)' = ParamNames(c)
  BY <1>3, <1>5 DEF ParamNames
<1>7. \A acq : NamesOf(acq)' = NamesOf(acq)
  BY <1>6 DEF NamesOf
<1>8. \A n : ComponentOf(n)' = ComponentOf(n)
  BY <1>4, <1>6 DEF ComponentOf
<1> QED
  BY <1>1, <1>2, <1>4, <1>6, <1>7, <1>8

LEMMA SamePast ==
  ASSUME model' = model, merged' = merged
  PROVE  /\ \A n : Permanently(n)' = Permanently(n) /\ (Provided(n)' <=> Provided(n))
         /\ \A s, n : (Avail(s, n)' <=> Avail(s, n)) /\ Target(s, n)' = Target(s, n)
<1>1. \A n : Aliases(n)' = Aliases(n)
  BY SameModel
<1>2. \A n : Permanently(n)' = Permanently(n)
  BY <1>1 DEF Permanently
<1>3. \A n : Provided(n)' <=> Provided(n)
  BY <1>1 DEF Provided
<1>4. \A s, n : (Avail(s, n)' <=> Avail(s, n))
  BY <1>1, <1>3 DEF Avail
<1>5. \A s, n : Target(s, n)' = Target(s, n)
  BY <1>1, <1>2 DEF Target
<1> QED
  BY <1>2, <1>3, <1>4, <1>5

-----------------------------------------------------------------------------
(* The steps that build the model *)

LEMMA InitIs == ModulesInit => ModulesInv
BY DEF ModulesInit, ModulesInv, Closed

LEMMA NothingAsked ==
  /\ Right(<<>>) /\ Groups(<<>>) /\ Updated(<<>>) = {}
  /\ \A A : Gives(<<>>, A) = {}
<1>1. Adapters(<<>>) = {}
  BY DEF Adapters, ToSet
<1>2. Updated(<<>>) = {}
  BY <1>1 DEF Updated
<1>3. Groups(<<>>)
  BY <1>1, <1>2 DEF Groups
<1>4. Right(<<>>)
  BY DEF Right, ToSet
<1>5. \A A : Gives(<<>>, A) = {}
  BY DEF Gives, Asks
<1> QED
  BY <1>2, <1>3, <1>4, <1>5

LEMMA OpenKeeps ==
  ASSUME ModulesInv, NEW m \in Models, Open(m)
  PROVE  ModulesInv'
<1>1. Closed /\ phase' = "loaded" /\ model' = m /\ model' \in Models
  BY DEF ModulesInv, Open
<1>2. /\ ops' = {} /\ acquired' = {} /\ activation' = NoSession /\ merged' = <<>> /\ steps' = 0
      /\ routedUps' = [n \in Names |-> NoDeltas]
  BY <1>1 DEF Open, Closed
<1>3. /\ registry' = [n \in Names |-> <<"own", m.wrap[n]>>]
      /\ data' = [o \in Writables |-> IF o[1] = "copy" THEN o ELSE IF o[2] \in m.meta THEN None ELSE <<"base", m.tie[o[2]]>>]
      /\ bytes' = [s \in Storages |-> Pristine(IF s[1] = "base" THEN <<"model", s[2]>> ELSE None)]
  BY DEF Open
<1>4. bytes' \in [Storages -> Contents]
  <2>1. ASSUME NEW s \in Storages
        PROVE  (IF s[1] = "base" THEN <<"model", s[2]>> ELSE None) \in Froms
    BY DEF Storages, Froms
  <2> QED
    BY <1>3, <2>1, PristineIn
<1>5. \A n \in Names : m.tie[n] \in Names /\ <<"base", m.tie[n]>> \in Storages
  BY ModelsAssumption DEF WellFormed, Storages
<1>6. \A n \in Names : bytes'[<<"base", m.tie[n]>>] = Pristine(<<"model", m.tie[n]>>)
  BY <1>3, <1>5
<1>7. Mapped(bytes)'
  <2>1. m.mapped \subseteq Names
    BY ModelsAssumption DEF WellFormed
  <2> QED
    BY <1>1, <1>6, <2>1 DEF Mapped, Base0
<1>8. Distinct1(merged)'
  BY <1>2, NothingAsked DEF Distinct1
<1>9. Stored' /\ \A n \in Names : registry'[n] = Own(n)'
  BY <1>1, <1>3 DEF Stored, Own
<1>10. \A n \in Names : Waits(n)'
  BY <1>1, <1>6, <1>9 DEF Waits, Base0
<1>11. \A n \in Names : Ready(n)'
  <2> SUFFICES ASSUME NEW n \in Names PROVE Ready(n)'
    OBVIOUS
  <2>1. Pristine(<<"model", m.tie[n]>>) \in Contents
    BY <1>5, PristineIn DEF Froms
  <2>2. Aliases(n)' \in SUBSET Names
    BY DEF Aliases
  <2>3. Permanently(n)' = Pristine(<<"model", m.tie[n]>>)
    <3>1. <<>> \in Seq(Uses)
      OBVIOUS
    <3>2. \A A \in SUBSET Names : After(Pristine(<<"model", m.tie[n]>>), <<>>, A) = Pristine(<<"model", m.tie[n]>>)
      BY <2>1, <3>1, AfterNothing, NothingAsked
    <3>3. Permanently(n)' = After(Pristine(<<"model", m.tie[n]>>), <<>>, Aliases(n)')
      BY <1>1, <1>2 DEF Permanently
    <3> QED
      BY <2>2, <3>2, <3>3
  <2>4. Provided(n)' <=> n \notin m.meta
    BY <1>1, <1>2, NothingAsked DEF Provided
  <2>5. n \notin m.meta => Data(registry[n])' = <<"base", m.tie[n]>>
    <3>1. registry'[n] = <<"own", m.wrap[n]>> /\ <<"own", m.wrap[n]>> \in Writables
      BY <1>3, ModelsAssumption DEF WellFormed, Writables
    <3>2. m.tie[m.wrap[n]] = m.tie[n] /\ (m.wrap[n] \in m.meta => n \in m.meta)
      BY ModelsAssumption DEF WellFormed
    <3>3. Data(registry[n])' = data'[<<"own", m.wrap[n]>>]
      BY <3>1 DEF Data
    <3> QED
      BY <1>3, <3>1, <3>2, <3>3
  <2> QED
    BY <1>6, <1>9, <2>3, <2>4, <2>5 DEF Ready, Shown, None
<1>12. Building'
  BY <1>2, <1>9, <1>10, <1>11 DEF Building, Pointed, Pending
<1> QED
  BY <1>1, <1>2, <1>4, <1>7, <1>8, <1>12 DEF ModulesInv, Opening

LEMMA MergedKeeps ==
  ASSUME ModulesInv, Merged
  PROVE  ModulesInv'
<1>1. /\ phase = "merging" /\ phase' = "loaded" /\ ops = {}
      /\ model' = model /\ registry' = registry /\ data' = data /\ bytes' = bytes /\ backing' = backing /\ ops' = ops /\ acquired' = acquired
      /\ activation' = activation /\ routedUps' = routedUps /\ merged' = merged /\ steps' = steps
  BY DEF Merged
<1>2. Opening /\ Building
  BY <1>1 DEF ModulesInv
<1>3. Opening'
  BY <1>1, <1>2 DEF Opening, Mapped, Distinct1, Base0
<1>4. \A n \in Names : Pending(n)' <=> Pending(n)
  BY <1>1 DEF Pending
<1>5. \A n \in Names : (Waits(n)' <=> Waits(n)) /\ (Ready(n)' <=> Ready(n))
  BY <1>1, SameModel, SamePast DEF Waits, Ready, Shown, Data
<1>6. Pointed(registry)' /\ Stored'
  BY <1>1, <1>2, SameModel DEF Building, Pointed, Stored
<1>7. Building'
  BY <1>1, <1>2, <1>4, <1>5, <1>6 DEF Building
<1> QED
  BY <1>1, <1>3, <1>7 DEF ModulesInv

\* A merge that is accepted updates each storage under one name.
LEMMA MergeDistinct ==
  ASSUME model \in Models, Pointed(registry), Stored, NEW request \in Merges,
         \A a \in ToSet(request) : Builds(a.spec), MergesInto(request)
  PROVE  Distinct1(request)
<1>1. request \in Seq(Uses)
  BY RequestsAssumption DEF Uses
<1>2. Right(request) /\ Groups(request)
  BY <1>1 DEF Right, MergesInto
<1>3. \A n, o \in Updated(request) : model.tie[n] = model.tie[o] => n = o
  <2>1. AliasesDistinct(request)
    BY DEF MergesInto, MergeAccepts
  <2>2. Updated(request) \subseteq Names
    BY DEF Updated
  <2> QED
    BY <2>1, <2>2, SharingIs DEF AliasesDistinct
<1> QED
  BY <1>2, <1>3 DEF Distinct1

LEMMA MergeKeeps ==
  ASSUME ModulesInv, NEW request \in Merges, Merge(request)
  PROVE  ModulesInv'
<1>1. /\ phase = "loaded" /\ phase' = "merging" /\ merged = <<>> /\ merged' = request
      /\ \A a \in ToSet(request) : Builds(a.spec)
      /\ MergesInto(request)
      /\ model' = model /\ registry' = registry /\ data' = data /\ bytes' = bytes /\ backing' = backing /\ acquired' = acquired
      /\ activation' = activation /\ routedUps' = routedUps /\ steps' = steps
  BY DEF Merge
<1>2. Opening /\ Building
  BY <1>1 DEF ModulesInv
<1>3. model \in Models /\ Pointed(registry) /\ Stored /\ \A n \in Names : Waits(n)
  BY <1>1, <1>2 DEF Opening, Building
<1>4. Distinct1(request)
  BY <1>1, <1>3, MergeDistinct
<1>5. Opening'
  <2>1. Mapped(bytes)'
    BY <1>1, <1>2 DEF Opening, Mapped, Base0
  <2>2. Distinct1(merged)'
    BY <1>1, <1>4 DEF Distinct1
  <2> QED
    BY <1>1, <1>2, <2>1, <2>2 DEF Opening
<1>6. Pointed(registry)' /\ Stored'
  BY <1>1, <1>3, SameModel DEF Pointed, Stored
<1>7. \A n \in Names : (Waits(n)' <=> Waits(n)) /\ Data(registry[n])' = Data(registry[n]) /\ Shown(n)' = Shown(n)
  BY <1>1, SameModel DEF Waits, Shown, Data
<1>8. ops' = {[param |-> registry[n], name |-> n, aliases |-> Tied(n), plan |-> PlanOf(request, n)] : n \in Planned(request)}
  BY DEF Merge
<1>9. Planned(request) \subseteq Updated(request) /\ Updated(request) \subseteq Names
  BY DEF Planned, Updated
<1>10. ASSUME NEW n \in Names
       PROVE  /\ Provided(n)' <=> n \notin model.meta \/ Gives(request, Aliases(n)) # {}
              /\ Permanently(n)' = After(Pristine(<<"model", model.tie[n]>>), request, Aliases(n))
              /\ Pristine(<<"model", model.tie[n]>>) \in Contents
              /\ registry[n] = Own(n) /\ (IsMeta(n) <=> n \in model.meta)
  <2>1. Aliases(n)' = Aliases(n)
    BY <1>1, SameModel
  <2>2. Pristine(<<"model", model.tie[n]>>) \in Contents
    BY <1>3, ModelIs, PristineIn DEF Froms
  <2>3. registry[n] = Own(n) /\ (IsMeta(n) <=> n \in model.meta)
    BY <1>3, SharingIs DEF Waits
  <2> QED
    BY <1>1, <2>1, <2>2, <2>3 DEF Provided, Permanently
<1>11. ASSUME NEW n \in Updated(request)
       PROVE  Alone(request, Aliases(n), n)
  BY <1>4, <1>9, <1>11, AliasesAre DEF Alone, Distinct1
<1>12. ASSUME NEW n \in Planned(request),
              NEW op, op = [param |-> registry[n], name |-> n, aliases |-> Tied(n), plan |-> PlanOf(request, n)]
       PROVE  Operation(op)'
  <2>1. n \in Names /\ Alone(request, Aliases(n), n)
    BY <1>9, <1>11
  <2>2. /\ PlanOf(request, n).value # NoSpec <=> Gives(request, Aliases(n)) # {}
        /\ PlanOf(request, n).value \in Specs \cup {NoSpec}
        /\ Apply(PlanOf(request, n), Base(PlanOf(request, n), Pristine(<<"model", model.tie[n]>>)))
             = After(Pristine(<<"model", model.tie[n]>>), request, Aliases(n))
    BY <1>4, <1>10, <2>1, AppliedIsAfter DEF Distinct1
  <2>3. PlanOf(request, n).value # NoSpec => n \in model.meta
    <3>1. Validates(PlanOf(request, n), n)
      BY <1>1, <1>12 DEF MergesInto, MergeAccepts
    <3> QED
      BY <1>10, <2>1, <3>1 DEF Validates
  <2>4. op.param = Own(n) /\ op.name = n /\ op.aliases = Aliases(n) /\ op.plan = PlanOf(request, n)
    BY <1>3, <1>10, <1>12, <2>1, SharingIs
  <2>5. Own(n)' = Own(n) /\ Aliases(n)' = Aliases(n)
    BY <1>1, SameModel
  <2>6. Permanently(n)' = After(Pristine(<<"model", model.tie[n]>>), request, Aliases(n))
    BY <1>10, <2>1
  <2> QED
    BY <1>1, <2>1, <2>2, <2>3, <2>4, <2>5, <2>6 DEF Operation, Base
<1>13. \A op, oq \in ops' : model'.tie[op.name] = model'.tie[oq.name] => op = oq
  BY <1>1, <1>4, <1>8, <1>9 DEF Distinct1
<1>14. ASSUME NEW n \in Names
       PROVE  Pending(n)' <=> \E u \in Planned(request) : u \in Aliases(n)
  <2>1. Aliases(n)' = Aliases(n)
    BY <1>1, SameModel
  <2>2. Pending(n)' <=> \E op \in ops' : op.name \in Aliases(n)
    BY <2>1 DEF Pending
  <2>3. ASSUME NEW u \in Planned(request)
        PROVE  \E op \in ops' : op.name = u
    <3> DEFINE op == [param |-> registry[u], name |-> u, aliases |-> Tied(u), plan |-> PlanOf(request, u)]
    <3>1. op \in ops' /\ op.name = u
      BY <1>8
    <3> QED
      BY <3>1
  <2>4. \A op \in ops' : op.name \in Planned(request)
    BY <1>8
  <2> QED
    BY <2>2, <2>3, <2>4
<1>15. ASSUME NEW n \in Names, \A u \in Planned(request) : u \notin Aliases(n)
       PROVE  Ready(n)'
  <2> DEFINE x == Pristine(<<"model", model.tie[n]>>)
  <2>1. Gives(request, Aliases(n)) = {} /\ (n \notin model.meta => After(x, request, Aliases(n)) = x)
    <3>1. CASE Updated(request) \cap Aliases(n) = {}
      <4>1. request \in Seq(Uses) /\ Aliases(n) \in SUBSET Names /\ x \in Contents
        BY <1>4, <1>10, AliasesAre DEF Distinct1, Right
      <4> HIDE DEF x
      <4> QED
        BY <3>1, <4>1, AfterNothing
    <3>2. CASE Updated(request) \cap Aliases(n) # {}
      <4>1. PICK u \in Updated(request) : u \in Aliases(n)
        BY <3>2
      <4>2. Skipped(Contributions(request, u), u)
        BY <1>15, <4>1 DEF Planned
      <4>3. IsMeta(u) /\ Contributions(request, u).values = <<>>
        BY <4>2 DEF Skipped
      <4>4. u \in Names /\ Aliases(u) = Aliases(n) /\ model.tie[u] = model.tie[n]
        BY <4>1, AliasesAre
      <4>5. u \in model.meta /\ n \in model.meta
        BY <1>3, <1>10, <4>3, <4>4, ModelIs DEF WellFormed
      <4>6. Gives(request, Aliases(u)) = {}
        BY <1>4, <1>10, <1>11, <4>1, <4>3, <4>4, AppliedIsAfter DEF Distinct1
      <4> QED
        BY <4>4, <4>5, <4>6
    <3> QED
      BY <3>1, <3>2
  <2>2. n \notin model.meta => Data(registry[n]) = Base0(n) /\ Base0(n) # None /\ bytes[Base0(n)] = x
    BY <1>3, <1>10, SharingIs DEF Waits, Base0, None
  <2> HIDE DEF x
  <2>3. Provided(n)' <=> n \notin model.meta
    BY <1>10, <2>1
  <2>4. Permanently(n)' = After(x, request, Aliases(n))
    BY <1>10 DEF x
  <2>5. registry'[n] = Own(n)'
    BY <1>1, <1>10, SameModel
  <2>6. Data(registry[n])' = Data(registry[n]) /\ Shown(n)' = Shown(n)
    BY <1>7
  <2>7. n \notin model.meta => Shown(n) = Permanently(n)' /\ Data(registry[n]) # None
    BY <2>1, <2>2, <2>4 DEF Shown
  <2> QED
    BY <2>3, <2>5, <2>6, <2>7 DEF Ready
<1>16. request = <<>> => ops' = {} /\ \A n \in Names : Waits(n)'
  <2>1. request = <<>> => Planned(request) = {}
    BY NothingAsked DEF Planned
  <2> QED
    BY <1>3, <1>7, <1>8, <2>1
<1>17. \A op \in ops' : Operation(op)'
  BY <1>8, <1>12
<1>18. \A n \in Names : IF Pending(n)' THEN Waits(n)' ELSE Ready(n)'
  BY <1>3, <1>7, <1>14, <1>15
<1>19. Building'
  BY <1>1, <1>6, <1>13, <1>16, <1>17, <1>18 DEF Building
<1> QED
  BY <1>1, <1>5, <1>19 DEF ModulesInv

LEMMA ApplyKeeps ==
  ASSUME ModulesInv, NEW op \in ops, ApplyOp(op)
  PROVE  ModulesInv'
<1> DEFINE replaced == op.plan.value # NoSpec \/ ~Owned(Data(op.param))
           target == IF replaced THEN <<"copy", op.name>> ELSE Data(op.param)
           n == op.name
           x == Pristine(<<"model", model.tie[n]>>)
           content == Apply(op.plan, IF op.plan.value # NoSpec THEN ValueOf(op.plan.value) ELSE bytes[Data(op.param)])
<1>1. /\ phase = "merging" /\ phase' = "merging"
      /\ bytes' = [bytes EXCEPT ![target] = content]
      /\ registry' = [m \in Names |-> IF replaced /\ m \in op.aliases THEN target ELSE registry[m]]
      /\ ops' = ops \ {op}
      /\ model' = model /\ data' = data /\ backing' = backing /\ acquired' = acquired
      /\ activation' = activation /\ routedUps' = routedUps /\ merged' = merged /\ steps' = steps
  BY DEF ApplyOp
<1>2. Opening /\ Building
  BY <1>1 DEF ModulesInv
<1>3. model \in Models /\ Pointed(registry) /\ Stored /\ Distinct1(merged) /\ bytes \in [Storages -> Contents] /\ Mapped(bytes)
  BY <1>2 DEF Opening, Building
<1>4. Operation(op) /\ (\A oq \in ops : model.tie[op.name] = model.tie[oq.name] => op = oq) /\ merged # <<>>
  BY <1>2 DEF Building
<1>5. n \in Names /\ op.param = Own(n) /\ op.aliases = Aliases(n)
  BY <1>4 DEF Operation
<1>6. registry[n] = Own(n) /\ (n \notin model.meta => bytes[Base0(n)] = x)
  <2>1. Pending(n)
    BY <1>5, AliasesAre DEF Pending
  <2> QED
    BY <1>2, <1>5, <2>1 DEF Building, Waits
<1>7. /\ Data(op.param) = IF n \in model.meta THEN None ELSE Base0(n)
      /\ Base0(n) \in Storages /\ None \notin Storages /\ <<"copy", n>> \in Storages
  <2>1. model.tie[n] \in Names
    BY <1>3, <1>5, ModelIs
  <2>2. Base0(n) \in Storages /\ None \notin Storages /\ <<"copy", n>> \in Storages
    BY <1>5, <2>1 DEF Base0, None, Storages
  <2> QED
    BY <1>3, <1>5, <1>6, <2>2, SharingIs
<1>8. replaced \/ n \notin model.meta => content = Permanently(n)
  <2>1. op.plan.value = NoSpec /\ replaced => n \notin model.meta
    <3>1. Owned(None)
      BY DEF Owned, None
    <3> QED
      BY <1>7, <3>1
  <2>2. replaced \/ n \notin model.meta =>
           (IF op.plan.value # NoSpec THEN ValueOf(op.plan.value) ELSE bytes[Data(op.param)]) = Base(op.plan, x)
    BY <1>6, <1>7, <2>1 DEF Base
  <2>3. Apply(op.plan, Base(op.plan, x)) = Permanently(n)
    BY <1>4 DEF Operation
  <2> QED
    BY <2>2, <2>3
<1>9. Permanently(n) \in Contents
  BY <1>3, <1>5, PermanentlyIn
<1>10. ~replaced => Provided(n) <=> n \notin model.meta
  BY <1>4 DEF Operation, Provided
<1>11. replaced => Provided(n)
  <2>1. Owned(None)
    BY DEF Owned, None
  <2> QED
    BY <1>4, <1>7, <2>1 DEF Operation, Provided
<1>12. ~replaced /\ n \notin model.meta => n \notin model.mapped
  <2>1. Base0(n)[1] = "base" /\ Base0(n)[2] = model.tie[n]
    BY DEF Base0
  <2>2. model.tie[n] \in model.mapped <=> n \in model.mapped
    BY <1>3, <1>5, ModelIs DEF WellFormed
  <2> QED
    BY <1>7, <2>1, <2>2 DEF Owned
<1> HIDE DEF content, x
<1>13. /\ \A s \in Storages : bytes'[s] = IF s = target THEN content ELSE bytes[s]
       /\ target \in Storages \cup {None}
       /\ target \in Storages => content = Permanently(n)
  <2>1. target \in Storages <=> replaced \/ n \notin model.meta
    BY <1>7
  <2>2. target \in Storages \cup {None}
    BY <1>7
  <2> HIDE DEF target, replaced
  <2> QED
    BY <1>1, <1>3, <1>8, <2>1, <2>2
<1>14. bytes' \in [Storages -> Contents]
  <2> HIDE DEF target
  <2> QED
    BY <1>1, <1>3, <1>9, <1>13
<1>15. ASSUME NEW m \in Names, m \notin Aliases(n)
       PROVE  Base0(m) # target /\ <<"copy", n>> # Base0(m) /\ n \notin Aliases(m)
  <2>1. model.tie[m] # model.tie[n] /\ n \notin Aliases(m)
    BY <1>5, <1>15 DEF Aliases
  <2>2. Base0(m)[1] = "base" /\ Base0(m)[2] = model.tie[m] /\ Base0(n)[2] = model.tie[n]
    BY DEF Base0
  <2>3. Base0(m) # <<"copy", n>> /\ Base0(m) # None
    BY <2>2 DEF None
  <2> QED
    BY <1>7, <2>1, <2>2, <2>3
<1>16. Mapped(bytes)'
  <2> SUFFICES ASSUME NEW m \in model.mapped
               PROVE  bytes'[Base0(m)] = bytes[Base0(m)]
    BY <1>1, <1>3, SameModel DEF Mapped
  <2>1. m \in Names /\ model.tie[m] \in Names
    BY <1>3, ModelIs DEF WellFormed
  <2>2. Base0(m) \in Storages /\ Base0(m)[1] = "base"
    BY <2>1 DEF Base0, Storages
  <2>3. Base0(m) # target
    <3>1. CASE m \notin Aliases(n)
      BY <1>15, <2>1, <3>1
    <3>2. CASE m \in Aliases(n)
      <4>1. n \in model.mapped
        BY <1>3, <1>5, <2>1, <3>2, AliasesAre, ModelIs DEF WellFormed
      <4>2. target = <<"copy", n>> \/ target = None
        BY <1>7, <1>12, <4>1
      <4> QED
        BY <2>2, <4>2 DEF None
    <3> QED
      BY <3>1, <3>2
  <2> QED
    BY <1>13, <2>2, <2>3
<1>17. Opening'
  <2>1. Distinct1(merged)'
    BY <1>1, <1>3 DEF Distinct1
  <2> QED
    BY <1>1, <1>2, <1>14, <1>16, <2>1 DEF Opening
<1>18. \A m \in Names : registry'[m] = IF replaced /\ m \in Aliases(n) THEN <<"copy", n>> ELSE registry[m]
  BY <1>1, <1>5
<1> HIDE DEF replaced, target
<1>19. Pointed(registry')
  <2> SUFFICES ASSUME NEW m \in Names
               PROVE  \/ registry'[m] = Own(m)
                      \/ \E r \in Aliases(m) : registry'[m] = <<"copy", r>> /\ \A p \in Aliases(m) : registry'[p] = registry'[m]
    BY DEF Pointed
  <2>1. CASE replaced /\ m \in Aliases(n)
    <3>1. Aliases(m) = Aliases(n) /\ n \in Aliases(m) /\ \A p \in Aliases(m) : p \in Names
      BY <1>5, <2>1, AliasesAre
    <3> QED
      BY <1>18, <2>1, <3>1
  <2>2. CASE ~(replaced /\ m \in Aliases(n))
    <3>1. \A p \in Aliases(m) : p \in Names /\ (p \in Aliases(n) <=> m \in Aliases(n))
      BY <1>5, AliasesAre
    <3>2. \A p \in Aliases(m) : registry'[p] = registry[p]
      BY <1>18, <2>2, <3>1
    <3>3. registry'[m] = registry[m]
      BY <1>18, <2>2
    <3> QED
      BY <1>3, <3>2, <3>3 DEF Pointed
  <2> QED
    BY <2>1, <2>2
<1>20. Pointed(registry)' /\ Stored'
  BY <1>1, <1>3, <1>19, SameModel DEF Pointed, Stored
<1>21. \A oq \in ops' : Operation(oq)'
  BY <1>1, <1>2, SameModel, SamePast DEF Building, Operation
<1>22. ASSUME NEW m \in Names
       PROVE  Pending(m)' <=> Pending(m) /\ m \notin Aliases(n)
  <2>1. Aliases(m)' = Aliases(m)
    BY <1>1, SameModel
  <2>2. \A oq \in ops : Operation(oq) /\ oq.name \in Names
    BY <1>2 DEF Building, Operation
  <2>3. \A oq \in ops : oq.name \in Aliases(m) /\ m \in Aliases(n) => oq = op
    BY <1>4, <1>5, AliasesAre
  <2>4. m \notin Aliases(n) => op.name \notin Aliases(m)
    BY <1>15
  <2> QED
    BY <1>1, <2>1, <2>3, <2>4 DEF Pending
<1>23. ASSUME NEW m \in Names, m \notin Aliases(n)
       PROVE  (Waits(m)' <=> Waits(m)) /\ (Ready(m)' <=> Ready(m))
  <2>1. registry'[m] = registry[m]
    BY <1>18, <1>23
  <2>2. Base0(m) \in Storages /\ bytes'[Base0(m)] = bytes[Base0(m)]
    <3>1. Base0(m) \in Storages
      BY <1>3, ModelIs DEF Base0, Storages
    <3> QED
      BY <1>13, <1>15, <1>23, <3>1
  <2>3. Data(registry[m])' = Data(registry[m])
    BY <1>1, <2>1 DEF Data
  <2>4. Data(registry[m]) # None => Data(registry[m]) \in Storages /\ Data(registry[m]) # target
    <3>1. CASE registry[m] = Own(m)
      BY <1>3, <1>15, <1>23, <2>2, <3>1, SharingIs
    <3>2. CASE registry[m] # Own(m)
      <4>1. PICK r \in Aliases(m) : registry[m] = <<"copy", r>>
        BY <1>3, <3>2 DEF Pointed
      <4>2. r # n
        BY <1>15, <1>23, <4>1
      <4>3. <<"copy", r>>[2] = r /\ <<"copy", n>>[2] = n /\ <<"copy", r>>[1] = "copy" /\ Base0(n)[1] = "base"
        BY DEF Base0
      <4>4. <<"copy", r>> # target
        BY <1>7, <4>2, <4>3 DEF target, None
      <4>5. Data(registry[m]) = <<"copy", r>>
        BY <1>3, <3>2, <4>1, SharingIs
      <4>6. <<"copy", r>> \in Storages
        BY <4>1, AliasesAre DEF Storages
      <4> QED
        BY <4>4, <4>5, <4>6
    <3> QED
      BY <3>1, <3>2
  <2>5. Data(registry[m]) # None => Shown(m)' = Shown(m)
    BY <1>13, <2>3, <2>4 DEF Shown
  <2>6. (Provided(m)' <=> Provided(m)) /\ Permanently(m)' = Permanently(m) /\ Own(m)' = Own(m) /\ Base0(m)' = Base0(m)
    BY <1>1, SamePast, SameModel
  <2> QED
    BY <1>1, <2>1, <2>2, <2>3, <2>5, <2>6 DEF Waits, Ready
<1>24. ASSUME NEW m \in Aliases(n)
       PROVE  Ready(m)'
  <2>1. m \in Names /\ model.tie[m] = model.tie[n]
    BY <1>5, AliasesAre
  <2>2. (Provided(m)' <=> Provided(n)) /\ Permanently(m)' = Permanently(n) /\ Own(m)' = Own(m)
    <3>1. (Provided(m)' <=> Provided(m)) /\ Permanently(m)' = Permanently(m) /\ Own(m)' = Own(m)
      BY <1>1, SamePast, SameModel
    <3> QED
      BY <1>3, <1>5, <2>1, <3>1, AliasesSame
  <2>3. CASE replaced
    <3>1. registry'[m] = <<"copy", n>>
      BY <1>18, <2>1, <2>3
    <3>2. Data(registry[m])' = <<"copy", n>>
      <4>1. <<"copy", n>> \in Writables /\ <<"copy", n>>[1] = "copy"
        BY <1>5 DEF Writables
      <4>2. Data(registry[m])' = data[<<"copy", n>>]
        BY <1>1, <3>1, <4>1 DEF Data
      <4> QED
        BY <1>3, <4>1, <4>2 DEF Stored
    <3>3. bytes'[<<"copy", n>>] = Permanently(n)
      BY <1>7, <1>13, <2>3 DEF target
    <3>4. Data(registry[m])' # None
      BY <1>7, <3>2
    <3>5. Shown(m)' = Permanently(n)
      BY <3>2, <3>3 DEF Shown
    <3> QED
      BY <1>11, <2>2, <2>3, <3>4, <3>5 DEF Ready
  <2>4. CASE ~replaced
    <3>1. registry'[m] = registry[m]
      BY <1>18, <2>1, <2>4
    <3>2. n \in model.meta <=> m \in model.meta
      BY <1>3, <1>5, <2>1, ModelIs DEF WellFormed
    <3>3. registry[m] = Own(m)
      <4>1. Pending(m)
        BY <1>5, <2>1, AliasesAre DEF Pending
      <4> QED
        BY <1>2, <2>1, <4>1 DEF Building, Waits
    <3>4. Data(registry[m])' = Data(registry[m]) /\ Data(registry[m]) = IF n \in model.meta THEN None ELSE Base0(n)
      <4>1. Base0(m) = Base0(n)
        BY <2>1 DEF Base0
      <4>2. Data(registry[m]) = IF m \in model.meta THEN None ELSE Base0(m)
        BY <1>3, <2>1, <3>3, SharingIs
      <4> QED
        BY <1>1, <3>1, <3>2, <4>1, <4>2 DEF Data
    <3>5. n \notin model.meta => bytes'[Base0(n)] = Permanently(n)
      BY <1>7, <1>13, <2>4 DEF target
    <3>6. n \notin model.meta => Shown(m)' = Permanently(n) /\ Data(registry[m])' # None
      BY <1>7, <3>4, <3>5 DEF Shown
    <3> QED
      BY <1>10, <2>2, <2>4, <3>1, <3>3, <3>6 DEF Ready
  <2> QED
    BY <2>3, <2>4
<1>25. \A m \in Names : IF Pending(m)' THEN Waits(m)' ELSE Ready(m)'
  <2> SUFFICES ASSUME NEW m \in Names PROVE IF Pending(m)' THEN Waits(m)' ELSE Ready(m)'
    OBVIOUS
  <2>1. IF Pending(m) THEN Waits(m) ELSE Ready(m)
    BY <1>2 DEF Building
  <2> QED
    BY <1>22, <1>23, <1>24, <2>1
<1>26. Building'
  <2>1. \A p, q \in ops' : model'.tie[p.name] = model'.tie[q.name] => p = q
    BY <1>1, <1>2 DEF Building
  <2> QED
    BY <1>1, <1>4, <1>20, <1>21, <1>25, <2>1 DEF Building
<1> QED
  BY <1>1, <1>17, <1>26 DEF ModulesInv

-----------------------------------------------------------------------------
(* The capture *)

LEMMA StoragesDiffer ==
  /\ None \notin Storages
  /\ \A h \in Names : <<"host", h>> \in Storages /\ <<"gpu", h>> \in Storages /\ <<"gpu", h>> # None /\ <<"host", h>> # None
  /\ \A h \in Names : <<"host", h>>[1] = "host" /\ <<"host", h>>[2] = h /\ <<"gpu", h>>[1] = "gpu" /\ <<"gpu", h>>[2] = h
  /\ \A h : Owned(<<"host", h>>)
BY DEF Storages, None, Owned

\* A name captured shows what was merged for good.
LEMMA CapturedShows ==
  ASSUME model \in Models, Building, ops = {}, NEW n \in Names
  PROVE  /\ IsMeta(n) <=> ~Provided(n)
         /\ Provided(n) => Data(registry[n]) \in Storages /\ Shown(n) = Permanently(n)
         /\ Group(n) = Aliases(n)
<1>1. Pointed(registry) /\ Stored /\ Ready(n)
  BY DEF Building, Pending
<1>2. Provided(n) => Data(registry[n]) # None /\ Shown(n) = Permanently(n)
  BY <1>1 DEF Ready
<1>3. ~Provided(n) => IsMeta(n)
  BY <1>1, SharingIs DEF Ready, Provided
<1>4. Data(registry[n]) \in Storages \cup {None} /\ Tied(n) = Aliases(n)
  BY <1>1, SharingIs
<1>5. Aliases(n) \subseteq ParamNames(ComponentOf(n))
  <2>1. n \in ParamNames(ComponentOf(n)) /\ ComponentOf(n) \in Components
    BY ComponentIs
  <2> QED
    BY <2>1, TogetherAlways, AliasesAre
<1> QED
  BY <1>2, <1>3, <1>4, <1>5 DEF IsMeta, Group

LEMMA CaptureKeeps ==
  ASSUME ModulesInv, Capture
  PROVE  ModulesInv'
<1>1. /\ phase = "loaded"
      /\ model' = model /\ ops' = ops /\ acquired' = acquired /\ activation' = activation /\ routedUps' = routedUps
      /\ merged' = merged /\ steps' = steps
  BY DEF Capture
<1>2. /\ Opening /\ Building /\ ops = {} /\ acquired = {} /\ activation = NoSession /\ steps = 0
      /\ routedUps = [n \in Names |-> NoDeltas]
  BY <1>1 DEF ModulesInv, Opening
<1>3. model \in Models /\ Pointed(registry) /\ Stored /\ Distinct1(merged) /\ bytes \in [Storages -> Contents] /\ Mapped(bytes)
  BY <1>2 DEF Opening, Building
<1>4. CASE ~BlocksAgree \/ \E n \in Names : ~Captures(n)
  <2>1. phase' = "dead" /\ bytes' = bytes
    BY <1>4 DEF Capture
  <2>2. Mapped(bytes)' /\ Distinct1(merged)'
    BY <1>1, <1>3, <2>1 DEF Mapped, Base0, Distinct1
  <2> QED
    BY <1>1, <1>2, <2>1, <2>2 DEF ModulesInv, Opening
<1>5. CASE ~(~BlocksAgree \/ \E n \in Names : ~Captures(n))
  <2>1. /\ phase' = "idle"
        /\ host' = [n \in Names |-> CHOOSE m \in Group(n) : TRUE]
        /\ backing' = [n \in Names |->
                         IF IsMeta(n) THEN None
                         ELSE IF Trains(n) /\ ~Owned(Data(registry[n])) THEN <<"host", host'[n]>>
                         ELSE Data(registry[n])]
        /\ bytes' = [s \in Storages |->
                       IF \E n \in Names : backing'[n] = s THEN Shown(CHOOSE n \in Names : backing'[n] = s) ELSE bytes[s]]
        /\ registry' = [n \in Names |-> IF Trains(n) THEN registry[n] ELSE <<"cpu", host'[n]>>]
        /\ data' = [o \in Writables |->
                      IF \E n \in Names : Trains(n) /\ registry[n] = o
                      THEN backing'[CHOOSE n \in Names : Trains(n) /\ registry[n] = o] ELSE data[o]]
    BY <1>5 DEF Capture
  <2>2. \A n \in Names : Captures(n)
    BY <1>5
  <2>3. ASSUME NEW n \in Names
        PROVE  /\ host'[n] \in Aliases(n) /\ host'[n] \in Names /\ model.tie[host'[n]] = model.tie[n]
               /\ IsMeta(n) <=> ~Provided(n)
               /\ Provided(n) => Data(registry[n]) \in Storages /\ Shown(n) = Permanently(n)
               /\ \A m \in Aliases(n) : host'[m] = host'[n] /\ (Trains(m) <=> Trains(n))
               /\ Trains(n) => Provided(n)
    <3>1. /\ Group(n) = Aliases(n)
          /\ IsMeta(n) <=> ~Provided(n)
          /\ Provided(n) => Data(registry[n]) \in Storages /\ Shown(n) = Permanently(n)
      BY <1>2, <1>3, CapturedShows
    <3>2. host'[n] \in Aliases(n)
      BY <2>1, <3>1, AliasesAre
    <3>3. \A m \in Aliases(n) : m \in Names /\ Group(m) = Group(n)
      BY <1>2, <1>3, <3>1, CapturedShows, AliasesAre
    <3>4. \A m \in Aliases(n) : host'[m] = host'[n] /\ (Trains(m) <=> Trains(n))
      BY <2>1, <2>2, <3>1, <3>3 DEF Captures
    <3>5. Trains(n) => Provided(n)
      BY <2>2, <3>1 DEF Captures
    <3> QED
      BY <3>1, <3>2, <3>4, <3>5, AliasesAre
  <2>4. ASSUME NEW n \in Names
        PROVE  /\ backing'[n] = None <=> ~Provided(n)
               /\ backing'[n] \in Storages \cup {None}
               /\ backing'[n][1] # "gpu"
               /\ Trains(n) => backing'[n] # None /\ Owned(backing'[n])
               /\ Provided(n) => backing'[n] = <<"host", host'[n]>> \/ backing'[n] = Data(registry[n])
               /\ backing'[n][1] = "base" => backing'[n] = Data(registry[n])
    <3>1. backing'[n] = IF IsMeta(n) THEN None
                        ELSE IF Trains(n) /\ ~Owned(Data(registry[n])) THEN <<"host", host'[n]>> ELSE Data(registry[n])
      BY <2>1
    <3>2. Provided(n) => Data(registry[n]) \in Storages /\ Data(registry[n])[1] # "gpu" /\ Data(registry[n])[1] # "host"
      <4>1. Data(registry[n]) = IF registry[n] = Own(n) THEN (IF n \in model.meta THEN None ELSE Base0(n)) ELSE registry[n]
        BY <1>3, SharingIs
      <4>2. registry[n] \in Writables
        BY <1>3, SharingIs
      <4>3. Provided(n) => Data(registry[n]) \in Storages
        BY <2>3
      <4>4. registry[n][1] # "gpu" /\ registry[n][1] # "host" /\ Base0(n)[1] = "base" /\ None[1] = "none"
        BY <4>2 DEF Writables, Base0, None
      <4> QED
        BY <4>1, <4>3, <4>4
    <3>3. (IsMeta(n) <=> ~Provided(n)) /\ host'[n] \in Names /\ (Trains(n) => Provided(n))
      BY <2>3
    <3>4. None[1] = "none" /\ None # <<"host", host'[n]>>
      BY DEF None
    <3> DEFINE b == backing'[n]
               d == Data(registry[n])
               h == <<"host", host'[n]>>
    <3>5. h \in Storages /\ h[1] = "host" /\ Owned(h) /\ h # None /\ None \notin Storages
      BY <3>3, StoragesDiffer
    <3> HIDE DEF b, d, h
    <3>6. CASE IsMeta(n)
      <4>1. b = None /\ ~Provided(n) /\ ~Trains(n)
        BY <3>1, <3>3, <3>6 DEF b
      <4> QED
        BY <3>4, <4>1 DEF b, d, h
    <3>7. CASE ~IsMeta(n) /\ Trains(n) /\ ~Owned(d)
      <4>1. b = h /\ Provided(n)
        BY <3>1, <3>3, <3>7 DEF b, d, h
      <4> QED
        BY <3>5, <4>1 DEF b, d, h
    <3>8. CASE ~IsMeta(n) /\ ~(Trains(n) /\ ~Owned(d))
      <4>1. b = d /\ Provided(n) /\ (Trains(n) => Owned(b))
        BY <3>1, <3>3, <3>8 DEF b, d
      <4>2. d \in Storages /\ d[1] # "gpu" /\ d # None
        BY <3>2, <3>5, <4>1 DEF d
      <4> QED
        BY <4>1, <4>2 DEF b, d
    <3> QED
      BY <3>6, <3>7, <3>8
  <2>5. \A n, o \in Names : model.tie[n] = model.tie[o] => backing'[n] = backing'[o] /\ host'[n] = host'[o] /\ (Trains(n) <=> Trains(o))
    <3>1. ASSUME NEW n \in Names, NEW o \in Names, model.tie[n] = model.tie[o]
          PROVE  backing'[n] = backing'[o] /\ host'[n] = host'[o] /\ (Trains(n) <=> Trains(o))
      <4>1. o \in Aliases(n)
        BY <3>1, AliasesAre
      <4>2. host'[n] = host'[o] /\ (Trains(n) <=> Trains(o))
        BY <2>3, <4>1
      <4>3. Data(registry[n]) = Data(registry[o]) /\ (IsMeta(n) <=> IsMeta(o))
        BY <1>3, <3>1, SharingIs
      <4>4. \A m \in Names : backing'[m] = IF IsMeta(m) THEN None
                        ELSE IF Trains(m) /\ ~Owned(Data(registry[m])) THEN <<"host", host'[m]>> ELSE Data(registry[m])
        BY <2>1
      <4>5. Owned(Data(registry[n])) <=> Owned(Data(registry[o]))
        BY <4>3
      <4>6. backing'[n] = backing'[o]
        BY <4>2, <4>3, <4>4, <4>5
      <4> QED
        BY <4>2, <4>6
    <3> QED
      BY <3>1
  <2>6. \A n, o \in Names : backing'[n] # None /\ backing'[n] = backing'[o] => model.tie[n] = model.tie[o]
    <3>1. ASSUME NEW n \in Names, NEW o \in Names, backing'[n] # None, backing'[n] = backing'[o]
          PROVE  model.tie[n] = model.tie[o]
      <4>1. /\ ~IsMeta(n) /\ ~IsMeta(o)
            /\ backing'[n] = <<"host", host'[n]>> \/ backing'[n] = Data(registry[n])
            /\ backing'[o] = <<"host", host'[o]>> \/ backing'[o] = Data(registry[o])
        BY <2>3, <2>4, <3>1
      <4>2. Data(registry[n])[1] # "host" /\ Data(registry[o])[1] # "host"
        <5>1. ASSUME NEW m \in Names
              PROVE  Data(registry[m])[1] # "host"
          <6>1. registry[m] \in Writables
            BY <1>3, SharingIs
          <6>2. registry[m][1] # "host" /\ Base0(m)[1] = "base" /\ None[1] = "none"
            BY <6>1 DEF Writables, Base0, None
          <6> QED
            BY <1>3, <6>2, SharingIs
        <5> QED
          BY <5>1
      <4>3. <<"host", host'[n]>>[1] = "host" /\ <<"host", host'[n]>>[2] = host'[n] /\ <<"host", host'[o]>>[1] = "host" /\ <<"host", host'[o]>>[2] = host'[o]
        OBVIOUS
      <4>4. CASE backing'[n] = Data(registry[n]) /\ backing'[o] = Data(registry[o])
        <5>1. Identity(n) = Identity(o)
          BY <3>1, <4>1, <4>4 DEF Identity
        <5> QED
          BY <1>3, <5>1, SharingIs
      <4>5. CASE backing'[n] = <<"host", host'[n]>> /\ backing'[o] = <<"host", host'[o]>>
        <5>1. host'[n] = host'[o]
          BY <3>1, <4>3, <4>5
        <5> QED
          BY <2>3, <5>1
      <4> QED
        BY <3>1, <4>1, <4>2, <4>3, <4>4, <4>5
    <3> QED
      BY <3>1
  <2>7. host' \in [Names -> Names] /\ backing' \in [Names -> Storages \cup {None}]
    <3>1. DOMAIN host' = Names /\ DOMAIN backing' = Names /\ host' = [n \in Names |-> host'[n]] /\ backing' = [n \in Names |-> backing'[n]]
      BY <2>1
    <3> QED
      BY <2>3, <2>4, <3>1
  <2>8. Hosted'
    <3>1. \A n : (Trains(n)' <=> Trains(n)) /\ Aliases(n)' = Aliases(n) /\ (Provided(n)' <=> Provided(n)) /\ (Owned(n)' <=> Owned(n))
      BY <1>1, SameModel, SamePast
    <3>2. \A n \in Names : host'[n] \in Aliases(n)'
      BY <2>3, <3>1
    <3>3. \A n, o \in Names : model'.tie[n] = model'.tie[o] => host'[n] = host'[o] /\ backing'[n] = backing'[o] /\ (Trains(n)' <=> Trains(o)')
      BY <1>1, <2>5, <3>1
    <3>4. \A n, o \in Names : backing'[n] # None /\ backing'[n] = backing'[o] => model'.tie[n] = model'.tie[o]
      BY <1>1, <2>6
    <3>5. \A n \in Names :
            /\ backing'[n] = None <=> ~Provided(n)'
            /\ backing'[n][1] # "gpu"
            /\ Trains(n)' => backing'[n] # None /\ Owned(backing[n])'
      BY <2>4, <3>1
    <3> QED
      BY <2>7, <3>2, <3>3, <3>4, <3>5 DEF Hosted
  <2>9. ASSUME NEW s \in Storages, NEW n \in Names, backing'[n] = s
        PROVE  Provided(n) /\ bytes'[s] = Shown(n) /\ Shown(n) = Permanently(n) /\ Shown(n) \in Contents
    <3> DEFINE m == CHOOSE o \in Names : backing'[o] = s
    <3>1. m \in Names /\ backing'[m] = s
      BY <2>9
    <3>2. bytes'[s] = Shown(m)
      BY <2>1, <2>9
    <3> HIDE DEF m
    <3>3. s # None
      BY StoragesDiffer
    <3>4. model.tie[m] = model.tie[n]
      BY <2>6, <2>9, <3>1, <3>3
    <3>5. Data(registry[m]) = Data(registry[n])
      BY <1>3, <3>1, <3>4, SharingIs
    <3>6. Provided(n)
      BY <2>4, <2>9, <3>3
    <3> QED
      BY <1>3, <2>3, <3>2, <3>5, <3>6, PermanentlyIn DEF Shown
  <2>10. \A s \in Storages : (\A n \in Names : backing'[n] # s) => bytes'[s] = bytes[s]
    BY <2>1
  <2>11. bytes' \in [Storages -> Contents]
    <3>1. \A s \in Storages : bytes'[s] \in Contents
      BY <1>3, <2>9, <2>10
    <3>2. bytes' = [s \in Storages |-> bytes'[s]]
      BY <2>1
    <3> QED
      BY <3>1, <3>2
  <2>12. Mapped(bytes)'
    <3> SUFFICES ASSUME NEW n \in model.mapped
                 PROVE  bytes'[Base0(n)] = bytes[Base0(n)]
      BY <1>1, <1>3, SameModel DEF Mapped
    <3>1. n \in Names /\ Base0(n) \in Storages /\ Base0(n)[1] = "base"
      BY <1>3, ModelIs DEF WellFormed, Base0, Storages
    <3>2. CASE \E m \in Names : backing'[m] = Base0(n)
      <4>1. PICK m \in Names : backing'[m] = Base0(n)
        BY <3>2
      <4>2. bytes'[Base0(n)] = Shown(m)
        BY <2>9, <3>1, <4>1
      <4>3. Data(registry[m]) = Base0(n)
        BY <2>4, <3>1, <4>1
      <4> QED
        BY <4>2, <4>3 DEF Shown
    <3>3. CASE ~\E m \in Names : backing'[m] = Base0(n)
      BY <2>10, <3>1, <3>3
    <3> QED
      BY <3>2, <3>3
  <2>13. Backed(bytes, steps)'
    <3> SUFFICES ASSUME NEW n \in Names, Provided(n)
                 PROVE  bytes'[backing'[n]] = Permanently(n) /\ Permanently(n).steps = 0
      BY <1>1, <1>2, SameModel, SamePast DEF Backed
    <3>1. backing'[n] \in Storages
      BY <2>4
    <3>2. bytes'[backing'[n]] = Permanently(n)
      BY <2>9, <3>1
    <3> QED
      BY <1>3, <3>2, PermanentlyIn
  <2>14. NamesOf({}) = {}
    BY DEF NamesOf
  <2>15. Pointing(activation, acquired, registry, data)'
    <3>1. \A n : (Trains(n)' <=> Trains(n))
      BY <1>1, SameModel
    <3>2. NamesOf(acquired)' = {}
      BY <1>1, <1>2, <2>14, SameModel
    <3>3. \A n \in Names : registry'[n] = IF Trains(n) THEN registry[n] ELSE <<"cpu", host'[n]>>
      BY <2>1
    <3>4. \A n \in Names : registry[n] \in Writables
      BY <1>3, SharingIs
    <3>5. registry' \in [Names -> Writables \cup ({"cpu", "gpu"} \X Names)]
      <4>1. \A n \in Names : registry'[n] \in Writables \cup ({"cpu", "gpu"} \X Names)
        <5> SUFFICES ASSUME NEW n \in Names PROVE registry'[n] \in Writables \cup ({"cpu", "gpu"} \X Names)
          OBVIOUS
        <5>1. host'[n] \in Names
          BY <2>3
        <5>2. <<"cpu", host'[n]>> \in {"cpu", "gpu"} \X Names
          BY <5>1
        <5> QED
          BY <3>3, <3>4, <5>2
      <4>2. registry' = [n \in Names |-> registry'[n]]
        BY <2>1
      <4> QED
        BY <4>1, <4>2
    <3>6. ASSUME NEW n \in Names, Trains(n)
          PROVE  data'[registry[n]] = backing'[n]
      <4> DEFINE m == CHOOSE o \in Names : Trains(o) /\ registry[o] = registry[n]
      <4>1. m \in Names /\ Trains(m) /\ registry[m] = registry[n]
        BY <3>6
      <4>2. data'[registry[n]] = backing'[m]
        BY <2>1, <3>4, <3>6
      <4> HIDE DEF m
      <4>3. model.tie[m] = model.tie[n]
        BY <1>3, <4>1, SharingIs
      <4> QED
        BY <2>5, <4>1, <4>2, <4>3
    <3>7. data' \in [Writables -> Storages \cup {None}]
      <4>1. \A o \in Writables : data[o] \in Storages \cup {None}
        <5>1. \A n \in Names : model.tie[n] \in Names
          BY <1>3, ModelIs
        <5> QED
          BY <1>3, <5>1 DEF Stored, Writables, Storages
      <4>2. ASSUME NEW o \in Writables
            PROVE  data'[o] \in Storages \cup {None}
        <5>1. CASE \E n \in Names : Trains(n) /\ registry[n] = o
          <6>1. PICK n \in Names : Trains(n) /\ registry[n] = o
            BY <5>1
          <6> QED
            BY <2>4, <3>6, <6>1
        <5>2. CASE ~\E n \in Names : Trains(n) /\ registry[n] = o
          BY <2>1, <4>1, <5>2
        <5> QED
          BY <5>1, <5>2
      <4>3. data' = [o \in Writables |-> data'[o]]
        BY <2>1
      <4> QED
        BY <4>2, <4>3
    <3>8. \A n, o \in Names : Trains(n) /\ Trains(o) /\ registry'[n] = registry'[o] => model.tie[n] = model.tie[o]
      BY <1>3, <3>3, SharingIs
    <3> QED
      BY <1>1, <3>1, <3>2, <3>3, <3>4, <3>5, <3>6, <3>7, <3>8 DEF Pointing
  <2>16. Targeted(activation, acquired, bytes, steps)'
    BY <1>1, <1>2, <2>14, SameModel DEF Targeted
  <2>17. Captured'
    BY <1>1, <1>2, <2>1, <2>8, <2>13, <2>15, <2>16 DEF Captured
  <2>18. Opening'
    <3>1. Distinct1(merged)'
      BY <1>1, <1>3 DEF Distinct1
    <3> QED
      BY <1>1, <1>2, <2>1, <2>11, <2>12, <3>1 DEF Opening
  <2> QED
    BY <2>1, <2>17, <2>18 DEF ModulesInv
<1> QED
  BY <1>4, <1>5

-----------------------------------------------------------------------------
(* What a session loads *)

LEMMA AddressedIs ==
  ASSUME model \in Models, NEW n \in Names
  PROVE  Addressed(n) = n
<1>1. CASE n \notin BlockParams
  BY <1>1 DEF Addressed
<1>2. CASE n \in BlockParams
  <2>1. n \in InBlocks /\ At[n] # NoBlock
    BY <1>2 DEF BlockParams, InBlocks
  <2>2. Position(n) \in DOMAIN BlockIndices /\ BlockIndices[Position(n)] = At[n]
    BY <2>1, BlockIndicesRight DEF Position
  <2>3. BlockName(At[n], Local[n]) \in InBlocks /\ At[BlockName(At[n], Local[n])] = At[n] /\ Local[BlockName(At[n], Local[n])] = Local[n]
    BY <2>1 DEF BlockName
  <2>4. BlockName(At[n], Local[n]) = n
    BY <2>1, <2>3, PlacesAssumption DEF InBlocks
  <2> QED
    BY <1>2, <2>2, <2>4 DEF Addressed
<1> QED
  BY <1>1, <1>2

\* Which names have storage, when the components acq are acquired.
LEMMA MetaIs ==
  ASSUME model \in Models, Hosted, NEW s, NEW acq, Pointing(s, acq, registry, data), NEW n \in Names
  PROVE  /\ IsMeta(n) <=> ~(Provided(n) \/ (n \in NamesOf(acq) /\ Avail(s, n)))
         /\ Data(registry[n]) =
              IF n \in NamesOf(acq) /\ (Trains(n) \/ Avail(s, n)) THEN <<"gpu", host[n]>> ELSE backing[n]
         /\ Trains(n) => Provided(n)
<1>1. host[n] \in Names /\ model.tie[host[n]] = model.tie[n] /\ backing[host[n]] = backing[n]
  BY AliasesAre DEF Hosted
<1>2. /\ backing[n] = None <=> ~Provided(n)
      /\ Trains(n) => Provided(n)
      /\ <<"gpu", host[n]>> # None
  BY <1>1, StoragesDiffer DEF Hosted
<1>3. CASE Trains(n)
  <2>1. registry[n] \in Writables /\ data[registry[n]] = IF n \in NamesOf(acq) THEN <<"gpu", host[n]>> ELSE backing[n]
    BY <1>3 DEF Pointing
  <2>2. Data(registry[n]) = data[registry[n]]
    BY <2>1 DEF Data, Writables
  <2> QED
    BY <1>2, <1>3, <2>1, <2>2 DEF IsMeta
<1>4. CASE ~Trains(n)
  <2>1. registry[n] = IF n \in NamesOf(acq) /\ Avail(s, n) THEN <<"gpu", host[n]>> ELSE <<"cpu", host[n]>>
    BY <1>4 DEF Pointing
  <2>2. Data(<<"gpu", host[n]>>) = <<"gpu", host[n]>> /\ Data(<<"cpu", host[n]>>) = backing[host[n]]
    BY DEF Data
  <2>3. Data(registry[n]) = IF n \in NamesOf(acq) /\ Avail(s, n) THEN <<"gpu", host[n]>> ELSE backing[n]
    BY <1>1, <2>1, <2>2
  <2> QED
    BY <1>2, <1>4, <2>3 DEF IsMeta
<1> QED
  BY <1>3, <1>4

\* The updates that are loaded: those with a value, or with a base.
PlansRight(s) ==
  s.mode = "merge" =>
    \A n \in Updated(s.request) :
      n \in Planned(s.request) <=> Contributions(s.request, n).values # <<>> \/ Provided(n)

\* The one update that a storage gets.
LEMMA OverridesAre ==
  ASSUME model \in Models, Hosted, NEW s, s.mode = "merge", NEW n \in Names, NEW u, Alone(s.request, Aliases(n), u)
  PROVE  OverridesOf(host[n], Overrides(s)) = IF u \in Planned(s.request) THEN {PlanOf(s.request, u)} ELSE {}
<1> DEFINE P == Planned(s.request)
           o == Overrides(s)
<1>1. P \subseteq Updated(s.request) /\ P \subseteq Names
  BY DEF Planned, Updated
<1>2. DOMAIN o = P /\ \A m \in P : o[m] = PlanOf(s.request, m)
  <2>1. CASE Updated(s.request) # {}
    BY <2>1 DEF Overrides
  <2>2. CASE Updated(s.request) = {}
    <3>1. P = {} /\ o = <<>> /\ DOMAIN <<>> = {}
      BY <1>1, <2>2 DEF Overrides
    <3> QED
      BY <3>1
  <2> QED
    BY <2>1, <2>2
<1>3. \A m \in P : host[Addressed(m)] = host[n] <=> m \in Aliases(n)
  <2> SUFFICES ASSUME NEW m \in P PROVE host[m] = host[n] <=> m \in Aliases(n)
    BY <1>1, AddressedIs
  <2>1. m \in Names /\ host[m] \in Aliases(m) /\ host[n] \in Aliases(n)
    BY <1>1 DEF Hosted
  <2>2. m \in Aliases(n) => host[m] = host[n]
    BY <2>1, AliasesAre DEF Hosted
  <2>3. host[m] = host[n] => m \in Aliases(n)
    BY <2>1, AliasesAre
  <2> QED
    BY <2>2, <2>3
<1>4. \A m \in P : m \in Aliases(n) => m = u
  BY <1>1 DEF Alone
<1>5. u \in Aliases(n)
  BY DEF Alone
<1> HIDE DEF P, o
<1>6. OverridesOf(host[n], o) = {o[m] : m \in {q \in P : q = u}}
  BY <1>2, <1>3, <1>4, <1>5 DEF OverridesOf
<1>7. CASE u \in P
  BY <1>2, <1>6, <1>7 DEF P, o
<1>8. CASE u \notin P
  BY <1>6, <1>8 DEF P, o
<1> QED
  BY <1>7, <1>8

\* Routed adapters load nothing but the copies.
LEMMA RoutedGivesNothing ==
  ASSUME model \in Models, NEW s, Serving(s), s.mode = "routed", NEW n \in Names
  PROVE  /\ Gives(s.request, Aliases(n)) = {}
         /\ \A x \in Contents : After(x, s.request, {}) = x
<1>1. s.request \in Seq(Uses) /\ Right(s.request) /\ Groups(s.request)
  BY DEF Serving, Right
<1>2. ASSUME NEW i \in Gives(s.request, Aliases(n))
      PROVE  FALSE
  <2>1. /\ i \in DOMAIN s.request /\ s.request[i].strength # 0
        /\ Part(s.request[i].spec, "value") \cap Aliases(n) # {}
    BY DEF Gives, Asks
  <2>2. PICK m \in Aliases(n) : m \in Part(s.request[i].spec, "value")
    BY <2>1
  <2>3. m \in Names /\ m \in Targets(s.request[i].spec)
    BY <2>2, AliasesAre DEF Targets
  <2>4. s.request[i] \in Adapters(s.request)
    BY <2>1 DEF Adapters, ToSet
  <2>5. m \in Updated(s.request)
    BY <2>3, <2>4 DEF Updated
  <2>6. Contributions(s.request, m).values = <<>>
    BY <2>5 DEF Serving
  <2>7. i \in Gives(s.request, {m})
    BY <2>1, <2>2, <2>3 DEF Gives, Asks
  <2>8. Alone(s.request, {m}, m)
    BY <2>3 DEF Alone
  <2>9. Pristine(None) \in Contents
    BY PristineIn DEF Froms
  <2> QED
    BY <1>1, <2>6, <2>7, <2>8, <2>9, AppliedIsAfter
<1>3. \A x \in Contents : After(x, s.request, {}) = x
  <2> DEFINE none == {}
  <2>1. none \in SUBSET Names /\ Updated(s.request) \cap none = {}
    OBVIOUS
  <2> HIDE DEF none
  <2>2. \A x \in Contents : After(x, s.request, none) = x
    BY <1>1, <2>1, AfterNothing
  <2> QED
    BY <2>2 DEF none
<1> QED
  BY <1>2, <1>3

\* A component's load of a name: whether there is one, and what it brings.
LEMMA LoadedIs ==
  ASSUME model \in Models, Distinct1(merged), Hosted, bytes \in [Storages -> Contents], steps \in Nat, Backed(bytes, steps),
         NEW s, Serving(s), PlansRight(s), s.device = "cuda", NEW n \in Names
  PROVE  /\ Loads(host[n], Overrides(s)) <=> Avail(s, n)
         /\ Avail(s, n) =>
              /\ Loaded(host[n], Overrides(s)) \in Contents
              /\ IF Trains(n) THEN /\ Loaded(host[n], Overrides(s)).steps = steps
                                   /\ steps = 0 => Loaded(host[n], Overrides(s)) = Target(s, n)
                 ELSE Loaded(host[n], Overrides(s)) = Target(s, n)
<1> DEFINE A == Aliases(n)
           ld == Loaded(host[n], Overrides(s))
           b == bytes[backing[n]]
<1>1. host[n] \in Names /\ backing[host[n]] = backing[n] /\ (backing[n] = None <=> ~Provided(n))
  BY AliasesAre DEF Hosted
<1>2. Provided(n) => /\ backing[n] \in Storages /\ b \in Contents
                     /\ IF Trains(n) THEN b.steps = steps /\ (steps = 0 => b = Permanently(n)) ELSE b = Permanently(n)
  <2>1. backing[n] \in Storages \cup {None}
    BY DEF Hosted
  <2> QED
    BY <1>1, <2>1 DEF Backed
<1>3. Trains(n) => Provided(n)
  BY <1>1 DEF Hosted
<1>4. s.request \in Seq(Uses) /\ Right(s.request) /\ Groups(s.request) /\ s \in Sessions
  BY DEF Serving, Right
<1>5. Permanently(n) \in Contents
  BY PermanentlyIn
<1>6. CASE s.mode = "routed"
  <2>1. Gives(s.request, A) = {} /\ \A x \in Contents : After(x, s.request, {}) = x
    BY <1>6, RoutedGivesNothing
  <2>2. Overrides(s) = <<>>
    BY <1>6 DEF Overrides
  <2>3. OverridesOf(host[n], Overrides(s)) = {}
    BY <2>2 DEF OverridesOf
  <2>4. Loads(host[n], Overrides(s)) <=> Provided(n)
    BY <1>1, <2>3 DEF Loads
  <2>5. Avail(s, n) <=> Provided(n)
    BY <2>1 DEF Avail
  <2>6. ld = Apply(NoPlan, IF NoPlan.value # NoSpec THEN ValueOf(NoPlan.value) ELSE b)
    BY <1>1, <2>3 DEF Loaded, Override
  <2>7. Provided(n) => ld = b
    BY <1>2, <2>6, NoPlanIsNothing
  <2>8. Target(s, n) = Permanently(n)
    BY <1>5, <1>6, <2>1 DEF Target
  <2> HIDE DEF ld, b
  <2>9. Avail(s, n) =>
          ld \in Contents /\ IF Trains(n) THEN ld.steps = steps /\ (steps = 0 => ld = Target(s, n)) ELSE ld = Target(s, n)
    BY <1>2, <2>5, <2>7, <2>8
  <2> QED
    BY <2>4, <2>5, <2>9 DEF ld
<1>7. CASE s.mode = "merge"
  <2>1. PICK u \in A : Alone(s.request, A, u) /\ (Updated(s.request) \cap A # {} => u \in Updated(s.request))
    BY <1>7, AsksOfOne DEF Serving
  <2>2. u \in Names /\ model.tie[u] = model.tie[n] /\ (Provided(u) <=> Provided(n))
    BY <2>1, AliasesAre, AliasesSame
  <2> DEFINE c == Contributions(s.request, u)
             p == PlanOf(s.request, u)
             P == Planned(s.request)
             o == OverridesOf(host[n], Overrides(s))
  <2>3. o = IF u \in P THEN {p} ELSE {}
    BY <1>7, <2>1, OverridesAre
  <2>4. \A x \in Contents :
          /\ p.value # NoSpec <=> Gives(s.request, A) # {}
          /\ c.values # <<>> <=> Gives(s.request, A) # {}
          /\ Apply(p, Base(p, x)) = After(x, s.request, A)
          /\ After(x, s.request, A) \in Contents
          /\ After(x, s.request, A).steps = IF Gives(s.request, A) = {} THEN x.steps ELSE 0
    BY <1>4, <2>1, AppliedIsAfter
  <2>5. p.value # NoSpec <=> Gives(s.request, A) # {}
    BY <1>5, <2>4
  <2>6. c.values # <<>> <=> Gives(s.request, A) # {}
    BY <1>5, <2>4
  <2>7. u \in P <=> u \in Updated(s.request) /\ (Gives(s.request, A) # {} \/ Provided(n))
    <3>1. P \subseteq Updated(s.request)
      BY DEF Planned
    <3> QED
      BY <1>7, <2>2, <2>6, <3>1 DEF PlansRight
  <2>8. Gives(s.request, A) # {} => u \in Updated(s.request)
    BY <1>4, <2>1, AskedAlone DEF Gives
  <2>9. Loads(host[n], Overrides(s)) <=> Avail(s, n)
    BY <1>1, <2>3, <2>7, <2>8 DEF Loads, Avail
  <2>10. Target(s, n) = After(Permanently(n), s.request, A)
    BY <1>7 DEF Target
  <2> DEFINE x == IF Provided(n) THEN b ELSE Permanently(n)
  <2>11. x \in Contents /\ IF Trains(n) THEN x.steps = steps /\ (steps = 0 => x = Permanently(n)) ELSE x = Permanently(n)
    BY <1>2, <1>3, <1>5
  <2>12. Trains(n) => Gives(s.request, A) = {}
    <3> SUFFICES ASSUME Trains(n), Gives(s.request, A) # {} PROVE FALSE
      OBVIOUS
    <3>1. u \in Updated(s.request) /\ c.values # <<>>
      BY <2>6, <2>8
    <3>2. ~Provided(u)
      BY <1>7, <3>1 DEF Serving
    <3> QED
      BY <1>3, <2>2, <3>2
  <2>13. Avail(s, n) => ld = After(x, s.request, A)
    <3> SUFFICES ASSUME Avail(s, n) PROVE ld = After(x, s.request, A)
      OBVIOUS
    <3>1. CASE u \in P
      <4>1. Override(host[n], Overrides(s)) = p
        BY <2>3, <3>1 DEF Override
      <4>2. ld = Apply(p, IF p.value # NoSpec THEN ValueOf(p.value) ELSE b)
        BY <1>1, <4>1 DEF Loaded
      <4>3. p.value = NoSpec => x = b
        BY <2>5 DEF Avail
      <4>4. ld = Apply(p, Base(p, x))
        BY <4>2, <4>3 DEF Base
      <4> QED
        BY <2>4, <2>11, <4>4
    <3>2. CASE u \notin P
      <4>1. Override(host[n], Overrides(s)) = NoPlan
        BY <2>3, <3>2 DEF Override
      <4>2. Provided(n) /\ u \notin Updated(s.request)
        BY <2>7, <2>8, <3>2 DEF Avail
      <4>3. ld = Apply(NoPlan, IF NoPlan.value # NoSpec THEN ValueOf(NoPlan.value) ELSE b)
        BY <1>1, <4>1 DEF Loaded
      <4>4. ld = x
        BY <1>2, <4>2, <4>3, NoPlanIsNothing
      <4>5. Updated(s.request) \cap A = {} /\ A \in SUBSET Names
        BY <2>1, <4>2, AliasesAre
      <4> HIDE DEF A, x
      <4> QED
        BY <1>4, <2>11, <4>4, <4>5, AfterNothing
    <3> QED
      BY <3>1, <3>2
  <2> HIDE DEF x, ld, b, A
  <2>14. Avail(s, n) =>
           ld \in Contents /\ IF Trains(n) THEN ld.steps = steps /\ (steps = 0 => ld = Target(s, n)) ELSE ld = Target(s, n)
    BY <2>4, <2>10, <2>11, <2>12, <2>13
  <2> QED
    BY <2>9, <2>14 DEF ld
<1> QED
  BY <1>4, <1>6, <1>7 DEF Sessions

-----------------------------------------------------------------------------
(* Installing targets, and the host again *)

LEMMA NamesOfJoin ==
  /\ \A acq, parts : NamesOf(acq \cup parts) = NamesOf(acq) \cup NamesOf(parts)
  /\ \A c : NamesOf({c}) = ParamNames(c)
  /\ NamesOf({}) = {}
BY DEF NamesOf

\* The host's bytes and the mapped files are not among the targets.
LEMMA OnlyTargets ==
  ASSUME model \in Models, Hosted, steps \in Nat, NEW k, NEW byt, NEW byt2, Backed(byt, k), Mapped(byt),
         \A s \in Storages : s[1] # "gpu" => byt2[s] = byt[s]
  PROVE  Backed(byt2, k) /\ Mapped(byt2)
<1>1. ASSUME NEW n \in Names, Provided(n)
      PROVE  byt2[backing[n]] = byt[backing[n]]
  <2>1. backing[n] \in Storages /\ backing[n][1] # "gpu"
    BY <1>1 DEF Hosted
  <2> QED
    BY <2>1
<1>2. \A n \in model.mapped : Base0(n) \in Storages /\ Base0(n)[1] # "gpu"
  BY ModelIs DEF WellFormed, Base0, Storages
<1> QED
  BY <1>1, <1>2 DEF Backed, Mapped

LEMMA InstallTargetsKeeps ==
  ASSUME model \in Models, Distinct1(merged), Hosted, bytes \in [Storages -> Contents], steps \in Nat,
         Backed(bytes, steps), Mapped(bytes),
         NEW s, Serving(s), PlansRight(s), s.device = "cuda",
         NEW acq \in SUBSET Components, NEW parts \in SUBSET Components,
         Pointing(s, acq, registry, data), Targeted(s, acq, bytes, steps),
         InstallTargets(NamesOf(parts), Overrides(s))
  PROVE  /\ Pointing(s, acq \cup parts, registry', data') /\ Targeted(s, acq \cup parts, bytes', steps)
         /\ Backed(bytes', steps) /\ Mapped(bytes') /\ bytes' \in [Storages -> Contents]
         /\ \A n \in Names : Trains(n) => registry'[n] = registry[n]
<1> DEFINE names == NamesOf(parts)
           loads == {n \in names : Loads(host[n], Overrides(s))}
           trains == {n \in loads : Trains(n)}
           gpus == {<<"gpu", host[n]>> : n \in loads}
<1>1. /\ bytes' = [t \in Storages |-> IF t \in gpus THEN Loaded(t[2], Overrides(s)) ELSE bytes[t]]
      /\ registry' = [n \in Names |-> IF n \in loads \ trains THEN <<"gpu", host[n]>> ELSE registry[n]]
      /\ data' = [o \in Writables |->
                    IF o \in {registry[n] : n \in trains}
                    THEN <<"gpu", host[CHOOSE n \in trains : registry[n] = o]>> ELSE data[o]]
  BY DEF InstallTargets
<1>2. names \subseteq Names /\ NamesOf(acq) \subseteq Names /\ NamesOf(acq \cup parts) = NamesOf(acq) \cup names
  BY NamesOfAre, NamesOfJoin
<1>3. ASSUME NEW n \in Names
      PROVE  /\ host[n] \in Names /\ model.tie[host[n]] = model.tie[n]
             /\ Loads(host[n], Overrides(s)) <=> Avail(s, n)
             /\ Avail(s, n) =>
                  /\ Loaded(host[n], Overrides(s)) \in Contents
                  /\ IF Trains(n) THEN /\ Loaded(host[n], Overrides(s)).steps = steps
                                       /\ steps = 0 => Loaded(host[n], Overrides(s)) = Target(s, n)
                     ELSE Loaded(host[n], Overrides(s)) = Target(s, n)
             /\ Trains(n) => Avail(s, n)
  <2>1. host[n] \in Names /\ model.tie[host[n]] = model.tie[n]
    BY AliasesAre DEF Hosted
  <2>2. Trains(n) => Avail(s, n)
    BY DEF Hosted, Avail
  <2> QED
    BY <2>1, <2>2, LoadedIs
<1>4. \A n \in Names : n \in loads <=> n \in names /\ Avail(s, n)
  BY <1>2, <1>3
<1>5. \A n \in Names : n \in trains <=> n \in names /\ Trains(n)
  BY <1>3, <1>4
<1>6. loads \subseteq Names /\ trains \subseteq loads
  BY <1>2
<1>7. \A n, o \in Names : host[n] = host[o] => model.tie[n] = model.tie[o]
  BY <1>3
<1> HIDE DEF loads, trains, gpus, names
<1>8. \A n \in loads : <<"gpu", host[n]>> \in Storages /\ <<"gpu", host[n]>> \in gpus
  BY <1>3, <1>6, StoragesDiffer DEF gpus
<1>9. \A t \in Storages : t[1] # "gpu" => bytes'[t] = bytes[t]
  <2>1. \A t \in gpus : t[1] = "gpu"
    BY DEF gpus
  <2> QED
    BY <1>1, <2>1
<1>10. ASSUME NEW n \in loads
       PROVE  bytes'[<<"gpu", host[n]>>] = Loaded(host[n], Overrides(s))
  <2>1. <<"gpu", host[n]>>[2] = host[n]
    OBVIOUS
  <2> QED
    BY <1>1, <1>8, <2>1
<1>11. ASSUME NEW n \in Names, <<"gpu", host[n]>> \notin gpus
       PROVE  bytes'[<<"gpu", host[n]>>] = bytes[<<"gpu", host[n]>>]
  BY <1>1, <1>3, <1>11, StoragesDiffer
<1>12. ASSUME NEW n \in Names
       PROVE  <<"gpu", host[n]>> \in gpus <=> n \in loads
  <2>1. ASSUME NEW m \in loads, <<"gpu", host[n]>> = <<"gpu", host[m]>>
        PROVE  n \in loads
    <3>1. <<"gpu", host[n]>>[2] = host[n] /\ <<"gpu", host[m]>>[2] = host[m]
      OBVIOUS
    <3>2. m \in Names /\ model.tie[n] = model.tie[m]
      BY <1>6, <1>7, <2>1, <3>1
    <3>3. n \in names <=> m \in names
      BY <3>2, NamesOfAre DEF names
    <3>4. Avail(s, n) <=> Avail(s, m)
      BY <3>2, AliasesSame DEF Avail
    <3> QED
      BY <1>4, <3>2, <3>3, <3>4
  <2> QED
    BY <1>8, <2>1 DEF gpus
<1>13. bytes' \in [Storages -> Contents]
  <2> SUFFICES ASSUME NEW t \in Storages PROVE bytes'[t] \in Contents
    BY <1>1
  <2>1. CASE t \in gpus
    <3>1. PICK n \in loads : t = <<"gpu", host[n]>>
      BY <2>1 DEF gpus
    <3> QED
      BY <1>3, <1>4, <1>6, <1>10, <3>1
  <2>2. CASE t \notin gpus
    BY <1>1, <2>2
  <2> QED
    BY <2>1, <2>2
<1>14. Backed(bytes', steps) /\ Mapped(bytes')
  BY <1>9, OnlyTargets
<1>15. Targeted(s, acq \cup parts, bytes', steps)
  <2> SUFFICES ASSUME NEW n \in NamesOf(acq) \cup names, Avail(s, n)
               PROVE  IF Trains(n) THEN bytes'[<<"gpu", host[n]>>].steps = steps /\ (steps = 0 => bytes'[<<"gpu", host[n]>>] = Target(s, n))
                      ELSE bytes'[<<"gpu", host[n]>>] = Target(s, n)
    BY <1>2 DEF Targeted
  <2>1. n \in Names
    BY <1>2
  <2>2. CASE n \in loads
    BY <1>3, <1>10, <2>1, <2>2
  <2>3. CASE n \notin loads
    <3>1. n \in NamesOf(acq)
      BY <1>4, <2>1, <2>3
    <3>2. bytes'[<<"gpu", host[n]>>] = bytes[<<"gpu", host[n]>>]
      BY <1>11, <1>12, <2>1, <2>3
    <3> QED
      BY <3>1, <3>2 DEF Targeted
  <2> QED
    BY <2>2, <2>3
<1>16. \A n \in Names : registry'[n] = IF n \in loads \ trains THEN <<"gpu", host[n]>> ELSE registry[n]
  BY <1>1
<1>17. \A n \in Names : Trains(n) => registry'[n] = registry[n] /\ registry[n] \in Writables
  BY <1>4, <1>5, <1>16 DEF Pointing
<1>18. \A n, o \in Names : Trains(n) /\ Trains(o) /\ registry[n] = registry[o] => model.tie[n] = model.tie[o]
  BY DEF Pointing
<1>19. \A n, o \in Names : model.tie[n] = model.tie[o] => host[n] = host[o] /\ (n \in names <=> o \in names)
  BY NamesOfAre DEF Hosted, names
<1>20. ASSUME NEW n \in Names, Trains(n)
       PROVE  data'[registry[n]] = IF n \in NamesOf(acq \cup parts) THEN <<"gpu", host[n]>> ELSE backing[n]
  <2>1. CASE n \in names
    <3> DEFINE m == CHOOSE q \in trains : registry[q] = registry[n]
    <3>1. n \in trains
      BY <1>5, <1>20, <2>1
    <3>2. m \in trains /\ registry[m] = registry[n]
      BY <3>1
    <3>3. registry[n] \in {registry[q] : q \in trains}
      BY <3>1
    <3>4. data'[registry[n]] = <<"gpu", host[m]>>
      BY <1>1, <1>17, <1>20, <3>3
    <3> HIDE DEF m
    <3>5. m \in Names /\ Trains(m)
      BY <1>5, <1>6, <3>2
    <3>6. host[m] = host[n]
      BY <1>18, <1>19, <1>20, <3>2, <3>5
    <3> QED
      BY <1>2, <2>1, <3>4, <3>6
  <2>2. CASE n \notin names
    <3>1. ASSUME NEW q \in trains, registry[q] = registry[n]
          PROVE  FALSE
      <4>1. q \in Names /\ Trains(q) /\ q \in names
        BY <1>5, <1>6
      <4>2. model.tie[q] = model.tie[n]
        BY <1>18, <1>20, <3>1, <4>1
      <4> QED
        BY <1>19, <2>2, <4>1, <4>2
    <3>2. data'[registry[n]] = data[registry[n]]
      BY <1>1, <1>17, <1>20, <3>1
    <3> QED
      BY <1>2, <1>20, <2>2, <3>2 DEF Pointing
  <2> QED
    BY <2>1, <2>2
<1>21. registry' \in [Names -> Writables \cup ({"cpu", "gpu"} \X Names)]
  <2>1. ASSUME NEW n \in Names
        PROVE  registry'[n] \in Writables \cup ({"cpu", "gpu"} \X Names)
    <3>1. registry[n] \in Writables \cup ({"cpu", "gpu"} \X Names)
      BY DEF Pointing
    <3>2. <<"gpu", host[n]>> \in {"cpu", "gpu"} \X Names
      BY <1>3
    <3> QED
      BY <1>16, <3>1, <3>2
  <2>2. registry' = [n \in Names |-> registry'[n]]
    BY <1>1
  <2> QED
    BY <2>1, <2>2
<1>22. data' \in [Writables -> Storages \cup {None}]
  <2>1. ASSUME NEW o \in Writables
        PROVE  data'[o] \in Storages \cup {None}
    <3>1. CASE o \in {registry[n] : n \in trains}
      <4> DEFINE m == CHOOSE q \in trains : registry[q] = o
      <4>1. m \in trains
        BY <3>1
      <4>2. data'[o] = <<"gpu", host[m]>>
        BY <1>1, <3>1
      <4> HIDE DEF m
      <4>3. host[m] \in Names
        BY <1>3, <1>6, <4>1
      <4>4. <<"gpu", host[m]>> \in Storages
        BY <4>3, StoragesDiffer
      <4> QED
        BY <4>2, <4>4
    <3>2. CASE o \notin {registry[n] : n \in trains}
      <4>1. data'[o] = data[o]
        BY <1>1, <3>2
      <4> QED
        BY <4>1 DEF Pointing
    <3> QED
      BY <3>1, <3>2
  <2>2. data' = [o \in Writables |-> data'[o]]
    BY <1>1
  <2> QED
    BY <2>1, <2>2
<1>23. ASSUME NEW n \in Names, ~Trains(n)
       PROVE  registry'[n] = IF n \in NamesOf(acq \cup parts) /\ Avail(s, n) THEN <<"gpu", host[n]>> ELSE <<"cpu", host[n]>>
  <2>1. registry[n] = IF n \in NamesOf(acq) /\ Avail(s, n) THEN <<"gpu", host[n]>> ELSE <<"cpu", host[n]>>
    BY <1>23 DEF Pointing
  <2> QED
    BY <1>2, <1>4, <1>5, <1>16, <1>23, <2>1
<1>24. Pointing(s, acq \cup parts, registry', data')
  <2> DEFINE both == acq \cup parts
  <2>1. \A n, o \in Names : Trains(n) /\ Trains(o) /\ registry'[n] = registry'[o] => model.tie[n] = model.tie[o]
    BY <1>17, <1>18
  <2>2. \A n \in Names :
          IF Trains(n) THEN registry'[n] \in Writables /\ data'[registry'[n]] = IF n \in NamesOf(both) THEN <<"gpu", host[n]>> ELSE backing[n]
          ELSE registry'[n] = IF n \in NamesOf(both) /\ Avail(s, n) THEN <<"gpu", host[n]>> ELSE <<"cpu", host[n]>>
    BY <1>17, <1>20, <1>23
  <2> HIDE DEF both
  <2>3. Pointing(s, both, registry', data')
    BY <1>21, <1>22, <2>1, <2>2 DEF Pointing
  <2> QED
    BY <2>3 DEF both
<1> QED
  BY <1>13, <1>14, <1>15, <1>17, <1>24

LEMMA InstallHostKeeps ==
  ASSUME model \in Models, Hosted, NEW s, NEW acq \in SUBSET Components, NEW parts \in SUBSET Components,
         Pointing(s, acq, registry, data), InstallHost(NamesOf(parts))
  PROVE  /\ Pointing(s, acq \ parts, registry', data')
         /\ \A n \in Names : Trains(n) => registry'[n] = registry[n]
<1> DEFINE names == NamesOf(parts)
           trains == {n \in names : Trains(n)}
<1>1. /\ registry' = [n \in Names |-> IF n \in names \ trains THEN <<"cpu", host[n]>> ELSE registry[n]]
      /\ data' = [o \in Writables |->
                    IF o \in {registry[n] : n \in trains}
                    THEN backing[CHOOSE n \in trains : registry[n] = o] ELSE data[o]]
  BY DEF InstallHost
<1>2. names \subseteq Names /\ \A n \in Names : n \in NamesOf(acq \ parts) <=> n \in NamesOf(acq) /\ n \notin names
  BY NamesOfAre
<1>3. \A n \in Names : host[n] \in Names /\ backing[n] \in Storages \cup {None}
  BY AliasesAre DEF Hosted
<1>4. \A n, o \in Names : model.tie[n] = model.tie[o] => backing[n] = backing[o] /\ (n \in names <=> o \in names)
  BY NamesOfAre DEF Hosted
<1>5. \A n \in Names : n \in trains <=> n \in names /\ Trains(n)
  OBVIOUS
<1>6. trains \subseteq Names
  BY <1>2
<1> HIDE DEF names, trains
<1>7. \A n \in Names : registry'[n] = IF n \in names \ trains THEN <<"cpu", host[n]>> ELSE registry[n]
  BY <1>1
<1>8. \A n \in Names : Trains(n) => registry'[n] = registry[n] /\ registry[n] \in Writables
  BY <1>5, <1>7 DEF Pointing
<1>9. \A n, o \in Names : Trains(n) /\ Trains(o) /\ registry[n] = registry[o] => model.tie[n] = model.tie[o]
  BY DEF Pointing
<1>10. ASSUME NEW n \in Names, Trains(n)
       PROVE  data'[registry[n]] = IF n \in NamesOf(acq \ parts) THEN <<"gpu", host[n]>> ELSE backing[n]
  <2>1. CASE n \in names
    <3> DEFINE m == CHOOSE q \in trains : registry[q] = registry[n]
    <3>1. n \in trains
      BY <1>5, <1>10, <2>1
    <3>2. m \in trains /\ registry[m] = registry[n]
      BY <3>1
    <3>3. registry[n] \in {registry[q] : q \in trains}
      BY <3>1
    <3>4. data'[registry[n]] = backing[m]
      BY <1>1, <1>8, <1>10, <3>3
    <3> HIDE DEF m
    <3>5. m \in Names /\ Trains(m)
      BY <1>5, <1>6, <3>2
    <3>6. backing[m] = backing[n]
      BY <1>4, <1>9, <1>10, <3>2, <3>5
    <3> QED
      BY <1>2, <2>1, <3>4, <3>6
  <2>2. CASE n \notin names
    <3>1. ASSUME NEW q \in trains, registry[q] = registry[n]
          PROVE  FALSE
      <4>1. q \in Names /\ Trains(q) /\ q \in names
        BY <1>5, <1>6
      <4>2. model.tie[q] = model.tie[n]
        BY <1>9, <1>10, <3>1, <4>1
      <4> QED
        BY <1>4, <2>2, <4>1, <4>2
    <3>2. data'[registry[n]] = data[registry[n]]
      BY <1>1, <1>8, <1>10, <3>1
    <3> QED
      BY <1>2, <1>10, <2>2, <3>2 DEF Pointing
  <2> QED
    BY <2>1, <2>2
<1>11. registry' \in [Names -> Writables \cup ({"cpu", "gpu"} \X Names)]
  <2>1. ASSUME NEW n \in Names
        PROVE  registry'[n] \in Writables \cup ({"cpu", "gpu"} \X Names)
    <3>1. registry[n] \in Writables \cup ({"cpu", "gpu"} \X Names)
      BY DEF Pointing
    <3>2. <<"cpu", host[n]>> \in {"cpu", "gpu"} \X Names
      BY <1>3
    <3> QED
      BY <1>7, <3>1, <3>2
  <2>2. registry' = [n \in Names |-> registry'[n]]
    BY <1>1
  <2> QED
    BY <2>1, <2>2
<1>12. data' \in [Writables -> Storages \cup {None}]
  <2>1. ASSUME NEW o \in Writables
        PROVE  data'[o] \in Storages \cup {None}
    <3>1. CASE o \in {registry[n] : n \in trains}
      <4> DEFINE m == CHOOSE q \in trains : registry[q] = o
      <4>1. m \in trains
        BY <3>1
      <4>2. data'[o] = backing[m]
        BY <1>1, <3>1
      <4> HIDE DEF m
      <4> QED
        BY <1>3, <1>6, <4>1, <4>2
    <3>2. CASE o \notin {registry[n] : n \in trains}
      <4>1. data'[o] = data[o]
        BY <1>1, <3>2
      <4> QED
        BY <4>1 DEF Pointing
    <3> QED
      BY <3>1, <3>2
  <2>2. data' = [o \in Writables |-> data'[o]]
    BY <1>1
  <2> QED
    BY <2>1, <2>2
<1>13. ASSUME NEW n \in Names, ~Trains(n)
       PROVE  registry'[n] = IF n \in NamesOf(acq \ parts) /\ Avail(s, n) THEN <<"gpu", host[n]>> ELSE <<"cpu", host[n]>>
  <2>1. registry[n] = IF n \in NamesOf(acq) /\ Avail(s, n) THEN <<"gpu", host[n]>> ELSE <<"cpu", host[n]>>
    BY <1>13 DEF Pointing
  <2> QED
    BY <1>2, <1>5, <1>7, <1>13, <2>1
<1>14. Pointing(s, acq \ parts, registry', data')
  BY <1>8, <1>9, <1>10, <1>11, <1>12, <1>13 DEF Pointing
<1> QED
  BY <1>8, <1>14

\* A component's targets go back to their pools.
LEMMA FreedKeeps ==
  ASSUME model \in Models, Hosted, bytes \in [Storages -> Contents], steps \in Nat, Backed(bytes, steps), Mapped(bytes),
         NEW s, NEW acq \in SUBSET Components, NEW parts \in SUBSET Components, Targeted(s, acq, bytes, steps)
  PROVE  /\ Freed(NamesOf(parts)) \in [Storages -> Contents]
         /\ \A t \in Storages : t[1] # "gpu" => Freed(NamesOf(parts))[t] = bytes[t]
         /\ \A n \in Names \ NamesOf(parts) : Freed(NamesOf(parts))[<<"gpu", host[n]>>] = bytes[<<"gpu", host[n]>>]
         /\ Backed(Freed(NamesOf(parts)), steps) /\ Mapped(Freed(NamesOf(parts)))
         /\ Targeted(s, acq \ parts, Freed(NamesOf(parts)), steps)
<1> DEFINE freed == Freed(NamesOf(parts))
           names == NamesOf(parts)
           gpus == {<<"gpu", host[n]>> : n \in names}
<1>1. freed = [t \in Storages |-> IF t \in gpus THEN Pristine(None) ELSE bytes[t]]
  BY DEF Freed
<1>2. Pristine(None) \in Contents
  BY PristineIn DEF Froms
<1>3. \A t \in gpus : t[1] = "gpu"
  OBVIOUS
<1>4. names \subseteq Names /\ \A n \in Names : n \in NamesOf(acq \ parts) <=> n \in NamesOf(acq) /\ n \notin names
  BY NamesOfAre
<1>5. ASSUME NEW n \in Names \ names
      PROVE  <<"gpu", host[n]>> \notin gpus /\ <<"gpu", host[n]>> \in Storages
  <2>1. \A m \in Names : host[m] \in Names /\ model.tie[host[m]] = model.tie[m]
    BY AliasesAre DEF Hosted
  <2>2. ASSUME NEW m \in names, <<"gpu", host[n]>> = <<"gpu", host[m]>>
        PROVE  FALSE
    <3>1. <<"gpu", host[n]>>[2] = host[n] /\ <<"gpu", host[m]>>[2] = host[m]
      OBVIOUS
    <3>2. m \in Names /\ model.tie[n] = model.tie[m]
      BY <1>4, <2>1, <2>2, <3>1
    <3> QED
      BY <3>2, NamesOfAre
  <2> QED
    BY <2>1, <2>2, StoragesDiffer
<1> HIDE DEF freed, names, gpus
<1>6. freed \in [Storages -> Contents]
  BY <1>1, <1>2
<1>7. \A t \in Storages : t[1] # "gpu" => freed[t] = bytes[t]
  BY <1>1, <1>3
<1>8. \A n \in Names \ names : freed[<<"gpu", host[n]>>] = bytes[<<"gpu", host[n]>>]
  BY <1>1, <1>5
<1>9. Backed(freed, steps) /\ Mapped(freed)
  BY <1>7, OnlyTargets
<1>10. Targeted(s, acq \ parts, freed, steps)
  <2>1. NamesOf(acq \ parts) \subseteq Names
    BY NamesOfAre
  <2> QED
    BY <1>4, <1>8, <2>1 DEF Targeted
<1> QED
  BY <1>6, <1>7, <1>8, <1>9, <1>10 DEF freed, names

-----------------------------------------------------------------------------
(* The steps of a session *)

LEMMA PointingNone ==
  ASSUME NEW s, NEW t
  PROVE  /\ Pointing(s, {}, registry, data) => Pointing(t, {}, registry, data)
         /\ Pointing(s, {}, registry', data') => Pointing(t, {}, registry', data')
<1>1. NamesOf({}) = {}
  BY NamesOfJoin
<1> QED
  BY <1>1 DEF Pointing

\* The state after a step of a captured model.
LEMMA CapturedNext ==
  ASSUME model \in Models, Distinct1(merged), Hosted,
         model' = model, merged' = merged, host' = host, backing' = backing, ops' = {},
         phase' \in {"idle", "active"}, steps' \in Nat, bytes' \in [Storages -> Contents], Mapped(bytes'),
         Backed(bytes', steps'), acquired' \subseteq Components,
         Pointing(activation', acquired', registry', data'), Targeted(activation', acquired', bytes', steps'),
         phase' = "idle" => acquired' = {} /\ activation' = NoSession,
         phase' = "active" => Serving(activation') /\ (activation'.device = "cpu" => acquired' = {}),
         \A n \in Names : routedUps'[n] =
           IF phase' = "active" /\ activation'.mode = "routed" THEN Contributions(activation'.request, n).ups ELSE NoDeltas
  PROVE  ModulesInv'
<1>1. /\ \A n : Aliases(n)' = Aliases(n) /\ (Trains(n)' <=> Trains(n)) /\ Base0(n)' = Base0(n)
      /\ \A s : Owned(s)' <=> Owned(s)
      /\ Components' = Components
      /\ \A acq : NamesOf(acq)' = NamesOf(acq)
  BY SameModel
<1>2. /\ \A n : Permanently(n)' = Permanently(n) /\ (Provided(n)' <=> Provided(n))
      /\ \A s, n : (Avail(s, n)' <=> Avail(s, n)) /\ Target(s, n)' = Target(s, n)
  BY SamePast
<1>3. Hosted'
  BY <1>1, <1>2 DEF Hosted
<1>4. Backed(bytes, steps)'
  BY <1>1, <1>2 DEF Backed
<1>5. Mapped(bytes)'
  BY <1>1 DEF Mapped
<1>6. NamesOf(acquired)' = NamesOf(acquired')
  BY <1>1
<1>7. Targeted(activation, acquired, bytes, steps)'
  <2>1. \A n : (Avail(activation, n)' <=> Avail(activation', n)) /\ Target(activation, n)' = Target(activation', n)
    BY <1>2
  <2> QED
    BY <1>1, <1>6, <2>1 DEF Targeted
<1>8. Pointing(activation, acquired, registry, data)'
  <2>1. \A n : (Avail(activation, n)' <=> Avail(activation', n))
    BY <1>2
  <2> QED
    BY <1>1, <1>6, <2>1 DEF Pointing
<1>9. phase' = "active" => Serving(activation)'
  BY <1>2 DEF Serving
<1>10. Captured'
  BY <1>1, <1>3, <1>4, <1>7, <1>8, <1>9 DEF Captured
<1>11. Opening'
  <2>1. Distinct1(merged)'
    BY DEF Distinct1
  <2> QED
    BY <1>5, <2>1 DEF Opening
<1> QED
  BY <1>10, <1>11 DEF ModulesInv

\* A session goes on with the plans it was accepted with.
LEMMA PlansStay ==
  ASSUME model \in Models, Hosted, NEW s, Serving(s), NEW acq, Pointing(s, acq, registry, data)
  PROVE  PlansRight(s)
<1> SUFFICES ASSUME s.mode = "merge", NEW n \in Updated(s.request)
             PROVE  n \in Planned(s.request) <=> Contributions(s.request, n).values # <<>> \/ Provided(n)
  BY DEF PlansRight
<1> DEFINE c == Contributions(s.request, n)
<1>1. n \in Names
  BY DEF Updated
<1>2. n \in Planned(s.request) <=> ~(IsMeta(n) /\ c.values = <<>> /\ ~c.requires_base)
  BY DEF Planned, Skipped
<1>3. IsMeta(n) => ~Provided(n)
  BY <1>1, MetaIs
<1>4. CASE c.values # <<>>
  BY <1>2, <1>4
<1>5. CASE c.values = <<>>
  <2>1. Right(s.request) /\ Groups(s.request) /\ (~Provided(n) => ~c.requires_base)
    BY <1>5 DEF Serving
  <2>2. Alone(s.request, Aliases(n), n)
    <3>1. \A o \in Updated(s.request) : model.tie[o] = model.tie[n] => o = n
      BY DEF Serving
    <3> QED
      BY <1>1, <3>1, AliasesAre DEF Alone
  <2>3. Pristine(None) \in Contents
    BY PristineIn DEF Froms
  <2>4. Gives(s.request, Aliases(n)) = {}
    BY <1>5, <2>1, <2>2, <2>3, AppliedIsAfter
  <2>5. IsMeta(n) <=> ~Provided(n)
    BY <1>1, <2>4, MetaIs DEF Avail
  <2> QED
    BY <1>2, <1>5, <2>1, <2>5
<1> QED
  BY <1>4, <1>5

\* What a session that is accepted promises.
LEMMA ServingIs ==
  ASSUME model \in Models, Hosted, NEW t, Pointing(t, {}, registry, data), NEW s \in Sessions, Accepts(s)
  PROVE  Serving(s)
<1>1. s.request \in Seq(Uses) /\ s.mode \in {"merge", "routed"} /\ s.device \in {"cuda", "cpu"}
  BY RequestsAssumption DEF Sessions, Uses
<1>2. Right(s.request) /\ Groups(s.request)
  BY <1>1 DEF Accepts, Right
<1>3. Updated(s.request) \subseteq Names
  BY DEF Updated
<1>4. ASSUME NEW n \in Names
      PROVE  /\ IsMeta(n) <=> ~Provided(n)
             /\ Alone(s.request, {n}, n)
             /\ PlanOf(s.request, n).value # NoSpec <=> Contributions(s.request, n).values # <<>>
  <2>1. n \notin NamesOf({})
    BY NamesOfJoin
  <2>2. Alone(s.request, {n}, n)
    BY DEF Alone
  <2>3. Pristine(None) \in Contents
    BY PristineIn DEF Froms
  <2>4. PlanOf(s.request, n).value # NoSpec <=> Contributions(s.request, n).values # <<>>
    BY <1>2, <2>2, <2>3, AppliedIsAfter
  <2> QED
    BY <2>1, <2>2, <2>4, MetaIs
<1>5. \A n, o \in Names : model.tie[n] = model.tie[o] => Identity(n) = Identity(o)
  <2> SUFFICES ASSUME NEW n \in Names, NEW o \in Names, model.tie[n] = model.tie[o]
               PROVE  Identity(n) = Identity(o)
    OBVIOUS
  <2>1. backing[n] = backing[o] /\ host[n] = host[o] /\ (Trains(n) <=> Trains(o)) /\ (Trains(n) => Provided(n))
    BY DEF Hosted
  <2>2. Data(registry[n]) = backing[n] /\ Data(registry[o]) = backing[o]
    BY MetaIs, NamesOfJoin
  <2>3. IsMeta(n) <=> IsMeta(o)
    BY <2>1, <2>2 DEF IsMeta
  <2>4. CASE ~IsMeta(n)
    BY <2>1, <2>2, <2>3, <2>4 DEF Identity
  <2>5. CASE IsMeta(n)
    <3>1. ~Trains(n) /\ ~Trains(o)
      BY <1>4, <2>1, <2>5
    <3>2. registry[n] = <<"cpu", host[n]>> /\ registry[o] = <<"cpu", host[o]>>
      BY <3>1, NamesOfJoin DEF Pointing
    <3> QED
      BY <2>1, <2>3, <2>5, <3>2 DEF Identity
  <2> QED
    BY <2>4, <2>5
<1>6. CASE s.mode = "routed"
  <2>1. \A n \in Updated(s.request) : Contributions(s.request, n).values = <<>>
    BY <1>6 DEF Accepts, RoutedAccepts
  <2> QED
    BY <1>2, <1>6, <2>1 DEF Serving
<1>7. CASE s.mode = "merge"
  <2>1. Updated(s.request) # {} => s.device = "cuda" /\ MergeAccepts(s.request) /\ Resolves(Overrides(s))
    BY <1>7 DEF Accepts
  <2>2. \A n, o \in Updated(s.request) : model.tie[n] = model.tie[o] => n = o
    BY <1>3, <1>5, <2>1 DEF MergeAccepts, AliasesDistinct
  <2>3. ASSUME NEW n \in Updated(s.request)
        PROVE  LET c == Contributions(s.request, n) IN
               IF c.values = <<>> THEN ~Provided(n) => ~c.requires_base ELSE ~Provided(n)
    <3> DEFINE c == Contributions(s.request, n)
               p == PlanOf(s.request, n)
    <3>1. n \in Names /\ MergeAccepts(s.request) /\ Resolves(Overrides(s))
      BY <1>3, <2>1, <2>3
    <3>2. n \in Planned(s.request) <=> ~(IsMeta(n) /\ c.values = <<>> /\ ~c.requires_base)
      BY DEF Planned, Skipped
    <3>3. CASE c.values # <<>>
      <4>1. Validates(p, n)
        BY <3>1, <3>2, <3>3 DEF MergeAccepts
      <4>2. IsMeta(n)
        BY <1>4, <3>1, <3>3, <4>1 DEF Validates
      <4> QED
        BY <1>4, <3>1, <3>3, <4>2
    <3>4. CASE c.values = <<>> /\ ~Provided(n) /\ c.requires_base
      <4>1. n \in Planned(s.request) /\ p.value = NoSpec
        BY <1>4, <3>1, <3>2, <3>4
      <4>2. Alone(s.request, Aliases(n), n)
        BY <2>2, <3>1, AliasesAre DEF Alone
      <4>3. OverridesOf(host[n], Overrides(s)) = {p}
        BY <1>7, <3>1, <4>1, <4>2, OverridesAre
      <4>4. Override(host[n], Overrides(s)) = p
        BY <4>3 DEF Override
      <4>5. backing[host[n]] # None
        BY <3>1, <4>1, <4>3, <4>4 DEF Resolves
      <4>6. backing[host[n]] = backing[n] /\ (backing[n] = None <=> ~Provided(n))
        BY <3>1, AliasesAre DEF Hosted
      <4> QED
        BY <3>4, <4>5, <4>6
    <3> QED
      BY <3>3, <3>4
  <2>4. s.device = "cpu" => Updated(s.request) = {}
    BY <2>1
  <2> QED
    BY <1>2, <1>7, <2>2, <2>3, <2>4 DEF Serving
<1> QED
  BY <1>1, <1>6, <1>7

LEMMA HostComponentsIn == HostComponents \subseteq Components
BY DEF HostComponents

LEMMA BeginKeeps ==
  ASSUME ModulesInv, NEW s \in Sessions, BeginActivation(s)
  PROVE  ModulesInv'
<1>1. /\ phase = "idle" /\ Accepts(s) /\ phase' = "active" /\ activation' = s
      /\ model' = model /\ host' = host /\ backing' = backing /\ ops' = ops /\ merged' = merged /\ steps' = steps
  BY DEF BeginActivation
<1>2. Opening /\ Captured /\ acquired = {} /\ activation = NoSession
  BY <1>1 DEF ModulesInv, Captured
<1>3. /\ model \in Models /\ Distinct1(merged) /\ bytes \in [Storages -> Contents] /\ steps \in Nat /\ Mapped(bytes) /\ ops = {}
      /\ Hosted /\ Backed(bytes, steps) /\ Pointing(NoSession, {}, registry, data)
  BY <1>1, <1>2 DEF Opening, Captured
<1>4. Serving(s) /\ Pointing(s, {}, registry, data) /\ Targeted(s, {}, bytes, steps)
  BY <1>1, <1>3, ServingIs, PointingNone, NamesOfJoin DEF Targeted
<1>5. PlansRight(s)
  BY <1>3, <1>4, PlansStay
<1>6. \A n \in Names : routedUps'[n] = IF s.mode = "routed" THEN Contributions(s.request, n).ups ELSE NoDeltas
  <2>1. \A n \in Names : routedUps[n] = NoDeltas
    BY <1>1, <1>2 DEF Captured
  <2>2. s.mode \in {"merge", "routed"}
    BY DEF Sessions
  <2> QED
    BY <2>1, <2>2 DEF BeginActivation
<1>7. CASE s.device = "cpu"
  <2>1. registry' = registry /\ data' = data /\ bytes' = bytes /\ acquired' = {}
    BY <1>2, <1>7 DEF BeginActivation
  <2>2. Pointing(activation', acquired', registry', data') /\ Targeted(activation', acquired', bytes', steps') /\ Backed(bytes', steps') /\ Mapped(bytes')
    BY <1>1, <1>3, <1>4, <2>1
  <2> QED
    BY <1>1, <1>3, <1>4, <1>6, <2>1, <2>2, CapturedNext
<1>8. CASE s.device = "cuda"
  <2>1. InstallTargets(NamesOf(HostComponents), Overrides(s)) /\ acquired' = HostComponents
    BY <1>8 DEF BeginActivation
  <2> DEFINE none == {}
  <2>2. none \in SUBSET Components /\ HostComponents \in SUBSET Components /\ none \cup HostComponents = HostComponents
    BY HostComponentsIn
  <2>3. Pointing(s, none, registry, data) /\ Targeted(s, none, bytes, steps)
    BY <1>4
  <2> HIDE DEF none
  <2>4. /\ Pointing(s, none \cup HostComponents, registry', data') /\ Targeted(s, none \cup HostComponents, bytes', steps)
        /\ Backed(bytes', steps) /\ Mapped(bytes') /\ bytes' \in [Storages -> Contents]
    BY <1>3, <1>4, <1>5, <1>8, <2>1, <2>2, <2>3, InstallTargetsKeeps
  <2>5. Pointing(activation', acquired', registry', data') /\ Targeted(activation', acquired', bytes', steps') /\ Backed(bytes', steps')
    BY <1>1, <2>1, <2>2, <2>4
  <2>6. acquired' \subseteq Components
    BY <2>1, <2>2
  <2> QED
    BY <1>1, <1>3, <1>4, <1>6, <1>8, <2>4, <2>5, <2>6, CapturedNext
<1> QED
  BY <1>7, <1>8 DEF Sessions

\* What holds of an active model.
LEMMA ActiveIs ==
  ASSUME ModulesInv, phase = "active"
  PROVE  /\ model \in Models /\ Distinct1(merged) /\ bytes \in [Storages -> Contents] /\ steps \in Nat /\ Mapped(bytes) /\ ops = {}
         /\ Hosted /\ Backed(bytes, steps) /\ acquired \subseteq Components
         /\ Pointing(activation, acquired, registry, data) /\ Targeted(activation, acquired, bytes, steps)
         /\ Serving(activation) /\ PlansRight(activation) /\ (activation.device = "cpu" => acquired = {})
         /\ \A n \in Names : routedUps[n] =
              IF activation.mode = "routed" THEN Contributions(activation.request, n).ups ELSE NoDeltas
<1>1. Opening /\ Captured
  BY DEF ModulesInv
<1> QED
  BY <1>1, PlansStay DEF Opening, Captured

LEMMA AcquireKeeps ==
  ASSUME ModulesInv, NEW c \in Components, Acquire(c)
  PROVE  ModulesInv'
<1>1. /\ phase = "active" /\ activation.device = "cuda" /\ InstallTargets(ParamNames(c), Overrides(activation))
      /\ acquired' = acquired \cup {c} /\ phase' = phase /\ activation' = activation /\ routedUps' = routedUps
      /\ model' = model /\ host' = host /\ backing' = backing /\ ops' = ops /\ merged' = merged /\ steps' = steps
  BY DEF Acquire
<1> DEFINE parts == {c}
<1>2. NamesOf(parts) = ParamNames(c) /\ parts \in SUBSET Components
  BY NamesOfJoin
<1> HIDE DEF parts
<1>3. /\ Pointing(activation, acquired \cup parts, registry', data') /\ Targeted(activation, acquired \cup parts, bytes', steps)
      /\ Backed(bytes', steps) /\ Mapped(bytes') /\ bytes' \in [Storages -> Contents]
  BY <1>1, <1>2, ActiveIs, InstallTargetsKeeps
<1>4. /\ Pointing(activation', acquired', registry', data') /\ Targeted(activation', acquired', bytes', steps') /\ Backed(bytes', steps')
      /\ acquired' \subseteq Components
  BY <1>1, <1>2, <1>3, ActiveIs DEF parts
<1> QED
  BY <1>1, <1>3, <1>4, ActiveIs, CapturedNext

LEMMA ReleaseKeeps ==
  ASSUME ModulesInv, NEW c \in Components, Release(c)
  PROVE  ModulesInv'
<1>1. /\ phase = "active" /\ InstallHost(ParamNames(c)) /\ bytes' = Freed(ParamNames(c))
      /\ acquired' = acquired \ {c} /\ phase' = phase /\ activation' = activation /\ routedUps' = routedUps
      /\ model' = model /\ host' = host /\ backing' = backing /\ ops' = ops /\ merged' = merged /\ steps' = steps
  BY DEF Release
<1> DEFINE parts == {c}
<1>2. NamesOf(parts) = ParamNames(c) /\ parts \in SUBSET Components
  BY NamesOfJoin
<1> HIDE DEF parts
<1>3. Pointing(activation, acquired \ parts, registry', data')
  BY <1>1, <1>2, ActiveIs, InstallHostKeeps
<1>4. /\ Targeted(activation, acquired \ parts, bytes', steps)
      /\ Backed(bytes', steps) /\ Mapped(bytes') /\ bytes' \in [Storages -> Contents]
  BY <1>1, <1>2, ActiveIs, FreedKeeps
<1>5. /\ Pointing(activation', acquired', registry', data') /\ Targeted(activation', acquired', bytes', steps') /\ Backed(bytes', steps')
      /\ acquired' \subseteq Components
  BY <1>1, <1>2, <1>3, <1>4, ActiveIs DEF parts
<1>6. activation'.device = "cpu" => acquired' = {}
  BY <1>1, ActiveIs
<1> QED
  BY <1>1, <1>4, <1>5, <1>6, ActiveIs, CapturedNext

LEMMA EndKeeps ==
  ASSUME ModulesInv, EndActivation
  PROVE  ModulesInv'
<1>1. /\ phase = "active" /\ InstallHost(NamesOf(acquired)) /\ bytes' = Freed(NamesOf(acquired))
      /\ phase' = "idle" /\ acquired' = {} /\ activation' = NoSession /\ routedUps' = [n \in Names |-> NoDeltas]
      /\ model' = model /\ host' = host /\ backing' = backing /\ ops' = ops /\ merged' = merged /\ steps' = steps
  BY DEF EndActivation
<1>2. acquired \in SUBSET Components /\ acquired \ acquired = {}
  BY <1>1, ActiveIs
<1>3. Pointing(activation, acquired \ acquired, registry', data')
  BY <1>1, <1>2, ActiveIs, InstallHostKeeps
<1>4. Targeted(activation, acquired \ acquired, bytes', steps)
      /\ Backed(bytes', steps) /\ Mapped(bytes') /\ bytes' \in [Storages -> Contents]
  BY <1>1, <1>2, ActiveIs, FreedKeeps
<1>5. Pointing(activation', acquired', registry', data')
  BY <1>1, <1>2, <1>3, PointingNone
<1>6. Targeted(activation', acquired', bytes', steps') /\ Backed(bytes', steps')
  BY <1>1, <1>4, NamesOfJoin DEF Targeted
<1> QED
  BY <1>1, <1>4, <1>5, <1>6, ActiveIs, CapturedNext

-----------------------------------------------------------------------------
(* Optimizer steps *)

LEMMA TrainedIs ==
  ASSUME NEW x \in Contents
  PROVE  Trained(x) \in Contents /\ Trained(x).steps = x.steps + 1
BY DEF Trained, Contents

\* A name is offloaded in a block, or by a host component.
LEMMA BlocksAre ==
  ASSUME model \in Models
  PROVE  /\ NamesOf(Components \ HostComponents) = BlockParams
         /\ \A n \in Names : n \in NamesOf(HostComponents) <=> n \notin BlockParams
<1>1. \A c \in Components : c \notin HostComponents <=> \E k \in DOMAIN BlockIndices : c = <<"block", k>>
  BY DEF Components, HostComponents
<1>2. \A k \in DOMAIN BlockIndices : ParamNames(<<"block", k>>) = {n \in BlockParams : At[n] = BlockIndices[k]}
  BY DEF ParamNames
<1>3. \A n \in BlockParams : \E k \in DOMAIN BlockIndices : BlockIndices[k] = At[n]
  BY BlockIndicesRight DEF BlockParams
<1>4. NamesOf(Components \ HostComponents) = BlockParams
  <2>1. ASSUME NEW n \in BlockParams
        PROVE  n \in NamesOf(Components \ HostComponents)
    <3>1. PICK k \in DOMAIN BlockIndices : BlockIndices[k] = At[n]
      BY <1>3
    <3>2. <<"block", k>> \in Components \ HostComponents
      BY <1>1 DEF Components
    <3>3. n \in ParamNames(<<"block", k>>)
      BY <1>2, <3>1
    <3> QED
      BY <3>2, <3>3 DEF NamesOf
  <2>2. ASSUME NEW n \in NamesOf(Components \ HostComponents)
        PROVE  n \in BlockParams
    <3>1. PICK c \in Components \ HostComponents : n \in ParamNames(c)
      BY DEF NamesOf
    <3> QED
      BY <1>1, <1>2, <3>1
  <2> QED
    BY <2>1, <2>2
<1>5. \A n \in Names : n \in NamesOf(HostComponents) <=> n \notin NamesOf(Components \ HostComponents)
  <2>1. HostComponents \in SUBSET Components /\ Components \ HostComponents \in SUBSET Components
    BY HostComponentsIn
  <2>2. \A n \in Names : ComponentOf(n) \in Components
    BY ComponentIs
  <2> QED
    BY <2>1, <2>2, NamesOfAre
<1> QED
  BY <1>4, <1>5

LEMMA OptimizerStepKeeps ==
  ASSUME ModulesInv, OptimizerStep
  PROVE  ModulesInv'
<1> DEFINE hostNames == NamesOf(HostComponents)
           held == {host[n] : n \in {m \in hostNames : Trains(m)}}
           gathered == {host[n] : n \in {m \in BlockParams : Trains(m)}}
           freed == Freed(BlockParams)
           Blocks == Components \ HostComponents
<1>1. /\ phase = "active" /\ activation.device = "cuda" /\ HostComponents \subseteq acquired /\ steps' = steps + 1
      /\ InstallHost(BlockParams) /\ acquired' = HostComponents
      /\ phase' = phase /\ activation' = activation /\ routedUps' = routedUps
      /\ model' = model /\ host' = host /\ backing' = backing /\ ops' = ops /\ merged' = merged
  BY DEF OptimizerStep
<1>2. bytes' = [s \in Storages |->
                  CASE \E h \in held : s \in {<<"gpu", h>>, backing[h]} ->
                         Trained(bytes[<<"gpu", CHOOSE h \in held : s \in {<<"gpu", h>>, backing[h]}>>])
                    [] \E h \in gathered : s = backing[h] -> Trained(bytes[s])
                    [] OTHER -> freed[s]]
  BY DEF OptimizerStep
<1>3. /\ model \in Models /\ Hosted /\ bytes \in [Storages -> Contents] /\ steps \in Nat /\ Backed(bytes, steps) /\ Mapped(bytes)
      /\ acquired \in SUBSET Components
      /\ Pointing(activation, acquired, registry, data) /\ Targeted(activation, acquired, bytes, steps)
  BY <1>1, ActiveIs
<1>4. /\ Blocks \in SUBSET Components /\ HostComponents \in SUBSET Components /\ acquired \ Blocks = HostComponents
      /\ NamesOf(Blocks) = BlockParams /\ hostNames \subseteq Names /\ BlockParams \subseteq Names
      /\ \A n \in Names : n \in hostNames <=> n \notin BlockParams
  BY <1>1, <1>3, HostComponentsIn, BlocksAre, NamesOfAre
<1> HIDE DEF Blocks
<1>5. Pointing(activation, HostComponents, registry', data')
  BY <1>1, <1>3, <1>4, InstallHostKeeps
<1>6. /\ freed \in [Storages -> Contents]
      /\ \A t \in Storages : t[1] # "gpu" => freed[t] = bytes[t]
      /\ \A n \in Names \ BlockParams : freed[<<"gpu", host[n]>>] = bytes[<<"gpu", host[n]>>]
      /\ Targeted(activation, HostComponents, freed, steps) /\ Mapped(freed) /\ Backed(freed, steps)
  BY <1>3, <1>4, FreedKeeps
<1> HIDE DEF hostNames, freed
\* Which names a HostParam is that of.
<1>7. ASSUME NEW n \in Names
      PROVE  /\ host[n] \in Names /\ host[host[n]] = host[n] /\ backing[host[n]] = backing[n]
             /\ host[n] \in held <=> Trains(n) /\ n \in hostNames
             /\ host[n] \in gathered <=> Trains(n) /\ n \in BlockParams
             /\ backing[n][1] # "gpu"
  <2>1. \A m \in Names : host[m] \in Names /\ model.tie[host[m]] = model.tie[m]
    BY <1>3, AliasesAre DEF Hosted
  <2>2. host[host[n]] = host[n] /\ backing[host[n]] = backing[n] /\ backing[n][1] # "gpu"
    BY <1>3, <2>1 DEF Hosted
  <2>3. \A m \in Names : host[m] = host[n] => model.tie[m] = model.tie[n]
    BY <2>1
  <2>4. \A m \in Names : host[m] = host[n] => (Trains(m) <=> Trains(n)) /\ (m \in BlockParams <=> n \in BlockParams)
    <3>1. \A m \in Names : model.tie[m] = model.tie[n] => (Trains(m) <=> Trains(n))
      BY <1>3 DEF Hosted
    <3>2. \A m \in Names : model.tie[m] = model.tie[n] => (m \in BlockParams <=> n \in BlockParams)
      BY <1>3, <1>4, NamesOfAre
    <3> QED
      BY <2>3, <3>1, <3>2
  <2>5. host[n] \in held <=> Trains(n) /\ n \in hostNames
    BY <1>4, <2>4
  <2>6. host[n] \in gathered <=> Trains(n) /\ n \in BlockParams
    BY <1>4, <2>4
  <2> QED
    BY <2>1, <2>2, <2>5, <2>6
<1>8. ASSUME NEW h \in held \cup gathered
      PROVE  /\ h \in Names /\ host[h] = h /\ Trains(h) /\ backing[h] \in Storages /\ backing[h][1] # "gpu" /\ Owned(backing[h])
             /\ h \in held => h \in hostNames
             /\ h \in gathered => h \in BlockParams
  <2>1. PICK n \in Names : h = host[n] /\ Trains(n)
    BY <1>4
  <2>2. h \in Names /\ host[h] = h
    BY <1>7, <2>1
  <2>3. Trains(h) /\ (h \in held => h \in hostNames) /\ (h \in gathered => h \in BlockParams)
    BY <1>7, <2>2
  <2>4. backing[h] # None /\ backing[h] \in Storages \cup {None} /\ Owned(backing[h])
    BY <1>3, <2>2, <2>3 DEF Hosted
  <2> QED
    BY <1>7, <2>2, <2>3, <2>4
<1>9. \A g, h \in held \cup gathered : backing[g] = backing[h] => g = h
  <2> SUFFICES ASSUME NEW g \in held \cup gathered, NEW h \in held \cup gathered, backing[g] = backing[h]
               PROVE  g = h
    OBVIOUS
  <2>1. /\ g \in Names /\ h \in Names /\ host[g] = g /\ host[h] = h /\ backing[g] # None
    BY <1>8, StoragesDiffer
  <2>2. model.tie[g] = model.tie[h]
    BY <1>3, <2>1 DEF Hosted
  <2> QED
    BY <1>3, <2>1, <2>2 DEF Hosted
<1>10. \A h \in held : h \notin gathered
  BY <1>4, <1>8
<1> HIDE DEF held, gathered
\* What the step makes of each storage.
<1>11. ASSUME NEW h \in held, NEW s \in {<<"gpu", h>>, backing[h]}
       PROVE  s \in Storages /\ bytes'[s] = Trained(bytes[<<"gpu", h>>])
  <2>1. h \in Names /\ <<"gpu", h>> \in Storages /\ <<"gpu", h>>[1] = "gpu" /\ <<"gpu", h>>[2] = h /\ backing[h] \in Storages
        /\ backing[h][1] # "gpu"
    BY <1>8, StoragesDiffer
  <2>2. \A g \in held : s \in {<<"gpu", g>>, backing[g]} => g = h
    <3> SUFFICES ASSUME NEW g \in held, s \in {<<"gpu", g>>, backing[g]} PROVE g = h
      OBVIOUS
    <3>1. <<"gpu", g>>[1] = "gpu" /\ <<"gpu", g>>[2] = g /\ backing[g][1] # "gpu"
      BY <1>8
    <3>2. CASE s = <<"gpu", h>>
      BY <2>1, <3>1, <3>2
    <3>3. CASE s = backing[h]
      BY <1>9, <2>1, <3>1, <3>3
    <3> QED
      BY <3>2, <3>3
  <2>3. \A g \in gathered : s # backing[g]
    <3> SUFFICES ASSUME NEW g \in gathered, s = backing[g] PROVE FALSE
      OBVIOUS
    <3>1. backing[g][1] # "gpu"
      BY <1>8
    <3>2. s = backing[h]
      BY <2>1, <3>1
    <3> QED
      BY <1>9, <1>10, <3>2
  <2>4. (CHOOSE g \in held : s \in {<<"gpu", g>>, backing[g]}) = h
    BY <2>2
  <2>5. s \in Storages
    BY <2>1
  <2>6. \E g \in held : s \in {<<"gpu", g>>, backing[g]}
    OBVIOUS
  <2>7. bytes'[s] = Trained(bytes[<<"gpu", CHOOSE g \in held : s \in {<<"gpu", g>>, backing[g]}>>])
    BY <1>2, <2>3, <2>5, <2>6
  <2> QED
    BY <2>4, <2>5, <2>7
<1>12. ASSUME NEW s \in Storages, \A h \in held : s \notin {<<"gpu", h>>, backing[h]}
       PROVE  /\ (\E h \in gathered : s = backing[h]) => bytes'[s] = Trained(bytes[s])
              /\ (\A h \in gathered : s # backing[h]) => bytes'[s] = freed[s]
  BY <1>2, <1>12
<1>13. bytes' \in [Storages -> Contents]
  <2>1. ASSUME NEW s \in Storages
        PROVE  bytes'[s] \in Contents
    <3>1. CASE \E h \in held : s \in {<<"gpu", h>>, backing[h]}
      <4>1. PICK h \in held : s \in {<<"gpu", h>>, backing[h]}
        BY <3>1
      <4>2. <<"gpu", h>> \in Storages
        BY <1>8, StoragesDiffer
      <4> QED
        BY <1>3, <1>11, <4>1, <4>2, TrainedIs
    <3>2. CASE \A h \in held : s \notin {<<"gpu", h>>, backing[h]}
      BY <1>3, <1>6, <1>12, <3>2, TrainedIs
    <3> QED
      BY <3>1, <3>2
  <2>2. bytes' = [s \in Storages |-> bytes'[s]]
    BY <1>2
  <2> QED
    BY <2>1, <2>2
<1>14. Mapped(bytes')
  <2> SUFFICES ASSUME NEW n \in model.mapped
               PROVE  bytes'[Base0(n)] = freed[Base0(n)]
    BY <1>6 DEF Mapped
  <2>1. n \in Names /\ Base0(n) \in Storages /\ ~Owned(Base0(n)) /\ Base0(n)[1] = "base"
    BY <1>3, ModelIs DEF WellFormed, Base0, Storages, Owned
  <2>2. \A h \in held \cup gathered : backing[h] # Base0(n)
    BY <1>8, <2>1
  <2>3. \A h \in held : <<"gpu", h>> # Base0(n)
    BY <2>1
  <2> QED
    BY <1>12, <2>1, <2>2, <2>3
<1>15. Backed(bytes', steps + 1)
  <2> SUFFICES ASSUME NEW n \in Names, Provided(n)
               PROVE  IF Trains(n) THEN bytes'[backing[n]].steps = steps + 1 ELSE bytes'[backing[n]] = Permanently(n)
    BY <1>3 DEF Backed
  <2>1. backing[n] \in Storages /\ backing[n] # None /\ host[n] \in Names /\ backing[host[n]] = backing[n] /\ backing[n][1] # "gpu"
    BY <1>3, <1>7 DEF Hosted
  <2>2. CASE Trains(n) /\ n \in hostNames
    <3>1. host[n] \in held
      BY <1>7, <2>2
    <3>2. bytes'[backing[n]] = Trained(bytes[<<"gpu", host[n]>>])
      BY <1>11, <2>1, <3>1
    <3>3. n \in NamesOf(acquired)
      BY <1>1, <2>2 DEF NamesOf, hostNames
    <3>4. bytes[<<"gpu", host[n]>>].steps = steps
      BY <1>3, <2>2, <3>3 DEF Targeted, Avail
    <3>5. bytes[<<"gpu", host[n]>>] \in Contents
      BY <1>3, <2>1, StoragesDiffer
    <3> QED
      BY <2>2, <3>2, <3>4, <3>5, TrainedIs
  <2>3. CASE Trains(n) /\ n \notin hostNames
    <3>1. host[n] \in gathered
      BY <1>4, <1>7, <2>3
    <3>2. \A h \in held : backing[n] \notin {<<"gpu", h>>, backing[h]}
      <4> SUFFICES ASSUME NEW h \in held, backing[n] \in {<<"gpu", h>>, backing[h]} PROVE FALSE
        OBVIOUS
      <4>1. backing[n] = backing[h]
        BY <2>1
      <4>2. h = host[n]
        BY <1>9, <2>1, <3>1, <4>1
      <4> QED
        BY <1>10, <3>1, <4>2
    <3>3. bytes'[backing[n]] = Trained(bytes[backing[n]])
      BY <1>12, <2>1, <3>1, <3>2
    <3>4. bytes[backing[n]].steps = steps /\ bytes[backing[n]] \in Contents
      BY <1>3, <2>1, <2>3 DEF Backed
    <3> QED
      BY <2>3, <3>3, <3>4, TrainedIs
  <2>4. CASE ~Trains(n)
    <3>1. ASSUME NEW h \in held \cup gathered, backing[n] = backing[h]
          PROVE  FALSE
      <4>1. h \in Names /\ Trains(h)
        BY <1>8
      <4>2. model.tie[n] = model.tie[h]
        BY <1>3, <2>1, <3>1, <4>1 DEF Hosted
      <4> QED
        BY <1>3, <2>4, <4>1, <4>2 DEF Hosted
    <3>2. \A h \in held : backing[n] \notin {<<"gpu", h>>, backing[h]}
      BY <2>1, <3>1
    <3>3. bytes'[backing[n]] = freed[backing[n]]
      BY <1>12, <2>1, <3>1, <3>2
    <3>4. freed[backing[n]] = Permanently(n)
      BY <1>6, <2>4 DEF Backed
    <3> QED
      BY <2>4, <3>3, <3>4
  <2> QED
    BY <2>2, <2>3, <2>4
<1>16. Targeted(activation, HostComponents, bytes', steps + 1)
  <2> SUFFICES ASSUME NEW n \in hostNames, Avail(activation, n)
               PROVE  IF Trains(n) THEN bytes'[<<"gpu", host[n]>>].steps = steps + 1
                      ELSE bytes'[<<"gpu", host[n]>>] = Target(activation, n)
    BY <1>3 DEF Targeted, hostNames
  <2>1. n \in Names /\ host[n] \in Names /\ <<"gpu", host[n]>> \in Storages /\ <<"gpu", host[n]>>[1] = "gpu" /\ <<"gpu", host[n]>>[2] = host[n]
    BY <1>4, <1>7, StoragesDiffer
  <2>2. CASE Trains(n)
    <3>1. host[n] \in held
      BY <1>7, <2>1, <2>2
    <3>2. bytes'[<<"gpu", host[n]>>] = Trained(bytes[<<"gpu", host[n]>>])
      BY <1>11, <3>1
    <3>3. n \in NamesOf(acquired)
      BY <1>1 DEF NamesOf, hostNames
    <3>4. bytes[<<"gpu", host[n]>>].steps = steps
      BY <1>3, <2>2, <3>3 DEF Targeted
    <3>5. bytes[<<"gpu", host[n]>>] \in Contents
      BY <1>3, <2>1
    <3> QED
      BY <2>2, <3>2, <3>4, <3>5, TrainedIs
  <2>3. CASE ~Trains(n)
    <3>1. host[n] \notin held
      BY <1>7, <2>1, <2>3
    <3>2. \A h \in held : <<"gpu", host[n]>> \notin {<<"gpu", h>>, backing[h]}
      <4> SUFFICES ASSUME NEW h \in held, <<"gpu", host[n]>> \in {<<"gpu", h>>, backing[h]} PROVE FALSE
        OBVIOUS
      <4>1. backing[h][1] # "gpu" /\ <<"gpu", h>>[2] = h
        BY <1>8
      <4> QED
        BY <2>1, <3>1, <4>1
    <3>3. \A h \in gathered : <<"gpu", host[n]>> # backing[h]
      BY <1>8, <2>1
    <3>4. bytes'[<<"gpu", host[n]>>] = freed[<<"gpu", host[n]>>]
      BY <1>12, <2>1, <3>2, <3>3
    <3>5. freed[<<"gpu", host[n]>>] = Target(activation, n)
      BY <1>6, <2>3 DEF Targeted, hostNames
    <3> QED
      BY <2>3, <3>4, <3>5
  <2> QED
    BY <2>2, <2>3
<1>17. steps' \in Nat /\ Backed(bytes', steps') /\ Targeted(activation', acquired', bytes', steps') /\ Pointing(activation', acquired', registry', data')
  BY <1>1, <1>3, <1>5, <1>15, <1>16
<1>18. acquired' \subseteq Components /\ phase' \in {"idle", "active"} /\ phase' # "idle" /\ activation'.device # "cpu"
  BY <1>1, <1>4
<1> QED
  BY <1>1, <1>3, <1>13, <1>14, <1>17, <1>18, ActiveIs, CapturedNext

LEMMA StepOnHostKeeps ==
  ASSUME ModulesInv, StepOnHost
  PROVE  ModulesInv'
<1>1. /\ phase = "idle" \/ (phase = "active" /\ activation.device = "cpu")
      /\ steps' = steps + 1
      /\ bytes' = [s \in Storages |->
                     IF \E n \in Names : Trains(n) /\ Data(registry[n]) = s THEN Trained(bytes[s]) ELSE bytes[s]]
      /\ phase' = phase /\ registry' = registry /\ data' = data /\ acquired' = acquired /\ activation' = activation
      /\ routedUps' = routedUps /\ model' = model /\ host' = host /\ backing' = backing /\ ops' = ops /\ merged' = merged
  BY DEF StepOnHost
<1>2. Opening /\ Captured
  BY <1>1 DEF ModulesInv
<1>3. /\ model \in Models /\ Distinct1(merged) /\ bytes \in [Storages -> Contents] /\ steps \in Nat /\ Mapped(bytes) /\ ops = {}
      /\ Hosted /\ Backed(bytes, steps) /\ acquired = {} /\ Pointing(activation, {}, registry, data)
  BY <1>1, <1>2 DEF Opening, Captured
<1>4. \A n \in Names : Data(registry[n]) = backing[n]
  BY <1>3, MetaIs, NamesOfJoin
<1>5. \A n \in Names : Trains(n) => backing[n] \in Storages /\ Owned(backing[n])
  BY <1>3 DEF Hosted
<1>6. bytes' \in [Storages -> Contents]
  BY <1>1, <1>3, TrainedIs
<1>7. Mapped(bytes')
  <2> SUFFICES ASSUME NEW n \in model.mapped
               PROVE  bytes'[Base0(n)] = bytes[Base0(n)]
    BY <1>3 DEF Mapped
  <2>1. n \in Names /\ Base0(n) \in Storages /\ ~Owned(Base0(n))
    BY <1>3, ModelIs DEF WellFormed, Base0, Storages, Owned
  <2>2. \A m \in Names : Trains(m) => Data(registry[m]) # Base0(n)
    BY <1>4, <1>5, <2>1
  <2> QED
    BY <1>1, <2>1, <2>2
<1>8. Backed(bytes', steps + 1)
  <2> SUFFICES ASSUME NEW n \in Names, Provided(n)
               PROVE  IF Trains(n) THEN bytes'[backing[n]].steps = steps + 1 ELSE bytes'[backing[n]] = Permanently(n)
    BY <1>3 DEF Backed
  <2>1. backing[n] \in Storages /\ backing[n] # None
    BY <1>3 DEF Hosted
  <2>2. CASE Trains(n)
    <3>1. bytes'[backing[n]] = Trained(bytes[backing[n]])
      BY <1>1, <1>4, <2>1, <2>2
    <3>2. bytes[backing[n]].steps = steps /\ bytes[backing[n]] \in Contents
      BY <1>3, <2>1, <2>2 DEF Backed
    <3> QED
      BY <2>2, <3>1, <3>2, TrainedIs
  <2>3. CASE ~Trains(n)
    <3>1. \A m \in Names : Trains(m) => Data(registry[m]) # backing[n]
      <4> SUFFICES ASSUME NEW m \in Names, Trains(m), backing[m] = backing[n] PROVE FALSE
        BY <1>4
      <4>1. model.tie[n] = model.tie[m]
        BY <1>3, <2>1 DEF Hosted
      <4> QED
        BY <1>3, <2>3, <4>1 DEF Hosted
    <3>2. bytes'[backing[n]] = bytes[backing[n]]
      BY <1>1, <2>1, <3>1
    <3> QED
      BY <1>3, <2>3, <3>2 DEF Backed
  <2> QED
    BY <2>2, <2>3
<1>9. /\ steps' \in Nat /\ Backed(bytes', steps') /\ Pointing(activation', acquired', registry', data')
      /\ Targeted(activation', acquired', bytes', steps') /\ acquired' \subseteq Components
  BY <1>1, <1>3, <1>8, NamesOfJoin DEF Targeted
<1>10. /\ phase' = "active" => Serving(activation') /\ (activation'.device = "cpu" => acquired' = {})
       /\ phase' = "idle" => acquired' = {} /\ activation' = NoSession
       /\ \A n \in Names : routedUps'[n] =
            IF phase' = "active" /\ activation'.mode = "routed" THEN Contributions(activation'.request, n).ups ELSE NoDeltas
  BY <1>1, <1>2 DEF Captured
<1> QED
  BY <1>1, <1>3, <1>6, <1>7, <1>9, <1>10, CapturedNext

-----------------------------------------------------------------------------
(* The invariant, and what it is for *)

LEMMA StutterKeeps == ModulesInv /\ UNCHANGED modulesVars => ModulesInv'
<1> SUFFICES ASSUME ModulesInv, UNCHANGED modulesVars PROVE ModulesInv'
  OBVIOUS
<1>1. /\ phase' = phase /\ model' = model /\ registry' = registry /\ data' = data /\ bytes' = bytes /\ host' = host
      /\ backing' = backing /\ ops' = ops /\ acquired' = acquired /\ activation' = activation /\ routedUps' = routedUps
      /\ merged' = merged /\ steps' = steps
  BY DEF modulesVars
<1>2. CASE phase \in {"unopened", "dead"}
  <2>1. phase = "dead" => Opening'
    BY <1>1 DEF ModulesInv, Opening, Mapped, Distinct1, Base0
  <2> QED
    BY <1>1, <1>2, <2>1 DEF ModulesInv, Closed, Opening
<1>3. CASE phase \in {"loaded", "merging"}
  <2>1. Opening /\ Building
    BY <1>3 DEF ModulesInv
  <2>2. Opening'
    BY <1>1, <2>1 DEF Opening, Mapped, Distinct1, Base0
  <2>3. \A n \in Names : (Waits(n)' <=> Waits(n)) /\ (Ready(n)' <=> Ready(n)) /\ (Pending(n)' <=> Pending(n))
    BY <1>1, SameModel, SamePast DEF Waits, Ready, Shown, Data, Pending
  <2>4. Pointed(registry)' /\ Stored'
    BY <1>1, <2>1, SameModel DEF Building, Pointed, Stored
  <2>5. \A op \in ops : Operation(op)'
    BY <1>1, <2>1, SameModel, SamePast DEF Building, Operation
  <2>6. Building'
    BY <1>1, <2>1, <2>3, <2>4, <2>5 DEF Building
  <2> QED
    BY <1>1, <1>3, <2>2, <2>6 DEF ModulesInv
<1>4. CASE phase \in {"idle", "active"}
  <2>1. Opening /\ Captured
    BY <1>4 DEF ModulesInv
  <2>2. /\ model \in Models /\ Distinct1(merged) /\ bytes \in [Storages -> Contents] /\ steps \in Nat /\ Mapped(bytes) /\ ops = {}
        /\ Hosted /\ Backed(bytes, steps) /\ acquired \subseteq Components
        /\ Pointing(activation, acquired, registry, data) /\ Targeted(activation, acquired, bytes, steps)
    BY <1>4, <2>1 DEF Opening, Captured
  <2>3. /\ phase = "idle" => acquired = {} /\ activation = NoSession
        /\ phase = "active" => Serving(activation) /\ (activation.device = "cpu" => acquired = {})
        /\ \A n \in Names : routedUps[n] =
             IF phase = "active" /\ activation.mode = "routed" THEN Contributions(activation.request, n).ups ELSE NoDeltas
    BY <2>1 DEF Captured
  <2> QED
    BY <1>1, <1>4, <2>2, <2>3, CapturedNext
<1> QED
  BY <1>2, <1>3, <1>4 DEF ModulesInv

LEMMA NextKeeps == ModulesInv /\ [ModulesNext]_modulesVars => ModulesInv'
<1> SUFFICES ASSUME ModulesInv, [ModulesNext]_modulesVars PROVE ModulesInv'
  OBVIOUS
<1>1. ASSUME NEW m \in Models, Open(m) PROVE ModulesInv'
  BY <1>1, OpenKeeps
<1>2. ASSUME NEW request \in Merges, Merge(request) PROVE ModulesInv'
  BY <1>2, MergeKeeps
<1>3. ASSUME NEW op \in ops, ApplyOp(op) PROVE ModulesInv'
  BY <1>3, ApplyKeeps
<1>4. CASE Merged
  BY <1>4, MergedKeeps
<1>5. CASE Capture
  BY <1>5, CaptureKeeps
<1>6. ASSUME NEW s \in Sessions, BeginActivation(s) PROVE ModulesInv'
  BY <1>6, BeginKeeps
<1>7. ASSUME NEW c \in Components, Acquire(c) PROVE ModulesInv'
  BY <1>7, AcquireKeeps
<1>8. ASSUME NEW c \in Components, Release(c) PROVE ModulesInv'
  BY <1>8, ReleaseKeeps
<1>9. CASE OptimizerStep
  BY <1>9, OptimizerStepKeeps
<1>10. CASE StepOnHost
  BY <1>10, StepOnHostKeeps
<1>11. CASE EndActivation
  BY <1>11, EndKeeps
<1>12. CASE UNCHANGED modulesVars
  BY <1>12, StutterKeeps
<1> QED
  BY <1>1, <1>2, <1>3, <1>4, <1>5, <1>6, <1>7, <1>8, <1>9, <1>10, <1>11, <1>12 DEF ModulesNext

\* What the names point at and what their storage holds, through the building
\* of a model, its capture and its sessions.
THEOREM ModulesInvariance == ModulesSpec => []ModulesInv
<1>1. ModulesInit => ModulesInv
  BY InitIs
<1>2. ModulesInv /\ [ModulesNext]_modulesVars => ModulesInv'
  BY NextKeeps
<1> QED
  BY <1>1, <1>2, PTL DEF ModulesSpec

LEMMA OneOwnerHolds == ModulesInv => OneOwner
<1> SUFFICES ASSUME ModulesInv, phase = "loaded", NEW n \in Names
             PROVE  Cardinality({c \in Components : n \in ParamNames(c)}) = 1
  BY DEF OneOwner
<1>1. model \in Models
  BY DEF ModulesInv, Opening
<1>2. {c \in Components : n \in ParamNames(c)} = {ComponentOf(n)}
  BY <1>1, ComponentIs
<1> QED
  BY <1>2, FS_Singleton

LEMMA HostKeptHolds == ModulesInv => HostKept
<1> SUFFICES ASSUME ModulesInv PROVE HostKept
  OBVIOUS
<1>1. phase # "unopened" => \A n \in model.mapped : bytes[<<"base", model.tie[n]>>] = Pristine(<<"model", model.tie[n]>>)
  BY DEF ModulesInv, Opening, Mapped, Base0
<1>2. ASSUME phase \in {"idle", "active"}, NEW n \in Names
      PROVE  /\ Provided(n) =>
                  IF Trains(n) THEN bytes[backing[host[n]]].steps = steps ELSE bytes[backing[host[n]]] = Permanently(n)
             /\ phase = "idle" => Data(registry[n]) = backing[host[n]] /\ routedUps[n] = NoDeltas
  <2>1. Opening /\ Captured
    BY <1>2 DEF ModulesInv
  <2>2. model \in Models /\ Hosted /\ Backed(bytes, steps) /\ backing[host[n]] = backing[n]
    BY <2>1, AliasesAre DEF Opening, Captured, Hosted
  <2>3. phase = "idle" => Pointing(activation, {}, registry, data) /\ routedUps[n] = NoDeltas
    BY <2>1 DEF Captured
  <2>4. phase = "idle" => Data(registry[n]) = backing[n]
    BY <2>2, <2>3, MetaIs, NamesOfJoin
  <2> QED
    BY <2>2, <2>3, <2>4 DEF Backed
<1> QED
  BY <1>1, <1>2 DEF HostKept

LEMMA AsRequestedHolds == ModulesInv => AsRequested
<1> SUFFICES ASSUME ModulesInv, phase = "active", NEW n \in Names,
                    activation.device = "cpu" \/ ComponentOf(n) \in acquired, Trains(n) => steps = 0
             PROVE  IF Available(n) THEN ~IsMeta(n) /\ Effective(n) = Expected(n) ELSE IsMeta(n)
  BY DEF AsRequested
<1> DEFINE s == activation
           A == Aliases(n)
           x == Shown(n)
<1>1. /\ model \in Models /\ Distinct1(merged) /\ bytes \in [Storages -> Contents] /\ Hosted /\ Backed(bytes, steps)
      /\ acquired \in SUBSET Components /\ Pointing(s, acquired, registry, data) /\ Targeted(s, acquired, bytes, steps)
      /\ Serving(s) /\ PlansRight(s) /\ (s.device = "cpu" => acquired = {})
      /\ routedUps[n] = IF s.mode = "routed" THEN Contributions(s.request, n).ups ELSE NoDeltas
  BY ActiveIs
<1>2. s.request \in Seq(Uses) /\ Right(s.request) /\ Groups(s.request) /\ s \in Sessions
  BY <1>1 DEF Serving, Right
<1>3. Available(n) <=> Avail(s, n)
  BY DEF Available, Avail
<1>4. Permanently(n) \in Contents /\ A \in SUBSET Names
  BY <1>1, PermanentlyIn, AliasesAre
<1>5. /\ IsMeta(n) <=> ~(Provided(n) \/ (n \in NamesOf(acquired) /\ Avail(s, n)))
      /\ Data(registry[n]) = IF n \in NamesOf(acquired) /\ (Trains(n) \/ Avail(s, n)) THEN <<"gpu", host[n]>> ELSE backing[n]
  BY <1>1, MetaIs
<1>6. s.device = "cpu" => Gives(s.request, A) = {} /\ Target(s, n) = Permanently(n)
  <2>1. CASE s.mode = "routed"
    BY <1>1, <1>4, <2>1, RoutedGivesNothing DEF Target
  <2>2. CASE s.mode = "merge" /\ s.device = "cpu"
    <3>1. Updated(s.request) \cap A = {}
      BY <1>1, <2>2 DEF Serving
    <3> QED
      BY <1>2, <1>4, <2>2, <3>1, AfterNothing DEF Target
  <2> QED
    BY <1>2, <2>1, <2>2 DEF Sessions
<1>7. s.device # "cpu" => n \in NamesOf(acquired)
  BY <1>1, NamesOfAre
<1>8. Avail(s, n) => ~IsMeta(n) /\ x = Target(s, n)
  <2> SUFFICES ASSUME Avail(s, n) PROVE ~IsMeta(n) /\ x = Target(s, n)
    OBVIOUS
  <2>1. CASE s.device = "cpu"
    <3>1. Provided(n) /\ n \notin NamesOf(acquired)
      BY <1>1, <1>6, <2>1, NamesOfJoin DEF Avail
    <3>2. x = bytes[backing[n]]
      BY <1>5, <3>1 DEF Shown
    <3> QED
      BY <1>1, <1>5, <1>6, <2>1, <3>1, <3>2 DEF Backed
  <2>2. CASE s.device # "cpu"
    <3>1. x = bytes[<<"gpu", host[n]>>]
      BY <1>5, <1>7, <2>2 DEF Shown
    <3> QED
      BY <1>1, <1>5, <1>7, <2>2, <3>1 DEF Targeted
  <2> QED
    BY <2>1, <2>2
<1>9. ~Avail(s, n) => IsMeta(n)
  BY <1>5 DEF Avail
<1> HIDE DEF x, A
<1>10. Avail(s, n) => Effective(n) = Expected(n)
  <2> SUFFICES ASSUME x = Target(s, n) PROVE Effective(n) = Expected(n)
    BY <1>8
  <2>1. Effective(n) = [x EXCEPT !.ups = [t \in Specs |-> @[t] + routedUps[n][t]]]
    BY DEF Effective, x
  <2>2. CASE s.mode = "routed"
    <3>1. x = Permanently(n)
      BY <1>1, <1>4, <2>2, RoutedGivesNothing DEF Target
    <3>2. Contributions(s.request, n).values = <<>>
      <4>1. CASE n \in Updated(s.request)
        BY <1>1, <2>2, <4>1 DEF Serving
      <4>2. CASE n \notin Updated(s.request)
        <5>1. Updated(s.request) \cap {n} = {} /\ Alone(s.request, {n}, n)
          BY <4>2 DEF Alone
        <5>2. {n} \in SUBSET Names
          OBVIOUS
        <5>3. Gives(s.request, {n}) = {}
          BY <1>2, <1>4, <5>1, <5>2, AfterNothing
        <5> QED
          BY <1>2, <1>4, <5>1, <5>3, AppliedIsAfter
      <4> QED
        BY <4>1, <4>2
    <3>3. Effective(n) = After(Permanently(n), s.request, {n})
      <4>1. [Permanently(n) EXCEPT !.ups = [t \in Specs |-> @[t] + Contributions(s.request, n).ups[t]]]
              = After(Permanently(n), s.request, {n})
        BY <1>2, <1>4, <3>2, RoutedIsAfter
      <4>2. routedUps[n] = Contributions(s.request, n).ups
        BY <1>1, <2>2
      <4> QED
        BY <2>1, <3>1, <4>1, <4>2
    <3> QED
      BY <2>2, <3>3 DEF Expected
  <2>3. CASE s.mode = "merge"
    <3>1. Expected(n) = x
      BY <2>3 DEF Expected, Target
    <3>2. x \in Contents
      <4>1. PICK u \in Aliases(n) : Alone(s.request, Aliases(n), u)
        BY <1>1, <2>3, AsksOfOne DEF Serving
      <4> QED
        BY <1>2, <1>4, <2>3, <4>1, AppliedIsAfter DEF Target
    <3>3. routedUps[n] = NoDeltas
      BY <1>1, <2>3
    <3>4. [t \in Specs |-> x.ups[t] + NoDeltas[t]] = x.ups
      BY <3>2 DEF Contents, NoDeltas
    <3> QED
      BY <2>1, <3>1, <3>2, <3>3, <3>4 DEF Contents
  <2> QED
    BY <1>2, <2>2, <2>3 DEF Sessions
<1> QED
  BY <1>3, <1>8, <1>9, <1>10

\* Every parameter belongs to one component, whatever the block list skips
\* and however the transient paths nest (composite_component.py:148-235).
THEOREM OneOwnerAlways == ModulesSpec => []OneOwner
BY ModulesInvariance, OneOwnerHolds, PTL

\* A component that is loaded shows what was requested, each update once,
\* through every name (host_module.py:801-819).
THEOREM AsRequestedAlways == ModulesSpec => []AsRequested
BY ModulesInvariance, AsRequestedHolds, PTL

\* The host's bytes, the mapped files and the names between sessions are
\* kept (host_module.py:837-851, host_param.py:142-147, merge.py:93-107).
THEOREM HostKeptAlways == ModulesSpec => []HostKept
BY ModulesInvariance, HostKeptHolds, PTL

\* A trainable parameter keeps its object (host_module.py:854-889).
THEOREM TrainablesKeptAlways == ModulesSpec => TrainablesKept
<1> DEFINE Kept == (phase \in {"idle", "active"}) => \A n \in model.grad : registry'[n] = registry[n]
<1>1. ASSUME ModulesInv, [ModulesNext]_modulesVars
      PROVE  [Kept]_modulesVars
  <2> SUFFICES ASSUME ModulesNext, phase \in {"idle", "active"}, NEW n \in model.grad
               PROVE  registry'[n] = registry[n]
    BY <1>1
  <2>1. Opening /\ Captured
    BY <1>1 DEF ModulesInv
  <2>2. model \in Models /\ n \in Names /\ Trains(n)
    BY <2>1, ModelIs DEF Opening, WellFormed, Trains
  <2>3. ASSUME NEW names, NEW overrides, InstallTargets(names, overrides)
        PROVE  registry'[n] = registry[n]
    BY <2>2, <2>3 DEF InstallTargets
  <2>4. ASSUME NEW names, InstallHost(names)
        PROVE  registry'[n] = registry[n]
    BY <2>2, <2>4 DEF InstallHost
  <2>5. ASSUME NEW s \in Sessions, BeginActivation(s) PROVE registry'[n] = registry[n]
    BY <2>3, <2>5 DEF BeginActivation
  <2>6. ASSUME NEW c \in Components, Acquire(c) \/ Release(c) PROVE registry'[n] = registry[n]
    BY <2>3, <2>4, <2>6 DEF Acquire, Release
  <2>7. CASE OptimizerStep \/ StepOnHost \/ EndActivation
    BY <2>4, <2>7 DEF OptimizerStep, StepOnHost, EndActivation
  <2>8. ~(\E m \in Models : Open(m)) /\ ~(\E request \in Merges : Merge(request)) /\ ~(\E op \in ops : ApplyOp(op)) /\ ~Merged /\ ~Capture
    BY DEF Open, Merge, ApplyOp, Merged, Capture
  <2> QED
    BY <2>5, <2>6, <2>7, <2>8 DEF ModulesNext
<1> QED
  BY <1>1, ModulesInvariance, PTL DEF ModulesSpec, TrainablesKept
=============================================================================
