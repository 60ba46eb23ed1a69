------------------------------ MODULE HostRelay ------------------------------
(***************************************************************************)
(* The process group of communication.py.  Every rank runs its collectives *)
(* one at a time.  With the "shared" transport (_relay_shared.py) a rank   *)
(* copies its chunks into two slots of a mapping all ranks share, signals  *)
(* over Gloo that a chunk is ready and, when it has stopped reading a      *)
(* peer's, that it is free.  With the "gloo" transport (_relay_staging.py) *)
(* the chunks go through Gloo's own collectives, out of a buffer of the    *)
(* rank with Depth regions.                                                *)
(*                                                                         *)
(* A copy is queued on the rank's download or upload stream and is taken   *)
(* to touch its memory from the moment nothing it waits for is left until  *)
(* it completes, which it may do at any time.                              *)
(***************************************************************************)
EXTENDS Integers, Sequences, FiniteSets, FiniteSetsExt

CONSTANTS
  Groups,       \* the process groups: [transport, size, pinned, depth, calls, faults]
  Counts,       \* how many chunks a payload may take
  Root          \* the root broadcast and scatter are called with

(* pinned is the set of ranks whose lease of the buffer is not pageable, depth
   is pipeline_buffers; calls bounds the collectives a rank calls, and faults the
   time-outs that no failed peer explains. *)
ASSUME RelayAssumption ==
  /\ \A g \in Groups :
       /\ g.transport \in {"shared", "gloo"}
       /\ {g.size, g.depth} \subseteq Nat \ {0} /\ {g.calls, g.faults} \subseteq Nat
       /\ g.pinned \subseteq 0 .. g.size - 1 /\ Root \in 0 .. g.size - 1
  /\ Counts \subseteq Nat \ {0}

None == -1
Torn == <<>>        \* what is in a slot while a copy may be writing it
BUFFERS_PER_RANK == 2

VARIABLES
  group,        \* the process group, which every rank made with the same options
  op,           \* op[r]: the collective r runs
  pc,           \* pc[r]: where its thread is
  at,           \* at[r]: exchange (0 before the first), chunk, acknowledged chunks, peer
  waiting,      \* waiting[r]: its signal's receive is still pending
  asked,        \* asked[r]: the collectives r has begun, in order
  posted,       \* posted[r]: the chunks it gave to Gloo's collectives, in order
  chan,         \* chan[s][d][tag]: signals sent and not received
  mem,          \* mem[r][lane]: the chunk in a slot (or region) of rank r
  down, up,     \* the copies queued on the two streams of each rank
  got,          \* got[r]: what the collective of r copied out
  broken,       \* SharedRelay.broken
  dead,         \* Gloo's context of r has failed or was shut down
  faults
vars == <<group, op, pc, at, waiting, asked, posted, chan, mem, down, up, got, broken, dead, faults>>

------------------------------------------------------------------------------
N == group.size
Ranks == 0 .. N - 1
All == N            \* the addressee of a chunk published once for every peer
Lanes == 0 .. (IF group.depth > BUFFERS_PER_RANK THEN group.depth ELSE BUFFERS_PER_RANK) - 1

(* The collectives, and the exchanges of the shared transport.              *)

NoOp == [kind |-> "none", root |-> None, count |-> 1]

(* SharedRelay._peers, and the ranks that are not the root in order *)
Others(root) == [k \in 1 .. N - 1 |-> IF k <= root THEN k - 1 ELSE k]
Peers(r) == [step \in 1 .. N - 1 |-> <<(r + step) % N, (r - step) % N>>]

(* The exchanges _rounds and reduce make on rank r, each the pairs of peers to
   send to and to receive from. *)
Exchanges(o, r) ==
  CASE o.kind = "allreduce" -> IF N = 1 THEN <<>> ELSE <<Peers(r)>>
    [] o.kind = "allgather" -> [k \in 1 .. N - 1 |-> <<Peers(r)[k]>>]
    [] r = o.root           -> [k \in 1 .. N - 1 |-> <<<<Others(r)[k], None>>>>]
    [] OTHER                -> <<<<<<None, o.root>>>>>>

PeersNow(r) == Exchanges(op[r], r)[at[r].exchange]

(* Whether rank r has a source to copy out of and slots to copy in from. *)
Sends(o, x, r) ==
  IF group.transport = "gloo" THEN o.kind \in {"allgather", "allreduce"} \/ r = o.root
  ELSE \E i \in DOMAIN Exchanges(o, r)[x] : Exchanges(o, r)[x][i][1] # None
Sending(r) == Sends(op[r], at[r].exchange, r)
Receiving(r) == group.transport = "gloo" \/ \E i \in DOMAIN PeersNow(r) : PeersNow(r)[i][2] # None

(* Copies are asynchronous out of registered memory only, and through Gloo only
   when a payload is longer than one of several regions. *)
Asynchronous(o, r) == r \in group.pinned /\ (group.transport = "shared" \/ (group.depth > 1 /\ o.count > 1))
Buffers(o, r) ==
  IF group.transport = "shared" THEN BUFFERS_PER_RANK ELSE IF Asynchronous(o, r) THEN group.depth ELSE 1
Lane(r, i) == i % Buffers(op[r], r)

(* The i-th chunk of the c-th collective as s meant it for d. *)
Chunk(c, s, d, i) == <<c, s, d, i>>
Addressee(o, d) == IF o.kind = "allreduce" THEN All ELSE d
Source(o, c, x, r, i) ==
  Chunk(c, r, IF group.transport = "gloo" THEN All ELSE Addressee(o, Exchanges(o, r)[x][1][1]), i)

(* download: the copy of chunk i into its slot, once so many uploads are done.
   Through Gloo a rank with nothing to send queues the wait alone. *)
Copying(o, c, x, r, i, uploads) ==
  [lane |-> i % Buffers(o, r), tag |-> Source(o, c, x, r, i), after |-> uploads, writes |-> Sends(o, x, r)]
Downloads(o, x, r) == group.transport = "gloo" \/ Sends(o, x, r)
Download(o, c, x, r, i, uploads) ==
  down' = IF Downloads(o, x, r) THEN [down EXCEPT ![r] = Append(@, Copying(o, c, x, r, i, uploads))] ELSE down

(* Work at the head of a stream, and behind work that waits for no upload, may
   be running. *)
MayRun(r, j) == \A k \in 1 .. j : down[r][k].after <= at[r].uploaded
Content(r, l) ==
  IF \E j \in DOMAIN down[r] : down[r][j].lane = l /\ down[r][j].writes /\ MayRun(r, j) THEN Torn ELSE mem[r][l]

Calls(r) == Len(asked[r])

------------------------------------------------------------------------------
Init ==
  /\ group \in Groups
  /\ op = [r \in Ranks |-> NoOp]
  /\ pc = [r \in Ranks |-> "idle"]
  /\ at = [r \in Ranks |-> [exchange |-> 0, chunk |-> 0, acked |-> 0, peer |-> 1, uploaded |-> 0]]
  /\ waiting = [r \in Ranks |-> FALSE]
  /\ asked = [r \in Ranks |-> <<>>]
  /\ posted = [r \in Ranks |-> <<>>]
  /\ chan = [s \in Ranks |-> [d \in Ranks |-> [tag \in {0, 1} |-> <<>>]]]
  /\ mem = [r \in Ranks |-> [l \in Lanes |-> Torn]]
  /\ down = [r \in Ranks |-> <<>>]
  /\ up = [r \in Ranks |-> <<>>]
  /\ got = [r \in Ranks |-> {}]
  /\ broken = [r \in Ranks |-> FALSE]
  /\ dead = [r \in Ranks |-> FALSE]
  /\ faults = 0

Group == <<group, op, asked, broken, dead, faults>>
Control == <<waiting, posted, chan>>
Streams == <<mem, down, up, got>>

Goto(r, where) == pc' = [pc EXCEPT ![r] = where]

------------------------------------------------------------------------------
(* One collective, up to its first wait.                                    *)

(* The exchange x begins: _chunks, or TransferPipeline.chunks, queues the first
   downloads.  Past the last exchange only the copies are left to wait for. *)
StartExchange(r, o, c, x) ==
  /\ at' = [at EXCEPT ![r] = [exchange |-> x, chunk |-> 0, acked |-> 0, peer |-> 1, uploaded |-> 0]]
  /\ IF group.transport = "gloo" \/ x <= Len(Exchanges(o, r))
     THEN /\ Goto(r, "chunk")
          /\ down' = [down EXCEPT ![r] =
               IF Downloads(o, x, r)
               THEN [k \in 1 .. Min({Buffers(o, r), o.count}) |-> Copying(o, c, x, r, k - 1, 0)] ELSE <<>>]
     ELSE Goto(r, "drain") /\ UNCHANGED down

(* _RelayProcessGroup._collective, past its guards, and SharedRelay._collective
   up to the all-gather of the metadata.  Through Gloo the ranks are trusted to
   call the same collectives in the same order. *)
Call(r, o) ==
  /\ pc[r] = "idle" /\ Calls(r) < group.calls /\ ~broken[r] /\ ~dead[r]
  /\ asked' = [asked EXCEPT ![r] = Append(@, o)]
  /\ op' = [op EXCEPT ![r] = o]
  /\ got' = [got EXCEPT ![r] = {}]
  /\ IF group.transport = "shared"
     THEN Goto(r, "metadata") /\ at' = [at EXCEPT ![r].exchange = 0] /\ UNCHANGED down
     ELSE /\ \A s \in Ranks : Calls(s) > Calls(r) => asked[s][Calls(r) + 1] = o
          /\ StartExchange(r, o, Calls(r) + 1, 1)
  /\ UNCHANGED <<group, Control, mem, up, broken, dead, faults>>

(* The metadata of every rank has arrived; when it is not the same, nothing has
   been written and the call raises ValueError. *)
Metadata(r) ==
  /\ pc[r] = "metadata" /\ \A s \in Ranks : Calls(s) >= Calls(r)
  /\ IF \A s \in Ranks : asked[s][Calls(r)] = op[r]
     THEN StartExchange(r, op[r], Calls(r), 1)
     ELSE Goto(r, "idle") /\ UNCHANGED <<at, down>>
  /\ UNCHANGED <<Group, Control, mem, up, got>>

AllReduce(r) == \E n \in Counts : Call(r, [kind |-> "allreduce", root |-> None, count |-> n])
AllGather(r) == \E n \in Counts : Call(r, [kind |-> "allgather", root |-> None, count |-> n])
Broadcast(r) == \E n \in Counts : Call(r, [kind |-> "broadcast", root |-> Root, count |-> n])
Scatter(r) == \E n \in Counts : Call(r, [kind |-> "scatter", root |-> Root, count |-> n])
Collective(r) == AllReduce(r) \/ AllGather(r) \/ Broadcast(r) \/ Scatter(r)

------------------------------------------------------------------------------
(* Chunks through shared slots.                                             *)

(* A synchronous copy is over before its thread goes on. *)
MayGoOn(r) == pc[r] = "chunk" /\ (Asynchronous(op[r], r) \/ (down[r] = <<>> /\ up[r] = <<>>))
Filled(r) == \A j \in DOMAIN down[r] : down[r][j].lane # Lane(r, at[r].chunk)

(* _signal(send, receive, tag, sequence): both are posted before either is waited for. *)
Pair(r, p, tag) == IF tag = 0 THEN PeersNow(r)[p] ELSE <<PeersNow(r)[p][2], PeersNow(r)[p][1]>>
Post(r, p, tag, sequence) ==
  LET send == Pair(r, p, tag)[1]
  IN  /\ chan' = IF send = None THEN chan ELSE [chan EXCEPT ![r][send][tag] = Append(@, sequence)]
      /\ waiting' = [waiting EXCEPT ![r] = Pair(r, p, tag)[2] # None]

Tag(r) == IF pc[r] = "free" THEN 1 ELSE 0
Sequence(r) == IF pc[r] = "free" THEN at[r].acked ELSE at[r].chunk

(* The next chunk is in its slot: tell each peer. *)
Publish(r) ==
  /\ group.transport = "shared" /\ MayGoOn(r)
  /\ at[r].chunk < op[r].count /\ at[r].chunk - at[r].acked < BUFFERS_PER_RANK
  /\ Filled(r)
  /\ Goto(r, "ready")
  /\ Post(r, 1, 0, at[r].chunk)
  /\ at' = [at EXCEPT ![r].peer = 1]
  /\ UNCHANGED <<Group, posted, Streams>>

(* MUTANT: the chunk is given back before the GPU has stopped reading it. *)
ReleaseAtOnce(r) ==
  /\ group.transport = "shared" /\ MayGoOn(r)
  /\ at[r].acked < at[r].chunk
  /\ at[r].chunk = op[r].count \/ at[r].chunk - at[r].acked = BUFFERS_PER_RANK
  /\ Goto(r, "free")
  /\ Post(r, 1, 1, at[r].acked)
  /\ at' = [at EXCEPT ![r].peer = 1]
  /\ UNCHANGED <<Group, posted, Streams>>

(* release: this rank's GPU has stopped reading the peers' oldest chunk, so tell
   each of them, and hear from each that it has stopped reading ours. *)
Release(r) ==
  /\ group.transport = "shared" /\ MayGoOn(r)
  /\ at[r].acked < at[r].chunk
  /\ at[r].chunk = op[r].count \/ at[r].chunk - at[r].acked = BUFFERS_PER_RANK
  /\ Receiving(r) => at[r].uploaded > at[r].acked
  /\ Goto(r, "free")
  /\ Post(r, 1, 1, at[r].acked)
  /\ at' = [at EXCEPT ![r].peer = 1]
  /\ UNCHANGED <<Group, posted, Streams>>

(* MUTANT: the send is waited for before the receive. *)
HearAfterTaken(r) ==
  LET pair == Pair(r, at[r].peer, Tag(r))
      inbox == chan[pair[2]][r][Tag(r)]
  IN  /\ pc[r] \in {"ready", "free"} /\ waiting[r] /\ inbox # <<>>
      /\ pair[1] # None => chan[r][pair[1]][Tag(r)] = <<>>
      /\ chan' = [chan EXCEPT ![pair[2]][r][Tag(r)] = Tail(@)]
      /\ waiting' = [waiting EXCEPT ![r] = FALSE]
      /\ UNCHANGED <<Group, pc, at, posted, Streams>>

(* The wait for the receive ends, with the number of another chunk as an error. *)
Hear(r) ==
  LET inbox == chan[Pair(r, at[r].peer, Tag(r))[2]][r][Tag(r)]
  IN  /\ pc[r] \in {"ready", "free"} /\ waiting[r] /\ inbox # <<>>
      /\ chan' = [chan EXCEPT ![Pair(r, at[r].peer, Tag(r))[2]][r][Tag(r)] = Tail(@)]
      /\ waiting' = [waiting EXCEPT ![r] = FALSE]
      /\ broken' = [broken EXCEPT ![r] = @ \/ Head(inbox) # Sequence(r)]
      /\ IF Head(inbox) = Sequence(r) THEN UNCHANGED pc ELSE Goto(r, "failed")
      /\ UNCHANGED <<group, op, at, asked, posted, Streams, dead, faults>>

(* The chunk is copied out of the peers' slots. *)
Upload(r) ==
  up' = IF ~Receiving(r) THEN up
        ELSE [up EXCEPT ![r] = Append(@, {[rank |-> PeersNow(r)[i][2], lane |-> Lane(r, at[r].chunk),
                 tag |-> Chunk(Calls(r), PeersNow(r)[i][2], Addressee(op[r], r), at[r].chunk)] :
                 i \in DOMAIN PeersNow(r)})]

(* The wait for the send ends as well.  Gloo may take a short message before its
   receiver asks for it, but is not bound to. *)
Heard(r) ==
  /\ pc[r] \in {"ready", "free"} /\ ~waiting[r]
  /\ IF at[r].peer < Len(PeersNow(r))
     THEN /\ Post(r, at[r].peer + 1, Tag(r), Sequence(r))
          /\ at' = [at EXCEPT ![r].peer = @ + 1]
          /\ UNCHANGED <<pc, down, up>>
     ELSE /\ Goto(r, "chunk")
          /\ UNCHANGED <<chan, waiting>>
          /\ IF pc[r] = "ready"
             THEN Upload(r) /\ at' = [at EXCEPT ![r].chunk = @ + 1] /\ UNCHANGED down
             ELSE /\ at' = [at EXCEPT ![r].acked = @ + 1]
                  /\ IF at[r].chunk = op[r].count THEN UNCHANGED down
                     ELSE Download(op[r], Calls(r), at[r].exchange, r, at[r].chunk, 0)
                  /\ UNCHANGED up
  /\ UNCHANGED <<Group, posted, mem, got>>
Taken(r) == LET send == Pair(r, at[r].peer, Tag(r))[1] IN send # None => chan[r][send][Tag(r)] = <<>>

NextExchange(r) ==
  /\ group.transport = "shared" /\ MayGoOn(r) /\ at[r].acked = op[r].count
  /\ StartExchange(r, op[r], Calls(r), at[r].exchange + 1)
  /\ UNCHANGED <<Group, Control, mem, up, got>>

------------------------------------------------------------------------------
(* Chunks through Gloo.                                                     *)

(* The collective of a chunk is issued on the region it was copied to; on a
   context that has failed it raises. *)
Issue(r) ==
  /\ group.transport = "gloo" /\ MayGoOn(r) /\ at[r].chunk < op[r].count /\ Filled(r)
  /\ posted' = [posted EXCEPT ![r] = Append(@, Content(r, Lane(r, at[r].chunk)))]
  /\ Goto(r, "gloo")
  /\ UNCHANGED <<Group, at, waiting, chan, Streams>>

(* Every rank has issued it: the result is in the region, its copy to the
   destination is queued, and behind it the download that reuses the region. *)
Gather(r) ==
  LET k == Len(posted[r])
      i == at[r].chunk
      right == \A s \in Ranks : Sends(op[r], 1, s) => posted[s][k] = Chunk(Calls(r), s, All, i)
      result == IF right THEN Chunk(Calls(r), All, r, i) ELSE Torn
  IN  /\ pc[r] = "gloo" /\ ~dead[r] /\ \A s \in Ranks : Len(posted[s]) >= k
      /\ mem' = [mem EXCEPT ![r][Lane(r, i)] = result]
      /\ up' = [up EXCEPT ![r] = Append(@, {[rank |-> r, lane |-> Lane(r, i), tag |-> Chunk(Calls(r), All, r, i)]})]
      /\ IF i + Buffers(op[r], r) >= op[r].count THEN UNCHANGED down
         ELSE Download(op[r], Calls(r), 1, r, i + Buffers(op[r], r), i + 1)
      /\ at' = [at EXCEPT ![r].chunk = i + 1]
      /\ Goto(r, "chunk")
      /\ UNCHANGED <<Group, Control, got>>

LastChunk(r) ==
  /\ group.transport = "gloo" /\ MayGoOn(r) /\ at[r].chunk = op[r].count
  /\ Goto(r, "drain")
  /\ UNCHANGED <<Group, Control, at, Streams>>

------------------------------------------------------------------------------
(* The device, the end of a call, failures.                                 *)

Downloaded(r) ==
  /\ down[r] # <<>> /\ MayRun(r, 1)
  /\ mem' = IF Head(down[r]).writes THEN [mem EXCEPT ![r][Head(down[r]).lane] = Head(down[r]).tag] ELSE mem
  /\ down' = [down EXCEPT ![r] = Tail(@)]
  /\ UNCHANGED <<Group, Control, pc, at, up, got>>

Uploaded(r) ==
  /\ up[r] # <<>>
  /\ got' = [got EXCEPT ![r] = @ \cup {Content(u.rank, u.lane) : u \in Head(up[r])}]
  /\ up' = [up EXCEPT ![r] = Tail(@)]
  /\ at' = [at EXCEPT ![r].uploaded = @ + 1]
  /\ UNCHANGED <<Group, Control, pc, mem, down>>

(* MUTANT: after an error only the download stream is synchronized. *)
ReturnAfterDownloads(r) ==
  /\ pc[r] \in {"drain", "failed"} /\ down[r] = <<>> /\ (pc[r] = "drain" => up[r] = <<>>)
  /\ Goto(r, "idle")
  /\ UNCHANGED <<Group, Control, at, Streams>>

(* Both streams are synchronized before the lease is closed, after an error too. *)
Return(r) ==
  /\ pc[r] \in {"drain", "failed"} /\ down[r] = <<>> /\ up[r] = <<>>
  /\ Goto(r, "idle")
  /\ UNCHANGED <<Group, Control, at, Streams>>

(* A wait on Gloo raises: because a peer is gone, or at its time-out.  Its context
   is then of no use; an exchange that had begun leaves the relay broken. *)
Abandoned(r) == \E s \in Ranks : dead[s] \/ broken[s]
TimeOut(r) ==
  /\ pc[r] \in {"metadata", "ready", "free", "gloo"}
  /\ Abandoned(r) \/ faults < group.faults
  /\ faults' = IF Abandoned(r) THEN faults ELSE faults + 1
  /\ dead' = [dead EXCEPT ![r] = TRUE]
  /\ broken' = [broken EXCEPT ![r] = @ \/ pc[r] \in {"ready", "free"}]
  /\ Goto(r, IF pc[r] = "metadata" THEN "idle" ELSE "failed")
  /\ UNCHANGED <<group, op, asked, Control, at, Streams>>

(* shutdown takes the collective's lock. *)
Shutdown(r) ==
  /\ pc[r] = "idle" /\ ~dead[r] /\ faults < group.faults
  /\ faults' = faults + 1
  /\ dead' = [dead EXCEPT ![r] = TRUE]
  /\ UNCHANGED <<group, op, asked, broken, pc, at, Control, Streams>>

Thread(r) == Metadata(r) \/ Publish(r) \/ Release(r) \/ Hear(r) \/ NextExchange(r)
             \/ Issue(r) \/ Gather(r) \/ LastChunk(r) \/ Return(r)
Next == \E r \in Ranks :
  \/ Collective(r) \/ Thread(r) \/ Heard(r) \/ Downloaded(r) \/ Uploaded(r) \/ TimeOut(r) \/ Shutdown(r)

(* Copies complete, threads go on, a wait for a peer that is gone times out, and
   every rank's program makes its calls.  A rank only moves forward and its calls
   are bounded, so that to keep one of these steps from ever being taken is to
   stop them all: one fairness condition stands for one per rank and stream. *)
Progress == \E r \in Ranks :
  \/ Thread(r) \/ (Heard(r) /\ Taken(r)) \/ (Abandoned(r) /\ TimeOut(r))
  \/ Downloaded(r) \/ Uploaded(r) \/ Collective(r)
Spec == Init /\ [][Next]_vars /\ WF_vars(Progress)

------------------------------------------------------------------------------
(* What a collective has copied out once it has returned.                   *)
Expected(o, c, r) ==
  LET chunks == 0 .. o.count - 1 IN
  IF group.transport = "gloo" THEN {Chunk(c, All, r, i) : i \in chunks} ELSE
  CASE o.kind = "allgather" -> {Chunk(c, s, r, i) : s \in Ranks \ {r}, i \in chunks}
    [] o.kind = "allreduce" -> {Chunk(c, s, All, i) : s \in Ranks \ {r}, i \in chunks}
    [] OTHER -> IF r = o.root THEN {} ELSE {Chunk(c, o.root, r, i) : i \in chunks}

(* As long as a copy out of a slot is queued, the slot holds the chunk of this
   collective and this round the reader was told of, whole: nobody's download
   writes it, under either transport. *)
ReadsItsChunk ==
  \A r \in Ranks : \A j \in DOMAIN up[r] : \A u \in up[r][j] : Content(u.rank, u.lane) = u.tag

(* No copy of a collective outlives the call, which closes the lease of the
   buffer and lets go of the tensors, whether it returns or raises. *)
LeaseOutlivesCopies ==
  \A r \in Ranks : pc[r] \in {"idle", "metadata"} => down[r] = <<>> /\ up[r] = <<>>

(* A collective that returns normally has copied out exactly the chunks its kind
   promises to this rank, and each of them is this call's. *)
Delivered == \A r \in Ranks :
  pc[r] = "drain" /\ up[r] = <<>> => got[r] = Expected(op[r], Calls(r), r)

(* What a rank reads, chunk by chunk and as a whole, is what was sent to it. *)
ChunksRight == ReadsItsChunk /\ Delivered

(* Whatever the ranks call, every call returns or raises: the cyclic rounds and
   the waits for every peer of a reduction cannot lock each other out. *)
CollectivesReturn == <>[](\A r \in Ranks : pc[r] = "idle")
==============================================================================
