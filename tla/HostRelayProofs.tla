-------------------------- MODULE HostRelayProofs --------------------------
(***************************************************************************)
(* Proofs about HostRelay, for any number of ranks, buffers, chunks and    *)
(* calls, and any faults: that what a collective copies out of a slot or a *)
(* region is the chunk meant for it, that one which returns has copied all *)
(* of them, and that no copy outlives the call.                            *)
(***************************************************************************)
EXTENDS HostRelay, DataLemmas

-----------------------------------------------------------------------------
(* The types of the state *)

Shared == group.transport = "shared"
Ops ==
  [kind : {"allreduce", "allgather"}, root : {None}, count : Counts]
    \cup [kind : {"broadcast", "scatter"}, root : {Root}, count : Counts]
Tags == (Int \X Int \X Int \X Int) \cup {Torn}

TypeOK ==
  /\ group \in Groups
  /\ op \in [Ranks -> Ops \cup {NoOp}]
  /\ pc \in [Ranks -> {"idle", "metadata", "chunk", "ready", "free", "gloo", "drain", "failed"}]
  /\ at \in [Ranks -> [exchange : Nat, chunk : Nat, acked : Nat, peer : Nat \ {0}, uploaded : Nat]]
  /\ waiting \in [Ranks -> BOOLEAN]
  /\ asked \in [Ranks -> Seq(Ops)]
  /\ posted \in [Ranks -> Seq(Tags)]
  /\ chan \in [Ranks -> [Ranks -> [{0, 1} -> Seq(Nat)]]]
  /\ mem \in [Ranks -> [Lanes -> Tags]]
  /\ down \in [Ranks -> Seq([lane : Lanes, tag : Tags, after : Nat, writes : BOOLEAN])]
  /\ up \in [Ranks -> Seq(SUBSET [rank : Ranks, lane : Lanes, tag : Tags])]
  /\ got \in [Ranks -> SUBSET Tags]
  /\ broken \in [Ranks -> BOOLEAN] /\ dead \in [Ranks -> BOOLEAN] /\ faults \in Nat

\* A rank runs the last collective it was asked for.
Turns == \A r \in Ranks :
  /\ Calls(r) >= 1 => op[r] = asked[r][Calls(r)]
  /\ pc[r] # "idle" => Calls(r) >= 1

-----------------------------------------------------------------------------
(* Shared slots: who is how far with whom *)

\* s has chunks for d; the exchange of each in which they meet, and the place of the
\* other among its peers there.
Flows(o, s, d) == s # d /\ (o.kind \in {"allreduce", "allgather"} \/ s = o.root)
Gap(s, d) == IF s < d THEN d - s ELSE d - s + N
Outward(o, s, d) ==
  CASE o.kind = "allreduce" -> 1
    [] o.kind = "allgather" -> Gap(s, d)
    [] OTHER                -> IF d < s THEN d + 1 ELSE d
Inward(o, s, d) == IF o.kind = "allgather" THEN Gap(s, d) ELSE 1
Place(o, s, d) == IF o.kind = "allreduce" THEN Gap(s, d) ELSE 1

Begun(r) == at[r].exchange >= 1
Past(r) == at[r].exchange = Len(Exchanges(op[r], r)) + 1
Within(r) == at[r].exchange \in DOMAIN Exchanges(op[r], r)
Agreed(c, o) == c >= 1 /\ \A q \in Ranks : Calls(q) >= c /\ asked[q][c] = o

\* Nobody is past the metadata of a collective that not all have called.
Agreement(r) ==
  /\ Begun(r) => Agreed(Calls(r), op[r]) /\ (Within(r) \/ Past(r))
  /\ pc[r] = "metadata" => ~Begun(r)
  /\ pc[r] \in {"chunk", "ready", "free"} => Within(r)
  /\ pc[r] = "drain" => Begun(r) /\ Past(r)
  /\ pc[r] = "failed" => Within(r) /\ (dead[r] \/ broken[r])
  /\ pc[r] # "gloo"
  /\ pc[r] = "idle" /\ ~dead[r] /\ ~broken[r] =>
       /\ IF Begun(r) THEN Past(r) ELSE ~Agreed(Calls(r), op[r])
       /\ \A q \in Ranks : Calls(q) >= Calls(r)
  /\ \A q \in Ranks : Calls(r) <= Calls(q) + 1

\* The slots of the rank: the first chunk that is not acknowledged and the next.
Window(r, i) == i < at[r].acked + BUFFERS_PER_RANK
ChunkOf(r, i) == Source(op[r], Calls(r), at[r].exchange, r, i)
Counters(r) == Within(r) =>
  /\ at[r].acked <= at[r].chunk /\ at[r].chunk <= op[r].count
  /\ at[r].chunk <= at[r].acked + BUFFERS_PER_RANK /\ at[r].uploaded <= at[r].chunk
  /\ pc[r] = "ready" => at[r].chunk < op[r].count /\ Window(r, at[r].chunk)
  /\ pc[r] = "free" => at[r].acked < at[r].chunk /\ (at[r].chunk = op[r].count \/ ~Window(r, at[r].chunk))
  /\ pc[r] \in {"ready", "free"} => at[r].peer \in DOMAIN PeersNow(r)
  /\ Receiving(r) => at[r].acked <= at[r].uploaded /\ (pc[r] = "free" => at[r].acked < at[r].uploaded)

Slots(r) ==
  IF Within(r) /\ Sending(r)
  THEN /\ \A j \in DOMAIN down[r] : \E i \in at[r].chunk .. op[r].count - 1 :
            /\ Window(r, i) /\ (pc[r] = "ready" => i # at[r].chunk)
            /\ down[r][j] = Copying(op[r], Calls(r), at[r].exchange, r, i, 0)
       /\ \A i \in at[r].acked .. op[r].count - 1 : Window(r, i) =>
            \/ i >= at[r].chunk /\ \E j \in DOMAIN down[r] : down[r][j].lane = i % BUFFERS_PER_RANK
            \/ mem[r][i % BUFFERS_PER_RANK] = ChunkOf(r, i)
  ELSE down[r] = <<>>

\* A receiver's copies out, in the order of the chunks; what it has got, round by round.
Reads(r, i) ==
  {[rank |-> PeersNow(r)[p][2], lane |-> i % BUFFERS_PER_RANK,
    tag |-> Chunk(Calls(r), PeersNow(r)[p][2], Addressee(op[r], r), i)] : p \in DOMAIN PeersNow(r)}
Fetched(r) ==
  {Chunk(Calls(r), f[1], Addressee(op[r], r), f[2]) :
     f \in {f \in Ranks \X (0 .. op[r].count - 1) :
              /\ Flows(op[r], f[1], r)
              /\ \/ Inward(op[r], f[1], r) < at[r].exchange
                 \/ Inward(op[r], f[1], r) = at[r].exchange /\ f[2] < at[r].uploaded}}
Uploads(r) ==
  /\ IF Within(r) /\ Receiving(r)
     THEN /\ Len(up[r]) = at[r].chunk - at[r].uploaded
          /\ \A j \in DOMAIN up[r] : up[r][j] = Reads(r, at[r].uploaded + j - 1)
     ELSE up[r] = <<>>
  /\ pc[r] \in {"metadata", "chunk", "ready", "free", "drain"} => got[r] = Fetched(r)

\* Chunk i of s is whole in its slot.
Whole(s, i) ==
  /\ mem[s][i % BUFFERS_PER_RANK] = ChunkOf(s, i)
  /\ \A j \in DOMAIN down[s] : down[s][j].lane # i % BUFFERS_PER_RANK

\* How far a rank is in call c: beyond exchange x, or in it.
Beyond(r, c, x) == Calls(r) > c \/ (Calls(r) = c /\ at[r].exchange > x)
In(r, c, x) == Calls(r) = c /\ at[r].exchange = x
HeardFrom(r, p) == p < at[r].peer \/ (p = at[r].peer /\ ~waiting[r])

\* The life of chunk i on its way from s to d in call c: s has told d of it, d has heard,
\* d has copied it out, d has told s so, s has heard.  A rank that failed while it told
\* its peers may or may not have told this one.
Told(o, c, s, d, i) ==
  \/ Beyond(s, c, Outward(o, s, d))
  \/ /\ In(s, c, Outward(o, s, d))
     /\ \/ at[s].chunk > i
        \/ at[s].chunk = i /\ CASE pc[s] = "ready" -> Place(o, s, d) <= at[s].peer
                                [] pc[s] \in {"chunk", "free"} -> FALSE
                                [] OTHER -> Whole(s, i)
Known(o, c, s, d, i) ==
  \/ Beyond(d, c, Inward(o, s, d))
  \/ /\ In(d, c, Inward(o, s, d))
     /\ at[d].chunk > i \/ (at[d].chunk = i /\ pc[d] = "ready" /\ HeardFrom(d, Place(o, s, d)))
Copied(o, c, s, d, i) ==
  Beyond(d, c, Inward(o, s, d)) \/ (In(d, c, Inward(o, s, d)) /\ at[d].uploaded > i)
Freed(o, c, s, d, i) ==
  \/ Beyond(d, c, Inward(o, s, d))
  \/ /\ In(d, c, Inward(o, s, d))
     /\ \/ at[d].acked > i
        \/ at[d].acked = i /\ CASE pc[d] = "free" -> Place(o, s, d) <= at[d].peer
                                [] pc[d] \in {"chunk", "ready"} -> FALSE
                                [] OTHER -> at[d].uploaded > i
Acknowledged(o, c, s, d, i) ==
  \/ Beyond(s, c, Outward(o, s, d))
  \/ /\ In(s, c, Outward(o, s, d))
     /\ at[s].acked > i \/ (at[s].acked = i /\ pc[s] = "free" /\ HeardFrom(s, Place(o, s, d)))

Increasing(f) == \A j, k \in DOMAIN f : j < k => f[j] < f[k]

\* What one has heard the other has said, and what is on its way was said and not heard.
Knowledge(s, d) ==
  Agreed(Calls(s), op[s]) /\ Flows(op[s], s, d) => \A i \in 0 .. op[s].count - 1 :
    Known(op[s], Calls(s), s, d, i) => Told(op[s], Calls(s), s, d, i)
Permission(s, d) ==
  Agreed(Calls(d), op[d]) /\ Flows(op[d], s, d) => \A i \in 0 .. op[d].count - 1 :
    Acknowledged(op[d], Calls(d), s, d, i) => Freed(op[d], Calls(d), s, d, i)
ReadySignals(s, d) ==
  /\ Increasing(chan[s][d][0])
  /\ \A j \in DOMAIN chan[s][d][0] : LET i == chan[s][d][0][j] IN
       /\ Begun(s) /\ Flows(op[s], s, d) /\ i < op[s].count
       /\ Told(op[s], Calls(s), s, d, i) /\ ~Known(op[s], Calls(s), s, d, i)
FreeSignals(s, d) ==
  /\ Increasing(chan[d][s][1])
  /\ \A j \in DOMAIN chan[d][s][1] : LET i == chan[d][s][1][j] IN
       /\ Begun(s) /\ Flows(op[s], s, d) /\ i < op[s].count
       /\ Freed(op[s], Calls(s), s, d, i) /\ ~Acknowledged(op[s], Calls(s), s, d, i)
Handshake == \A s, d \in Ranks :
  Knowledge(s, d) /\ Permission(s, d) /\ ReadySignals(s, d) /\ FreeSignals(s, d)

SharedInv == (\A r \in Ranks : Agreement(r) /\ Counters(r) /\ Slots(r) /\ Uploads(r)) /\ Handshake

-----------------------------------------------------------------------------
(* Through Gloo: the regions of a rank, and what it gave to the collectives *)

Deep(r) == Buffers(op[r], r)
Behind(r, i) == IF i < Deep(r) THEN 0 ELSE i - Deep(r) + 1
Chunks(r) == 0 .. op[r].count - 1
Ahead(r, i) == at[r].chunk <= i /\ i < at[r].chunk + Deep(r)

\* How far a call is: a chunk is at most Deep ahead of the copies out.
Issued(r) ==
  /\ at[r].exchange = 1
  /\ at[r].uploaded <= at[r].chunk /\ at[r].chunk <= at[r].uploaded + Deep(r)
  /\ at[r].chunk <= op[r].count
  /\ pc[r] = "gloo" => at[r].chunk < op[r].count
  /\ pc[r] = "drain" => at[r].chunk = op[r].count

\* The copies into the regions are of the next chunks, each behind the copy out of its
\* region; a region without one holds its chunk, and one not yet copied out the result.
Queued(r) == \A j \in DOMAIN down[r] : \E i \in Chunks(r) :
  /\ Ahead(r, i) /\ (pc[r] = "gloo" => i # at[r].chunk)
  /\ down[r][j] = Copying(op[r], Calls(r), 1, r, i, Behind(r, i))
Loaded(r) == \A i \in Chunks(r) : Ahead(r, i) =>
  \/ \E j \in DOMAIN down[r] : down[r][j].lane = i % Deep(r)
  \/ /\ i < at[r].uploaded + Deep(r)
     /\ Sends(op[r], 1, r) => mem[r][i % Deep(r)] = Chunk(Calls(r), r, All, i)
Results(r) == \A i \in Chunks(r) : at[r].uploaded <= i /\ i < at[r].chunk =>
  mem[r][i % Deep(r)] = Chunk(Calls(r), All, r, i)

Result(r, i) == {[rank |-> r, lane |-> i % Deep(r), tag |-> Chunk(Calls(r), All, r, i)]}
Returned(r) ==
  /\ Len(up[r]) = at[r].chunk - at[r].uploaded
  /\ \A j \in DOMAIN up[r] : up[r][j] = Result(r, at[r].uploaded + j - 1)
  /\ pc[r] \in {"chunk", "gloo", "drain"} =>
       got[r] = {Chunk(Calls(r), All, r, i) : i \in 0 .. at[r].uploaded - 1}

Regions(r) ==
  /\ pc[r] \in {"idle", "chunk", "gloo", "drain", "failed"}
  /\ Calls(r) >= 1 => Issued(r) /\ Queued(r) /\ Loaded(r) /\ Results(r) /\ Returned(r)

\* base[c] chunks were given to Gloo before call c, by every rank alike: what a rank gave
\* to the collective of a chunk is found at base[c] + i + 1, whoever is ahead.
Compatible == \A r, s \in Ranks, c \in Nat \ {0} : c <= Calls(r) /\ c <= Calls(s) => asked[r][c] = asked[s][c]
Bases(base) ==
  /\ \A r \in Ranks : Calls(r) <= Len(base)
  /\ \A c, e \in DOMAIN base, r \in Ranks : c < e /\ c <= Calls(r) => base[e] >= base[c] + asked[r][c].count
  /\ Len(base) >= 1 => base[1] = 0
  /\ \A c \in DOMAIN base, r \in Ranks : c + 1 \in DOMAIN base /\ c <= Calls(r) => base[c + 1] = base[c] + asked[r][c].count
  /\ \A c \in DOMAIN base : \E r \in Ranks : c <= Calls(r)
Given(base, r) ==
  /\ Calls(r) = 0 => posted[r] = <<>>
  /\ Calls(r) >= 1 =>
       /\ Len(posted[r]) >= base[Calls(r)] + at[r].chunk
       /\ Len(posted[r]) <= base[Calls(r)] + at[r].chunk + (IF at[r].chunk < op[r].count THEN 1 ELSE 0)
       /\ pc[r] = "gloo" => Len(posted[r]) = base[Calls(r)] + at[r].chunk + 1
       /\ pc[r] \in {"chunk", "drain"} => Len(posted[r]) = base[Calls(r)] + at[r].chunk
       /\ pc[r] = "idle" /\ ~dead[r] => at[r].chunk = op[r].count
       /\ pc[r] = "failed" => dead[r]
Sent(base, r) == \A c \in 1 .. Calls(r) : \A i \in 0 .. asked[r][c].count - 1 :
  LET p == base[c] + i + 1 IN
  p <= Len(posted[r]) /\ Sends(asked[r][c], 1, r) => posted[r][p] = Chunk(c, r, All, i)
Posts(base) == \A r \in Ranks : Given(base, r) /\ Sent(base, r)
History == \E base \in Seq(Nat) : Bases(base) /\ Posts(base)

\* The relay of a group is one or the other.
GlooInv == (\A r \in Ranks : Regions(r)) /\ Compatible /\ History

IInv == TypeOK /\ Turns /\ LeaseOutlivesCopies /\ (IF Shared THEN SharedInv ELSE GlooInv)

-----------------------------------------------------------------------------
(* The exchanges *)

\* The constants of a group and the fields of a collective.
LEMMA Sizes ==
  ASSUME TypeOK
  PROVE  /\ N \in Nat \ {0} /\ Ranks = 0 .. N - 1 /\ Ranks \subseteq Nat
         /\ Root \in Ranks /\ All \notin Ranks /\ None \notin Ranks
         /\ group.depth \in Nat \ {0} /\ group.transport \in {"shared", "gloo"}
BY RelayAssumption DEF TypeOK, Ranks, N, All, None

\* What the kinds of collectives have for fields.
LEMMA Fields ==
  ASSUME NEW o \in Ops
  PROVE  /\ o.kind \in {"allreduce", "allgather", "broadcast", "scatter"}
         /\ o.kind \in {"allreduce", "allgather"} => o.root = None
         /\ o.kind \in {"broadcast", "scatter"} => o.root = Root
         /\ o.count \in Nat \ {0}
BY RelayAssumption DEF Ops

\* What a step that leaves the group alone leaves alone.
LEMMA GroupFixed ==
  ASSUME group' = group
  PROVE  /\ N' = N /\ Ranks' = Ranks /\ Lanes' = Lanes /\ All' = All /\ (Shared <=> Shared')
         /\ \A o, r : Exchanges(o, r)' = Exchanges(o, r)
         /\ \A o, x, r : Sends(o, x, r)' = Sends(o, x, r) /\ Downloads(o, x, r)' = Downloads(o, x, r)
         /\ \A o, r : Buffers(o, r)' = Buffers(o, r)
         /\ \A o, d : Addressee(o, d)' = Addressee(o, d)
         /\ \A o, c, x, r, i : Source(o, c, x, r, i)' = Source(o, c, x, r, i)
         /\ \A o, c, x, r, i, n : Copying(o, c, x, r, i, n)' = Copying(o, c, x, r, i, n)
         /\ \A o, s, d : Outward(o, s, d)' = Outward(o, s, d) /\ Inward(o, s, d)' = Inward(o, s, d)
         /\ \A o, s, d : Place(o, s, d)' = Place(o, s, d)
<1>1. N' = N /\ Ranks' = Ranks /\ Lanes' = Lanes /\ All' = All /\ (Shared <=> Shared')
  BY DEF N, Ranks, Lanes, All, Shared
<1>2. \A o, r : Exchanges(o, r)' = Exchanges(o, r)
  BY <1>1 DEF Exchanges, Peers, Others
<1>3. \A o, x, r : Sends(o, x, r)' = Sends(o, x, r) /\ Downloads(o, x, r)' = Downloads(o, x, r)
  <2>1. \A o, x, r : Sends(o, x, r) \in BOOLEAN /\ Sends(o, x, r)' \in BOOLEAN
    BY DEF Sends
  <2>2. \A o, x, r : Downloads(o, x, r) \in BOOLEAN /\ Downloads(o, x, r)' \in BOOLEAN
    BY DEF Downloads
  <2>3. \A o, x, r : Sends(o, x, r)' <=> Sends(o, x, r)
    BY <1>2 DEF Sends
  <2>4. \A o, x, r : Downloads(o, x, r)' <=> Downloads(o, x, r)
    BY <2>3 DEF Downloads
  <2> QED BY <2>1, <2>2, <2>3, <2>4
<1>4. \A o, r : Buffers(o, r)' = Buffers(o, r)
  BY DEF Buffers, Asynchronous
<1>5. \A o, d : Addressee(o, d)' = Addressee(o, d)
  BY <1>1 DEF Addressee
<1>6. \A o, c, x, r, i : Source(o, c, x, r, i)' = Source(o, c, x, r, i)
  BY <1>1, <1>2, <1>5 DEF Source
<1>7. \A o, c, x, r, i, n : Copying(o, c, x, r, i, n)' = Copying(o, c, x, r, i, n)
  BY <1>3, <1>4, <1>6 DEF Copying
<1>8. /\ \A o, s, d : Outward(o, s, d)' = Outward(o, s, d) /\ Inward(o, s, d)' = Inward(o, s, d)
      /\ \A o, s, d : Place(o, s, d)' = Place(o, s, d)
  BY <1>1 DEF Outward, Inward, Place, Gap
<1> QED BY <1>1, <1>2, <1>3, <1>4, <1>5, <1>6, <1>7, <1>8

\* The ring: peer p of r sends to the rank p further on, and receives from the one p before.
LEMMA Ring ==
  ASSUME TypeOK, NEW r \in Ranks
  PROVE  /\ Peers(r) \in Seq(Ranks \X Ranks) /\ Len(Peers(r)) = N - 1
         /\ \A p \in 1 .. N - 1, d \in Ranks :
              /\ Peers(r)[p][1] \in Ranks /\ Peers(r)[p][2] \in Ranks
              /\ Peers(r)[p][1] = d <=> r # d /\ p = Gap(r, d)
              /\ Peers(r)[p][2] = d <=> r # d /\ p = Gap(d, r)
         /\ \A d \in Ranks : r # d => Gap(r, d) \in 1 .. N - 1 /\ Gap(d, r) \in 1 .. N - 1
<1>1. N \in Nat \ {0} /\ Ranks = 0 .. N - 1
  BY Sizes
<1>2. ASSUME NEW p \in 1 .. N - 1
      PROVE  /\ (r + p) % N = IF r + p < N THEN r + p ELSE r + p - N
             /\ (r - p) % N = IF r >= p THEN r - p ELSE r - p + N
  BY <1>1
<1>3. ASSUME NEW p \in 1 .. N - 1
      PROVE  /\ Peers(r)[p] = <<(r + p) % N, (r - p) % N>>
             /\ (r + p) % N \in Ranks /\ (r - p) % N \in Ranks
  BY <1>1, <1>2 DEF Peers
<1>4. Peers(r) \in Seq(Ranks \X Ranks) /\ Len(Peers(r)) = N - 1
  BY <1>1, <1>3 DEF Peers
<1>5. ASSUME NEW d \in Ranks
      PROVE  /\ r # d => Gap(r, d) \in 1 .. N - 1 /\ Gap(d, r) \in 1 .. N - 1
             /\ \A p \in 1 .. N - 1 : Peers(r)[p][1] = d <=> r # d /\ p = Gap(r, d)
             /\ \A p \in 1 .. N - 1 : Peers(r)[p][2] = d <=> r # d /\ p = Gap(d, r)
  <2>1. r \in Nat /\ d \in Nat /\ r < N /\ d < N /\ N \in Nat
    BY <1>1
  <2>2. /\ Gap(r, d) = IF r < d THEN d - r ELSE d - r + N
        /\ Gap(d, r) = IF d < r THEN r - d ELSE r - d + N
    BY DEF Gap
  <2>3. r # d => Gap(r, d) \in 1 .. N - 1 /\ Gap(d, r) \in 1 .. N - 1
    BY <2>1, <2>2
  <2>4. ASSUME NEW p \in 1 .. N - 1
        PROVE  /\ Peers(r)[p][1] = IF r + p < N THEN r + p ELSE r + p - N
               /\ Peers(r)[p][2] = IF r >= p THEN r - p ELSE r - p + N
    BY <1>2, <1>3
  <2> HIDE DEF Gap
  <2>5. \A p \in 1 .. N - 1 : Peers(r)[p][1] = d <=> r # d /\ p = Gap(r, d)
    BY <2>1, <2>2, <2>4
  <2>6. \A p \in 1 .. N - 1 : Peers(r)[p][2] = d <=> r # d /\ p = Gap(d, r)
    BY <2>1, <2>2, <2>4
  <2> QED BY <2>3, <2>5, <2>6
<1>6. ASSUME NEW p \in 1 .. N - 1
      PROVE  /\ Peers(r)[p][1] \in Ranks /\ Peers(r)[p][2] \in Ranks
  BY <1>3
<1> QED BY <1>4, <1>5, <1>6

\* The exchanges of a rank, by the kind of the collective.
LEMMA Shape ==
  ASSUME TypeOK, NEW o \in Ops, NEW r \in Ranks
  PROVE  /\ o.kind = "allreduce" => Exchanges(o, r) = IF N = 1 THEN <<>> ELSE <<Peers(r)>>
         /\ o.kind = "allgather" =>
              Exchanges(o, r) = [k \in 1 .. N - 1 |-> <<Peers(r)[k]>>]
         /\ o.kind \in {"broadcast", "scatter"} /\ r = o.root =>
              Exchanges(o, r) = [k \in 1 .. N - 1 |-> <<<<Others(r)[k], None>>>>]
         /\ o.kind \in {"broadcast", "scatter"} /\ r # o.root => Exchanges(o, r) = <<<<<<None, o.root>>>>>>
<1>1. /\ o.kind \in {"allreduce", "allgather", "broadcast", "scatter"}
      /\ o.kind \in {"allreduce", "allgather"} => o.root # r
  BY Fields, Sizes
<1> QED BY <1>1 DEF Exchanges

\* Everyone but the root.
LEMMA OthersAre ==
  ASSUME TypeOK, NEW r \in Ranks
  PROVE  /\ \A k \in 1 .. N - 1, d \in Ranks :
              Others(r)[k] \in Ranks /\ (Others(r)[k] = d <=> r # d /\ k = IF d < r THEN d + 1 ELSE d)
         /\ \A d \in Ranks : r # d => (IF d < r THEN d + 1 ELSE d) \in 1 .. N - 1
BY Sizes DEF Others

\* Where two ranks meet.
LEMMA Meetings ==
  ASSUME TypeOK, NEW o \in Ops, NEW r \in Ranks
  PROVE  /\ Len(Exchanges(o, r)) \in Nat /\ DOMAIN Exchanges(o, r) = 1 .. Len(Exchanges(o, r))
         /\ \A x \in DOMAIN Exchanges(o, r) :
              LET peers == Exchanges(o, r)[x] IN
              /\ Len(peers) \in Nat \ {0} /\ DOMAIN peers = 1 .. Len(peers)
              /\ \A p \in DOMAIN peers :
                   /\ peers[p][1] \in Ranks \cup {None} /\ peers[p][2] \in Ranks \cup {None}
                   /\ \A d \in Ranks :
                        /\ peers[p][1] = d <=> Flows(o, r, d) /\ x = Outward(o, r, d) /\ p = Place(o, r, d)
                        /\ peers[p][2] = d <=> Flows(o, d, r) /\ x = Inward(o, d, r) /\ p = Place(o, d, r)
              /\ (\E p \in DOMAIN peers : peers[p][1] # None) => \A p \in DOMAIN peers : peers[p][1] \in Ranks
              /\ (\E p \in DOMAIN peers : peers[p][2] # None) => \A p \in DOMAIN peers : peers[p][2] \in Ranks
         /\ \A d \in Ranks :
              /\ Flows(o, r, d) => Outward(o, r, d) \in DOMAIN Exchanges(o, r)
                                   /\ Place(o, r, d) \in DOMAIN Exchanges(o, r)[Outward(o, r, d)]
              /\ Flows(o, d, r) => Inward(o, d, r) \in DOMAIN Exchanges(o, r)
                                   /\ Place(o, d, r) \in DOMAIN Exchanges(o, r)[Inward(o, d, r)]
<1>1. /\ N \in Nat \ {0} /\ Ranks = 0 .. N - 1 /\ Root \in Ranks /\ None \notin Ranks
      /\ o.kind \in {"allreduce", "allgather", "broadcast", "scatter"}
      /\ o.kind \in {"allreduce", "allgather"} => o.root = None
      /\ o.kind \in {"broadcast", "scatter"} => o.root = Root
  BY Sizes, Fields
<1> DEFINE P == Peers(r)
<1>6. /\ \A p \in 1 .. N - 1 : P[p][1] \in Ranks /\ P[p][2] \in Ranks
      /\ \A p \in 1 .. N - 1, d \in Ranks : P[p][1] = d <=> r # d /\ p = Gap(r, d)
      /\ \A p \in 1 .. N - 1, d \in Ranks : P[p][2] = d <=> r # d /\ p = Gap(d, r)
      /\ \A d \in Ranks : r # d => Gap(r, d) \in 1 .. N - 1 /\ Gap(d, r) \in 1 .. N - 1
  BY Ring
<1> HIDE DEF P
<1>2. CASE o.kind = "allreduce"
  <2>1. Exchanges(o, r) = IF N = 1 THEN <<>> ELSE <<Peers(r)>>
    BY <1>2, Shape
  <2>2. CASE N = 1
    BY <1>1, <1>2, <2>1, <2>2 DEF Flows
  <2>3. CASE N # 1
    <3>1. /\ Len(Exchanges(o, r)) = 1 /\ DOMAIN Exchanges(o, r) = 1 .. 1 /\ Exchanges(o, r)[1] = Peers(r)
          /\ Len(Peers(r)) = N - 1 /\ DOMAIN Peers(r) = 1 .. N - 1 /\ N - 1 \in Nat \ {0}
      BY <2>1, <2>3, Ring, <1>1
    <3>2. \A s, d \in Ranks : /\ Flows(o, s, d) <=> s # d
                             /\ Outward(o, s, d) = 1 /\ Inward(o, s, d) = 1 /\ Place(o, s, d) = Gap(s, d)
      BY <1>2 DEF Flows, Outward, Inward, Place
    <3> QED BY <3>1, <3>2, <1>6, <1>1 DEF P
  <2> QED BY <2>2, <2>3
<1>3. CASE o.kind = "allgather"
  <2>1. /\ Exchanges(o, r) = [k \in 1 .. N - 1 |-> <<Peers(r)[k]>>]
    BY <1>3, Shape
  <2>2. /\ Len(Exchanges(o, r)) = N - 1 /\ DOMAIN Exchanges(o, r) = 1 .. N - 1
        /\ \A k \in 1 .. N - 1 : /\ Exchanges(o, r)[k] = <<Peers(r)[k]>> /\ Len(Exchanges(o, r)[k]) = 1
                                 /\ DOMAIN Exchanges(o, r)[k] = 1 .. 1 /\ Exchanges(o, r)[k][1] = Peers(r)[k]
    BY <2>1, <1>1
  <2>3. \A s, d \in Ranks : /\ Flows(o, s, d) <=> s # d
                           /\ Outward(o, s, d) = Gap(s, d) /\ Inward(o, s, d) = Gap(s, d) /\ Place(o, s, d) = 1
    BY <1>3 DEF Flows, Outward, Inward, Place
  <2> DEFINE E == Exchanges(o, r)
  <2>5. /\ Len(E) = N - 1 /\ DOMAIN E = 1 .. N - 1
        /\ \A k \in 1 .. N - 1 : Len(E[k]) = 1 /\ DOMAIN E[k] = 1 .. 1 /\ E[k][1] = P[k]
    BY <2>2 DEF P
  <2>6. ASSUME NEW x \in 1 .. N - 1, NEW d \in Ranks
        PROVE  /\ E[x][1][1] \in Ranks /\ E[x][1][2] \in Ranks
               /\ E[x][1][1] = d <=> Flows(o, r, d) /\ x = Outward(o, r, d) /\ 1 = Place(o, r, d)
               /\ E[x][1][2] = d <=> Flows(o, d, r) /\ x = Inward(o, d, r) /\ 1 = Place(o, d, r)
    BY <2>3, <1>6, <2>5
  <2>7. ASSUME NEW d \in Ranks
        PROVE  /\ Flows(o, r, d) => Outward(o, r, d) \in 1 .. N - 1 /\ Place(o, r, d) = 1
               /\ Flows(o, d, r) => Inward(o, d, r) \in 1 .. N - 1 /\ Place(o, d, r) = 1
    BY <2>3, <1>6
  <2> HIDE DEF E
  <2>8. \A x \in 1 .. N - 1 : E[x][1][1] # None /\ E[x][1][2] # None
    BY <2>6, <1>1
  <2> QED BY <2>5, <2>6, <2>7, <1>1 DEF E
<1>4. CASE o.kind \in {"broadcast", "scatter"} /\ r = o.root
  <2>1. /\ Exchanges(o, r) = [k \in 1 .. N - 1 |-> <<<<Others(r)[k], None>>>>]
    BY <1>4, Shape
  <2>2. /\ Len(Exchanges(o, r)) = N - 1 /\ DOMAIN Exchanges(o, r) = 1 .. N - 1
        /\ \A k \in 1 .. N - 1 : /\ Len(Exchanges(o, r)[k]) = 1
                                 /\ DOMAIN Exchanges(o, r)[k] = 1 .. 1
                                 /\ Exchanges(o, r)[k][1][1] = Others(r)[k] /\ Exchanges(o, r)[k][1][2] = None
    BY <2>1, <1>1
  <2>3. \A d \in Ranks : /\ Flows(o, r, d) <=> r # d
                        /\ ~Flows(o, d, r) /\ Place(o, r, d) = 1
                        /\ Outward(o, r, d) = IF d < r THEN d + 1 ELSE d
    BY <1>4 DEF Flows, Outward, Inward, Place
  <2>4. \A k \in 1 .. N - 1, d \in Ranks :
          Others(r)[k] \in Ranks /\ (Others(r)[k] = d <=> r # d /\ k = IF d < r THEN d + 1 ELSE d)
    BY OthersAre
  <2>5. \A d \in Ranks : r # d => (IF d < r THEN d + 1 ELSE d) \in 1 .. N - 1
    BY OthersAre
  <2>6. ASSUME NEW x \in 1 .. N - 1, NEW d \in Ranks
        PROVE  Others(r)[x] = d <=> Flows(o, r, d) /\ x = Outward(o, r, d)
    BY <2>3, <2>4
  <2>7. ASSUME NEW d \in Ranks, Flows(o, r, d)
        PROVE  Outward(o, r, d) \in 1 .. N - 1
    BY <2>3, <2>5, <2>7
  <2> DEFINE E == Exchanges(o, r)
  <2>8. ASSUME NEW x \in 1 .. N - 1, NEW d \in Ranks
        PROVE  /\ E[x][1][1] \in Ranks /\ E[x][1][2] = None
               /\ E[x][1][1] = d <=> Flows(o, r, d) /\ x = Outward(o, r, d) /\ 1 = Place(o, r, d)
               /\ E[x][1][2] = d <=> Flows(o, d, r) /\ x = Inward(o, d, r) /\ 1 = Place(o, d, r)
    BY <2>2, <2>3, <2>4, <2>6, <1>1
  <2>9. /\ Len(E) = N - 1 /\ DOMAIN E = 1 .. N - 1
        /\ \A k \in 1 .. N - 1 : Len(E[k]) = 1 /\ DOMAIN E[k] = 1 .. 1
    BY <2>2
  <2> HIDE DEF E
  <2> QED BY <2>3, <2>7, <2>8, <2>9, <1>1 DEF E
<1>5. CASE o.kind \in {"broadcast", "scatter"} /\ r # o.root
  <2>1. Exchanges(o, r) = <<<<<<None, o.root>>>>>>
    BY <1>5, Shape
  <2>2. /\ Len(Exchanges(o, r)) = 1 /\ DOMAIN Exchanges(o, r) = 1 .. 1
        /\ Len(Exchanges(o, r)[1]) = 1 /\ DOMAIN Exchanges(o, r)[1] = 1 .. 1
        /\ Exchanges(o, r)[1][1][1] = None /\ Exchanges(o, r)[1][1][2] = o.root
    BY <2>1, <1>1
  <2> QED BY <2>2, <1>1, <1>5 DEF Flows, Outward, Inward, Place
<1> QED BY <1>1, <1>2, <1>3, <1>4, <1>5

-----------------------------------------------------------------------------
(* Slots, regions and chunks *)

\* Neighbouring chunks are in different slots.
LEMMA TwoSlots ==
  ASSUME NEW a \in Nat, NEW b \in Nat, a < b, b < a + BUFFERS_PER_RANK
  PROVE  a % BUFFERS_PER_RANK # b % BUFFERS_PER_RANK
BY DEF BUFFERS_PER_RANK

\* Chunks in the same region are apart by the number of regions or more.
LEMMA RegionsApart ==
  ASSUME NEW n \in Nat \ {0}, NEW a \in Nat, NEW b \in Nat, a < b, a % n = b % n
  PROVE  b >= a + n
<1> DEFINE q == a \div n
           p == b \div n
<1>1. /\ q \in Int /\ p \in Int /\ a % n \in Int
      /\ a = n * q + (a % n) /\ b = n * p + (b % n)
  OBVIOUS
<1> HIDE DEF q, p
<1>2. b - a = n * (p - q)
  BY <1>1
<1>3. p - q >= 1
  <2>1. SUFFICES ASSUME p - q <= 0 PROVE FALSE
    BY <1>1
  <2>2. n * (p - q) <= 0
    BY <1>1, <2>1
  <2> QED BY <1>2, <2>2
<1>4. n * (p - q) >= n
  BY <1>1, <1>3
<1> QED BY <1>2, <1>4

\* The slots and the regions a rank uses are those it has.
LEMMA LanesAre ==
  ASSUME TypeOK, NEW o \in Ops \cup {NoOp}, NEW r \in Ranks
  PROVE  /\ Buffers(o, r) \in Nat \ {0}
         /\ Shared => Buffers(o, r) = BUFFERS_PER_RANK
         /\ \A i \in Nat : i % Buffers(o, r) \in Lanes /\ i % BUFFERS_PER_RANK \in Lanes
<1>1. group.depth \in Nat \ {0} /\ Buffers(o, r) \in {BUFFERS_PER_RANK, group.depth, 1}
  BY Sizes DEF Buffers
<1>2. Shared => Buffers(o, r) = BUFFERS_PER_RANK
  BY DEF Buffers, Shared
<1>3. ASSUME NEW n \in {BUFFERS_PER_RANK, group.depth, 1}, NEW i \in Nat
      PROVE  i % n \in Lanes
  <2>1. n \in Nat \ {0} /\ i % n \in 0 .. n - 1
    BY <1>1 DEF BUFFERS_PER_RANK
  <2> QED BY <1>1, <2>1 DEF Lanes, BUFFERS_PER_RANK
<1> QED BY <1>1, <1>2, <1>3 DEF BUFFERS_PER_RANK

\* Chunks are tags.
LEMMA ChunkType ==
  ASSUME TypeOK, NEW c \in Int, NEW s \in Int, NEW d \in Int, NEW i \in Int
  PROVE  Chunk(c, s, d, i) \in Tags /\ Chunk(c, s, d, i) # Torn
BY DEF Chunk, Tags, Torn

\* A copy into a slot or a region, field by field.
LEMMA CopyingType ==
  ASSUME TypeOK, NEW o \in Ops, NEW r \in Ranks, NEW c \in Nat, NEW x, NEW i \in Nat, NEW n \in Nat,
         group.transport = "gloo" \/ x \in DOMAIN Exchanges(o, r)
  PROVE  /\ Copying(o, c, x, r, i, n) \in [lane : Lanes, tag : Tags, after : Nat, writes : BOOLEAN]
         /\ Copying(o, c, x, r, i, n).lane = i % Buffers(o, r)
         /\ Copying(o, c, x, r, i, n).tag = Source(o, c, x, r, i)
         /\ Copying(o, c, x, r, i, n).after = n
         /\ Copying(o, c, x, r, i, n).writes <=> Sends(o, x, r)
<1>1. N \in Nat \ {0} /\ r \in Int /\ Ranks \subseteq Int
  BY Sizes
<1>2. (IF group.transport = "gloo" THEN All ELSE Addressee(o, Exchanges(o, r)[x][1][1])) \in Int
  <2>1. CASE group.transport = "gloo"
    BY <1>1, <2>1 DEF All
  <2>2. CASE group.transport # "gloo"
    <3>1. Exchanges(o, r)[x][1][1] \in Ranks \cup {None}
      BY <2>2, Meetings
    <3> DEFINE e == Exchanges(o, r)[x][1][1]
    <3> HIDE DEF e
    <3>4. e \in Ranks \cup {None}
      BY <3>1 DEF e
    <3>5. None \in Int
      BY DEF None
    <3>2. e \in Int
      BY <1>1, <3>4, <3>5
    <3>3. Addressee(o, e) \in Int
      BY <1>1, <3>2 DEF Addressee, All
    <3> QED BY <2>2, <3>3 DEF e
  <2> QED BY <2>1, <2>2
<1>3. Source(o, c, x, r, i) \in Tags
  BY <1>1, <1>2, ChunkType DEF Source
<1>4. i % Buffers(o, r) \in Lanes
  BY LanesAre
<1>5. Sends(o, x, r) \in BOOLEAN
  BY DEF Sends
<1> QED BY <1>3, <1>4, <1>5 DEF Copying

\* What d is to read of s is what s copies for it.
LEMMA SourceFor ==
  ASSUME TypeOK, Shared, NEW o \in Ops, NEW s \in Ranks, NEW d \in Ranks, Flows(o, s, d), NEW c, NEW i
  PROVE  /\ Sends(o, Outward(o, s, d), s) /\ Outward(o, s, d) \in DOMAIN Exchanges(o, s)
         /\ Source(o, c, Outward(o, s, d), s, i) = Chunk(c, s, Addressee(o, d), i)
<1> DEFINE E == Exchanges(o, s)[Outward(o, s, d)]
<1>1. /\ Outward(o, s, d) \in DOMAIN Exchanges(o, s) /\ Place(o, s, d) \in DOMAIN E
      /\ E[Place(o, s, d)][1] = d
  BY Meetings
<1>2. d # None
  BY Sizes
<1>3. Sends(o, Outward(o, s, d), s)
  BY <1>1, <1>2 DEF Sends, Shared
<1>4. Source(o, c, Outward(o, s, d), s, i) = Chunk(c, s, Addressee(o, E[1][1]), i)
  BY DEF Source, Shared
<1>5. Addressee(o, E[1][1]) = Addressee(o, d)
  <2>1. CASE o.kind = "allreduce"
    BY <2>1 DEF Addressee
  <2>2. CASE o.kind # "allreduce"
    BY <1>1, <2>2 DEF Place
  <2> QED BY <2>1, <2>2
<1> QED BY <1>1, <1>3, <1>4, <1>5

-----------------------------------------------------------------------------
(* What a rank does leaves the others as they are *)

Same(q) ==
  /\ op'[q] = op[q] /\ pc'[q] = pc[q] /\ at'[q] = at[q] /\ asked'[q] = asked[q] /\ mem'[q] = mem[q]
  /\ down'[q] = down[q] /\ up'[q] = up[q] /\ got'[q] = got[q] /\ waiting'[q] = waiting[q]
  /\ broken'[q] = broken[q] /\ dead'[q] = dead[q] /\ posted'[q] = posted[q]

\* What is said of a rank alone holds while the rank stays as it is.
LEMMA SameLocal ==
  ASSUME group' = group, NEW q, Same(q)
  PROVE  /\ Calls(q)' = Calls(q) /\ PeersNow(q)' = PeersNow(q)
         /\ (Begun(q)' <=> Begun(q)) /\ (Past(q)' <=> Past(q)) /\ (Within(q)' <=> Within(q))
         /\ Counters(q) => Counters(q)'
         /\ Slots(q) => Slots(q)'
         /\ Uploads(q) => Uploads(q)'
         /\ Regions(q) => Regions(q)'
         /\ \A i : Whole(q, i)' <=> Whole(q, i)
<1>2. /\ Calls(q)' = Calls(q) /\ PeersNow(q)' = PeersNow(q)
      /\ (Begun(q)' <=> Begun(q)) /\ (Past(q)' <=> Past(q)) /\ (Within(q)' <=> Within(q))
  BY GroupFixed DEF Same, Calls, PeersNow, Begun, Past, Within
<1>3. /\ (Sending(q)' <=> Sending(q)) /\ (Receiving(q)' <=> Receiving(q))
      /\ (\A i : Window(q, i)' <=> Window(q, i))
      /\ (\A i : ChunkOf(q, i)' = ChunkOf(q, i))
      /\ (\A i : Reads(q, i)' = Reads(q, i))
      /\ Fetched(q)' = Fetched(q)
  BY GroupFixed, <1>2 DEF Same, Sending, Receiving, Window, ChunkOf, Reads, Fetched, Flows
<1>4. Counters(q) => Counters(q)'
  BY <1>2, <1>3 DEF Same, Counters
<1>5. Slots(q) => Slots(q)'
  BY GroupFixed, <1>2, <1>3 DEF Same, Slots
<1>6. Uploads(q) => Uploads(q)'
  BY <1>2, <1>3 DEF Same, Uploads
<1>7. Deep(q)' = Deep(q) /\ \A i : Behind(q, i)' = Behind(q, i)
  BY GroupFixed DEF Same, Deep, Behind
<1>8. Regions(q) => Regions(q)'
  <2>1. /\ Issued(q) => Issued(q)'
        /\ \A i : Ahead(q, i)' <=> Ahead(q, i)
        /\ Chunks(q)' = Chunks(q)
    BY <1>7 DEF Same, Issued, Ahead, Chunks
  <2>2. Queued(q) => Queued(q)'
    BY GroupFixed, <1>2, <1>7, <2>1 DEF Same, Queued
  <2>3. Loaded(q) => Loaded(q)'
    BY GroupFixed, <1>2, <1>7, <2>1 DEF Same, Loaded
  <2>4. Results(q) => Results(q)'
    BY GroupFixed, <1>2, <1>7, <2>1 DEF Same, Results
  <2>5. Returned(q) => Returned(q)'
    BY GroupFixed, <1>2, <1>7 DEF Same, Returned, Result
  <2> QED BY <1>2, <2>1, <2>2, <2>3, <2>4, <2>5 DEF Same, Regions
<1>9. \A i : Whole(q, i)' <=> Whole(q, i)
  BY <1>3 DEF Same, Whole
<1> QED BY <1>2, <1>4, <1>5, <1>6, <1>8, <1>9

-----------------------------------------------------------------------------
(* The handshake, while nobody begins a call *)

\* The part of the others in it.
LEMMA SameHandshake ==
  ASSUME group' = group, NEW q, Same(q)
  PROVE  \A o, c, e, i :
           /\ Told(o, c, q, e, i)' <=> Told(o, c, q, e, i)
           /\ Acknowledged(o, c, q, e, i)' <=> Acknowledged(o, c, q, e, i)
           /\ Known(o, c, e, q, i)' <=> Known(o, c, e, q, i)
           /\ Freed(o, c, e, q, i)' <=> Freed(o, c, e, q, i)
<1>1. /\ \A o, s, d : /\ Outward(o, s, d)' = Outward(o, s, d) /\ Inward(o, s, d)' = Inward(o, s, d)
                      /\ Place(o, s, d)' = Place(o, s, d)
  BY GroupFixed
<1>2. /\ \A c, x : /\ Beyond(q, c, x)' <=> Beyond(q, c, x)
                   /\ In(q, c, x)' <=> In(q, c, x)
                   /\ HeardFrom(q, x)' <=> HeardFrom(q, x)
      /\ \A i : Whole(q, i)' <=> Whole(q, i)
  BY SameLocal DEF Same, Beyond, In, HeardFrom, Calls
<1>3. at'[q] = at[q] /\ pc'[q] = pc[q]
  BY DEF Same
<1>4. \A o, c, e, i : Told(o, c, q, e, i)' <=> Told(o, c, q, e, i)
  BY <1>1, <1>2, <1>3 DEF Told
<1>5. \A o, c, e, i : Acknowledged(o, c, q, e, i)' <=> Acknowledged(o, c, q, e, i)
  BY <1>1, <1>2, <1>3 DEF Acknowledged
<1>6. \A o, c, e, i : Known(o, c, e, q, i)' <=> Known(o, c, e, q, i)
  BY <1>1, <1>2, <1>3 DEF Known
<1>7. \A o, c, e, i : Freed(o, c, e, q, i)' <=> Freed(o, c, e, q, i)
  BY <1>1, <1>2, <1>3 DEF Freed
<1> QED BY <1>4, <1>5, <1>6, <1>7

\* In another call than the rank's a step of it changes nothing.
LEMMA OtherCall ==
  ASSUME NEW r, NEW c, Calls(r)' = Calls(r), Calls(r) # c
  PROVE  \A o, e, i :
           /\ Told(o, c, r, e, i)' <=> Told(o, c, r, e, i)
           /\ Acknowledged(o, c, r, e, i)' <=> Acknowledged(o, c, r, e, i)
           /\ Known(o, c, e, r, i)' <=> Known(o, c, e, r, i)
           /\ Freed(o, c, e, r, i)' <=> Freed(o, c, e, r, i)
BY DEF Told, Acknowledged, Known, Freed, Beyond, In

\* Rank r goes on with its call: what it told and freed it does not take back.
Goes(r) ==
  /\ group' = group /\ asked' = asked /\ op' = op
  /\ \A q \in Ranks \ {r} : Same(q)
  /\ \A q \in Ranks, i \in 0 .. op[r].count - 1 :
       /\ Flows(op[r], r, q) /\ Told(op[r], Calls(r), r, q, i) => Told(op[r], Calls(r), r, q, i)'
       /\ Flows(op[r], q, r) /\ Freed(op[r], Calls(r), q, r, i) => Freed(op[r], Calls(r), q, r, i)'

\* What it knows and what it takes as acknowledged, it was told.
Learns(r) ==
  \A q \in Ranks, i \in 0 .. op[r].count - 1 :
    /\ Flows(op[r], q, r) /\ Known(op[r], Calls(r), q, r, i)' =>
         Known(op[r], Calls(r), q, r, i) \/ Told(op[r], Calls(r), q, r, i)
    /\ Flows(op[r], r, q) /\ Acknowledged(op[r], Calls(r), r, q, i)' =>
         Acknowledged(op[r], Calls(r), r, q, i) \/ Freed(op[r], Calls(r), r, q, i)

\* A collective has a number of chunks, also the one that was never called.
LEMMA CountNat ==
  ASSUME TypeOK, NEW r \in Ranks
  PROVE  op[r].count \in Nat
<1>1. op[r] \in Ops \/ op[r] = NoOp
  BY DEF TypeOK
<1>2. NoOp.count \in Nat
  BY DEF NoOp
<1> QED BY <1>1, <1>2, Fields

\* Two ranks in the same call that all agree on run the same collective.
LEMMA SameOp ==
  ASSUME Turns, NEW s \in Ranks, NEW d \in Ranks, Agreed(Calls(s), op[s]), Calls(d) = Calls(s)
  PROVE  op[d] = op[s]
BY DEF Turns, Agreed

\* A rank that goes on and learns only what is so leaves everyone right in what they know.
LEMMA KnowledgeKept ==
  ASSUME TypeOK, Turns, Handshake, NEW r \in Ranks, Goes(r), Learns(r),
         NEW s \in Ranks, NEW d \in Ranks
  PROVE  Knowledge(s, d)' /\ Permission(s, d)'
<1>1. /\ Ranks' = Ranks /\ (\A q : Calls(q)' = Calls(q)) /\ op' = op
      /\ \A c, o : (Agreed(c, o)' <=> Agreed(c, o))
      /\ \A o, e, f : Flows(o, e, f)' <=> Flows(o, e, f)
  BY GroupFixed DEF Goes, Calls, Agreed, Flows
<1>2. \A q \in Ranks \ {r} : \A o, c, e, i :
           /\ Told(o, c, q, e, i)' <=> Told(o, c, q, e, i)
           /\ Acknowledged(o, c, q, e, i)' <=> Acknowledged(o, c, q, e, i)
           /\ Known(o, c, e, q, i)' <=> Known(o, c, e, q, i)
           /\ Freed(o, c, e, q, i)' <=> Freed(o, c, e, q, i)
  BY SameHandshake DEF Goes
<1>3. Knowledge(s, d)'
  <2> SUFFICES ASSUME Agreed(Calls(s), op[s]), Flows(op[s], s, d), NEW i \in 0 .. op[s].count - 1,
                      Known(op[s], Calls(s), s, d, i)'
               PROVE  Told(op[s], Calls(s), s, d, i)'
    BY <1>1 DEF Knowledge
  <2>1. Known(op[s], Calls(s), s, d, i) => Told(op[s], Calls(s), s, d, i)
    BY DEF Handshake, Knowledge
  <2>2. s # d
    BY DEF Flows
  <2>3. CASE r = d /\ Calls(r) = Calls(s)
    <3>1. op[r] = op[s]
      BY <2>3, SameOp
    <3>2. Told(op[s], Calls(s), s, d, i)
      BY <1>1, <2>1, <2>3, <3>1 DEF Learns
    <3> QED BY <1>1, <1>2, <2>2, <2>3, <3>2
  <2>4. CASE r = d /\ Calls(r) # Calls(s)
    BY <1>1, <1>2, <2>1, <2>2, <2>4, OtherCall
  <2>5. CASE r = s
    <3>1. Told(op[s], Calls(s), s, d, i)
      BY <1>1, <1>2, <2>1, <2>2, <2>5
    <3> QED BY <1>1, <2>5, <3>1 DEF Goes
  <2>6. CASE r # s /\ r # d
    BY <1>1, <1>2, <2>1, <2>6
  <2> QED BY <2>3, <2>4, <2>5, <2>6
<1>4. Permission(s, d)'
  <2> SUFFICES ASSUME Agreed(Calls(d), op[d]), Flows(op[d], s, d), NEW i \in 0 .. op[d].count - 1,
                      Acknowledged(op[d], Calls(d), s, d, i)'
               PROVE  Freed(op[d], Calls(d), s, d, i)'
    BY <1>1 DEF Permission
  <2>1. Acknowledged(op[d], Calls(d), s, d, i) => Freed(op[d], Calls(d), s, d, i)
    BY DEF Handshake, Permission
  <2>2. s # d
    BY DEF Flows
  <2>3. CASE r = s /\ Calls(r) = Calls(d)
    <3>1. op[r] = op[d]
      BY <2>3, SameOp
    <3>2. Freed(op[d], Calls(d), s, d, i)
      BY <1>1, <2>1, <2>3, <3>1 DEF Learns
    <3> QED BY <1>1, <1>2, <2>2, <2>3, <3>2
  <2>4. CASE r = s /\ Calls(r) # Calls(d)
    BY <1>1, <1>2, <2>1, <2>2, <2>4, OtherCall
  <2>5. CASE r = d
    <3>1. Freed(op[d], Calls(d), s, d, i)
      BY <1>1, <1>2, <2>1, <2>2, <2>5
    <3> QED BY <1>1, <2>5, <3>1 DEF Goes
  <2>6. CASE r # s /\ r # d
    BY <1>1, <1>2, <2>1, <2>6
  <2> QED BY <2>3, <2>4, <2>5, <2>6
<1> QED BY <1>3, <1>4

\* A signal on its way, when r does not hear it.
LEMMA ReadyStill ==
  ASSUME TypeOK, Turns, Handshake, \A q \in Ranks : Agreement(q), NEW r \in Ranks, Goes(r),
         Begun(r) => Begun(r)',
         NEW s \in Ranks, NEW d \in Ranks, NEW k \in DOMAIN chan[s][d][0], NEW i, i = chan[s][d][0][k],
         d = r /\ Flows(op[r], s, r) /\ i < op[r].count /\ Known(op[r], Calls(r), s, r, i)' =>
           Known(op[r], Calls(r), s, r, i)
  PROVE  /\ Begun(s)' /\ Flows(op[s], s, d)' /\ i < op[s].count' /\ i \in Nat
         /\ Told(op[s], Calls(s), s, d, i)' /\ ~Known(op[s], Calls(s), s, d, i)'
<1>1. /\ (\A q : Calls(q)' = Calls(q)) /\ op' = op
      /\ \A o, e, g : Flows(o, e, g)' <=> Flows(o, e, g)
      /\ Begun(s) => Begun(s)'
  BY SameLocal, GroupFixed DEF Goes, Calls, Flows
<1>2. \A q \in Ranks \ {r} : \A o, c, e, g :
           /\ Told(o, c, q, e, g)' <=> Told(o, c, q, e, g)
           /\ Known(o, c, e, q, g)' <=> Known(o, c, e, q, g)
  BY SameHandshake DEF Goes
<1>3. /\ Begun(s) /\ Flows(op[s], s, d) /\ i < op[s].count
      /\ Told(op[s], Calls(s), s, d, i) /\ ~Known(op[s], Calls(s), s, d, i)
  BY DEF Handshake, ReadySignals
<1>4. i \in 0 .. op[s].count - 1 /\ s # d /\ i \in Nat
  <2>1. chan[s][d][0] \in Seq(Nat)
    BY DEF TypeOK
  <2>2. op[s].count \in Nat
    BY CountNat
  <2> QED BY <1>3, <2>1, <2>2 DEF Flows
<1>5. Told(op[s], Calls(s), s, d, i)'
  BY <1>1, <1>2, <1>3, <1>4 DEF Goes
<1>6. ~Known(op[s], Calls(s), s, d, i)'
  <2>1. CASE d # r
    BY <1>1, <1>2, <1>3, <2>1
  <2>2. CASE d = r /\ Calls(r) = Calls(s)
    <3>1. op[r] = op[s]
      BY <1>3, <2>2, SameOp DEF Agreement
    <3> QED BY <1>1, <1>3, <2>2, <3>1
  <2>3. CASE d = r /\ Calls(r) # Calls(s)
    BY <1>1, <1>3, <2>3, OtherCall
  <2> QED BY <2>1, <2>2, <2>3
<1> QED BY <1>1, <1>3, <1>4, <1>5, <1>6

\* A free signal on its way stays true and unheard.
LEMMA FreeStill ==
  ASSUME TypeOK, Turns, Handshake, \A q \in Ranks : Agreement(q), NEW r \in Ranks, Goes(r),
         Begun(r) => Begun(r)',
         NEW s \in Ranks, NEW d \in Ranks, NEW k \in DOMAIN chan[d][s][1], NEW i, i = chan[d][s][1][k],
         s = r /\ Flows(op[r], r, d) /\ i < op[r].count /\ Acknowledged(op[r], Calls(r), r, d, i)' =>
           Acknowledged(op[r], Calls(r), r, d, i)
  PROVE  /\ Begun(s)' /\ Flows(op[s], s, d)' /\ i < op[s].count' /\ i \in Nat
         /\ Freed(op[s], Calls(s), s, d, i)' /\ ~Acknowledged(op[s], Calls(s), s, d, i)'
<1>1. /\ (\A q : Calls(q)' = Calls(q)) /\ op' = op
      /\ \A o, e, g : Flows(o, e, g)' <=> Flows(o, e, g)
      /\ Begun(s) => Begun(s)'
  BY SameLocal, GroupFixed DEF Goes, Calls, Flows
<1>2. \A q \in Ranks \ {r} : \A o, c, e, g :
           /\ Acknowledged(o, c, q, e, g)' <=> Acknowledged(o, c, q, e, g)
           /\ Freed(o, c, e, q, g)' <=> Freed(o, c, e, q, g)
  BY SameHandshake DEF Goes
<1>3. /\ Begun(s) /\ Flows(op[s], s, d) /\ i < op[s].count
      /\ Freed(op[s], Calls(s), s, d, i) /\ ~Acknowledged(op[s], Calls(s), s, d, i)
  BY DEF Handshake, FreeSignals
<1>4. i \in 0 .. op[s].count - 1 /\ s # d /\ i \in Nat
  <2>1. chan[d][s][1] \in Seq(Nat)
    BY DEF TypeOK
  <2>2. op[s].count \in Nat
    BY CountNat
  <2> QED BY <1>3, <2>1, <2>2 DEF Flows
<1>5. Freed(op[s], Calls(s), s, d, i)'
  <2>1. CASE d # r
    BY <1>1, <1>2, <1>3, <2>1
  <2>2. CASE d = r /\ Calls(r) = Calls(s)
    <3>1. op[r] = op[s]
      BY <1>3, <2>2, SameOp DEF Agreement
    <3> QED BY <1>1, <1>3, <1>4, <2>2, <3>1 DEF Goes
  <2>3. CASE d = r /\ Calls(r) # Calls(s)
    BY <1>1, <1>3, <2>3, OtherCall
  <2> QED BY <2>1, <2>2, <2>3
<1>6. ~Acknowledged(op[s], Calls(s), s, d, i)'
  <2>1. CASE s # r
    BY <1>1, <1>2, <1>3, <2>1
  <2>2. CASE s = r
    BY <1>1, <1>3, <2>2
  <2> QED BY <2>1, <2>2
<1> QED BY <1>1, <1>3, <1>4, <1>5, <1>6

\* Channels on which r neither signals nor hears, or only hears.
LEMMA ReadyKept ==
  ASSUME TypeOK, Turns, Handshake, \A q \in Ranks : Agreement(q), NEW r \in Ranks, Goes(r),
         Begun(r) => Begun(r)',
         NEW s \in Ranks, NEW d \in Ranks, NEW f, Increasing(f), chan'[s][d][0] = f,
         \A j \in DOMAIN f : \E k \in DOMAIN chan[s][d][0] : f[j] = chan[s][d][0][k],
         d = r => \A j \in DOMAIN f : Flows(op[r], s, r) /\ f[j] < op[r].count
                    /\ Known(op[r], Calls(r), s, r, f[j])' => Known(op[r], Calls(r), s, r, f[j])
  PROVE  ReadySignals(s, d)'
BY ReadyStill DEF ReadySignals, Increasing

\* The free signals of a pair stay right when what is left of them was there before.
LEMMA FreeKept ==
  ASSUME TypeOK, Turns, Handshake, \A q \in Ranks : Agreement(q), NEW r \in Ranks, Goes(r),
         Begun(r) => Begun(r)',
         NEW s \in Ranks, NEW d \in Ranks, NEW f, Increasing(f), chan'[d][s][1] = f,
         \A j \in DOMAIN f : \E k \in DOMAIN chan[d][s][1] : f[j] = chan[d][s][1][k],
         s = r => \A j \in DOMAIN f : Flows(op[r], r, d) /\ f[j] < op[r].count
                    /\ Acknowledged(op[r], Calls(r), r, d, f[j])' => Acknowledged(op[r], Calls(r), r, d, f[j])
  PROVE  FreeSignals(s, d)'
BY FreeStill DEF FreeSignals, Increasing

\* The shared transport keeps its invariant when r goes on with its call and does its part.
LEMMA SharedStep ==
  ASSUME IInv, Shared, NEW r \in Ranks, Goes(r), TypeOK',
         pc[r] # "idle" \/ pc'[r] = "idle",
         pc'[r] \in {"idle", "metadata"} => down'[r] = <<>> /\ up'[r] = <<>>,
         Agreement(r)', Counters(r)', Slots(r)', Uploads(r)', Handshake'
  PROVE  IInv'
<1>1. /\ Ranks' = Ranks /\ (\A q : Calls(q)' = Calls(q)) /\ (Shared' <=> Shared)
      /\ \A c, o : (Agreed(c, o)' <=> Agreed(c, o))
  BY GroupFixed DEF Goes, Calls, Agreed
<1>2. ASSUME NEW q \in Ranks \ {r}
      PROVE  Agreement(q)' /\ Counters(q)' /\ Slots(q)' /\ Uploads(q)'
  <2>1. Same(q) /\ group' = group
    BY DEF Goes
  <2>2. /\ Counters(q) => Counters(q)'
        /\ Slots(q) => Slots(q)'
        /\ Uploads(q) => Uploads(q)'
        /\ (Begun(q)' <=> Begun(q)) /\ (Past(q)' <=> Past(q)) /\ (Within(q)' <=> Within(q))
    BY <2>1, SameLocal
  <2>3. Agreement(q)'
    BY <1>1, <2>1, <2>2 DEF IInv, SharedInv, Agreement, Same
  <2> QED BY <2>2, <2>3 DEF IInv, SharedInv
<1>3. Turns'
  BY <1>1 DEF IInv, Turns, Goes, Same
<1>4. LeaseOutlivesCopies'
  BY <1>1 DEF IInv, LeaseOutlivesCopies, Goes, Same
<1> QED BY <1>1, <1>2, <1>3, <1>4 DEF IInv, SharedInv

\* A change of one channel.
Put(c, a, b, t, f) == [c EXCEPT ![a] = [c[a] EXCEPT ![b] = [c[a][b] EXCEPT ![t] = f]]]

\* A channel changes and the others stay.
LEMMA OneChannel ==
  ASSUME TypeOK, group' = group, NEW a \in Ranks, NEW b \in Ranks, NEW t \in {0, 1}, NEW f \in Seq(Nat),
         chan' = Put(chan, a, b, t, f)
  PROVE  /\ chan' \in [Ranks -> [Ranks -> [{0, 1} -> Seq(Nat)]]]
         /\ chan'[a][b][t] = f
         /\ \A s, d \in Ranks, u \in {0, 1} : ~(s = a /\ d = b /\ u = t) => chan'[s][d][u] = chan[s][d][u]
<1>1. chan \in [Ranks -> [Ranks -> [{0, 1} -> Seq(Nat)]]]
  BY DEF TypeOK
<1> DEFINE g == [chan[a][b] EXCEPT ![t] = f]
           h == [chan[a] EXCEPT ![b] = g]
<1>3. /\ g \in [{0, 1} -> Seq(Nat)] /\ g[t] = f
      /\ \A u \in {0, 1} : u # t => g[u] = chan[a][b][u]
  BY <1>1
<1> HIDE DEF g
<1>4. /\ h \in [Ranks -> [{0, 1} -> Seq(Nat)]] /\ h[b] = g
      /\ \A d \in Ranks : d # b => h[d] = chan[a][d]
  BY <1>1, <1>3
<1>5. chan' = [chan EXCEPT ![a] = h]
  BY DEF g, Put
<1> HIDE DEF h
<1>6. /\ chan' \in [Ranks -> [Ranks -> [{0, 1} -> Seq(Nat)]]] /\ chan'[a] = h
      /\ \A s \in Ranks : s # a => chan'[s] = chan[s]
  BY <1>1, <1>4, <1>5
<1>7. ASSUME NEW s \in Ranks, NEW d \in Ranks, NEW u \in {0, 1}, ~(s = a /\ d = b /\ u = t)
      PROVE  chan'[s][d][u] = chan[s][d][u]
  <2>1. CASE s # a
    BY <1>6, <2>1
  <2>2. CASE s = a /\ d # b
    BY <1>4, <1>6, <2>2
  <2>3. CASE s = a /\ d = b
    BY <1>3, <1>4, <1>6, <1>7, <2>3
  <2> QED BY <2>1, <2>2, <2>3
<1> QED BY <1>3, <1>4, <1>6, <1>7

\* A rank that stays in its exchange.
LEMMA Stays ==
  ASSUME TypeOK, group' = group, op' = op, asked' = asked, NEW r \in Ranks,
         at'[r].exchange = at[r].exchange
  PROVE  /\ Calls(r)' = Calls(r) /\ PeersNow(r)' = PeersNow(r)
         /\ (Begun(r)' <=> Begun(r)) /\ (Past(r)' <=> Past(r)) /\ (Within(r)' <=> Within(r))
         /\ (Sending(r)' <=> Sending(r)) /\ (Receiving(r)' <=> Receiving(r))
         /\ \A i : ChunkOf(r, i)' = ChunkOf(r, i)
         /\ \A i : Reads(r, i)' = Reads(r, i)
         /\ \A c, x : (Beyond(r, c, x)' <=> Beyond(r, c, x)) /\ (In(r, c, x)' <=> In(r, c, x))
         /\ \A c, o : Agreed(c, o)' <=> Agreed(c, o)
<1>1. Calls(r)' = Calls(r) /\ PeersNow(r)' = PeersNow(r)
  BY GroupFixed DEF Calls, PeersNow
<1>2. /\ (Begun(r)' <=> Begun(r)) /\ (Past(r)' <=> Past(r)) /\ (Within(r)' <=> Within(r))
  BY GroupFixed DEF Begun, Past, Within
<1>3. /\ (Sending(r)' <=> Sending(r)) /\ (Receiving(r)' <=> Receiving(r))
  BY <1>1, GroupFixed DEF Sending, Receiving
<1>4. /\ \A i : ChunkOf(r, i)' = ChunkOf(r, i)
      /\ \A i : Reads(r, i)' = Reads(r, i)
  BY <1>1, GroupFixed DEF ChunkOf, Reads
<1>5. \A c, x : (Beyond(r, c, x)' <=> Beyond(r, c, x)) /\ (In(r, c, x)' <=> In(r, c, x))
  BY <1>1 DEF Beyond, In
<1>6. \A c, o : Agreed(c, o)' <=> Agreed(c, o)
  BY GroupFixed DEF Agreed, Calls
<1> QED BY <1>1, <1>2, <1>3, <1>4, <1>5, <1>6

-----------------------------------------------------------------------------
(* The steps of an exchange through shared slots *)

\* A rank in an exchange.
LEMMA AtWork ==
  ASSUME IInv, Shared, NEW r \in Ranks, Within(r)
  PROVE  /\ op[r] \in Ops /\ op[r].count \in Nat \ {0} /\ Calls(r) \in Nat \ {0}
         /\ Begun(r) /\ ~Past(r) /\ Agreed(Calls(r), op[r])
         /\ at[r].exchange \in 1 .. Len(Exchanges(op[r], r)) /\ Len(Exchanges(op[r], r)) \in Nat
         /\ at[r].chunk \in Nat /\ at[r].acked \in Nat /\ at[r].uploaded \in Nat /\ at[r].peer \in Nat \ {0}
         /\ Len(PeersNow(r)) \in Nat \ {0} /\ DOMAIN PeersNow(r) = 1 .. Len(PeersNow(r))
         /\ Downloads(op[r], at[r].exchange, r) <=> Sending(r)
         /\ Sending(r) <=> \E p \in DOMAIN PeersNow(r) : PeersNow(r)[p][1] # None
         /\ Receiving(r) <=> \E p \in DOMAIN PeersNow(r) : PeersNow(r)[p][2] # None
         /\ Receiving(r) => \A p \in DOMAIN PeersNow(r) : PeersNow(r)[p][2] \in Ranks
         /\ \A p \in DOMAIN PeersNow(r) :
              PeersNow(r)[p][1] \in Ranks \cup {None} /\ PeersNow(r)[p][2] \in Ranks \cup {None}
         /\ \A p \in DOMAIN PeersNow(r), d \in Ranks :
              PeersNow(r)[p][1] = d <=>
                Flows(op[r], r, d) /\ at[r].exchange = Outward(op[r], r, d) /\ p = Place(op[r], r, d)
         /\ \A p \in DOMAIN PeersNow(r), d \in Ranks :
              PeersNow(r)[p][2] = d <=>
                Flows(op[r], d, r) /\ at[r].exchange = Inward(op[r], d, r) /\ p = Place(op[r], d, r)
         /\ \A d \in Ranks :
              /\ Flows(op[r], r, d) => Outward(op[r], r, d) >= 1
              /\ Flows(op[r], d, r) => Inward(op[r], d, r) >= 1
         /\ \A d \in Ranks : Flows(op[r], r, d) /\ at[r].exchange = Outward(op[r], r, d) =>
              Sending(r) /\ Place(op[r], r, d) \in DOMAIN PeersNow(r)
         /\ \A d \in Ranks : Flows(op[r], d, r) /\ at[r].exchange = Inward(op[r], d, r) =>
              Receiving(r) /\ Place(op[r], d, r) \in DOMAIN PeersNow(r)
<1>1. TypeOK /\ Turns /\ Agreement(r)
  BY DEF IInv, SharedInv
<1>2. at[r] \in [exchange : Nat, chunk : Nat, acked : Nat, peer : Nat \ {0}, uploaded : Nat]
      /\ op[r] \in Ops \cup {NoOp} /\ asked[r] \in Seq(Ops)
  BY <1>1 DEF TypeOK
<1>3. Begun(r)
  <2>1. CASE op[r] \in Ops
    BY <1>1, <1>2, <2>1, Meetings DEF Within, Begun
  <2>2. CASE op[r] = NoOp
    <3>1. r # None
      BY <1>1, Sizes
    <3>2. Exchanges(op[r], r) = <<<<<<None, None>>>>>>
      BY <2>2, <3>1 DEF Exchanges, NoOp
    <3> QED BY <1>2, <3>2 DEF Within, Begun
  <2> QED BY <1>2, <2>1, <2>2
<1>4. Agreed(Calls(r), op[r])
  BY <1>1, <1>3 DEF Agreement
<1>5. Calls(r) \in Nat \ {0} /\ op[r] \in Ops
  BY <1>1, <1>2, <1>4 DEF Calls, Agreed, Turns
<1> DEFINE E == Exchanges(op[r], r)
           x == at[r].exchange
<1>6. /\ Len(E) \in Nat /\ DOMAIN E = 1 .. Len(E) /\ x \in 1 .. Len(E)
  BY <1>1, <1>5, Meetings DEF Within
<1>7. ~Past(r)
  BY <1>6 DEF Past
<1>16. \A y \in DOMAIN E :
      /\ Len(E[y]) \in Nat \ {0} /\ DOMAIN E[y] = 1 .. Len(E[y])
      /\ \A p \in DOMAIN E[y] : E[y][p][1] \in Ranks \cup {None} /\ E[y][p][2] \in Ranks \cup {None}
      /\ \A p \in DOMAIN E[y], d \in Ranks :
           E[y][p][1] = d <=> Flows(op[r], r, d) /\ y = Outward(op[r], r, d) /\ p = Place(op[r], r, d)
      /\ \A p \in DOMAIN E[y], d \in Ranks :
           E[y][p][2] = d <=> Flows(op[r], d, r) /\ y = Inward(op[r], d, r) /\ p = Place(op[r], d, r)
      /\ (\E p \in DOMAIN E[y] : E[y][p][2] # None) => \A p \in DOMAIN E[y] : E[y][p][2] \in Ranks
  BY <1>1, <1>5, Meetings
<1>9. \A d \in Ranks :
        /\ Flows(op[r], r, d) => Outward(op[r], r, d) \in 1 .. Len(E) /\ Place(op[r], r, d) \in DOMAIN E[Outward(op[r], r, d)]
        /\ Flows(op[r], d, r) => Inward(op[r], d, r) \in 1 .. Len(E) /\ Place(op[r], d, r) \in DOMAIN E[Inward(op[r], d, r)]
  BY <1>1, <1>5, <1>6, Meetings
<1>10. PeersNow(r) = E[x]
  BY DEF PeersNow
<1> HIDE DEF E
<1>11. /\ Downloads(op[r], x, r) <=> Sending(r)
       /\ Sending(r) <=> \E p \in DOMAIN E[x] : E[x][p][1] # None
       /\ Receiving(r) <=> \E p \in DOMAIN E[x] : E[x][p][2] # None
  BY <1>10 DEF Downloads, Sending, Sends, Receiving, Shared, E
<1> HIDE DEF x
<1>8. /\ Len(E[x]) \in Nat \ {0} /\ DOMAIN E[x] = 1 .. Len(E[x])
      /\ \A p \in DOMAIN E[x] : E[x][p][1] \in Ranks \cup {None} /\ E[x][p][2] \in Ranks \cup {None}
      /\ \A p \in DOMAIN E[x], d \in Ranks :
           E[x][p][1] = d <=> Flows(op[r], r, d) /\ x = Outward(op[r], r, d) /\ p = Place(op[r], r, d)
      /\ \A p \in DOMAIN E[x], d \in Ranks :
           E[x][p][2] = d <=> Flows(op[r], d, r) /\ x = Inward(op[r], d, r) /\ p = Place(op[r], d, r)
      /\ (\E p \in DOMAIN E[x] : E[x][p][2] # None) => \A p \in DOMAIN E[x] : E[x][p][2] \in Ranks
  BY <1>6, <1>16
<1>12. op[r].count \in Nat \ {0}
  BY <1>5, Fields
<1>13. \A d \in Ranks : d # None
  BY <1>1, Sizes
<1>14. /\ \A d \in Ranks : Flows(op[r], r, d) /\ x = Outward(op[r], r, d) =>
              Sending(r) /\ Place(op[r], r, d) \in DOMAIN E[x]
       /\ \A d \in Ranks : Flows(op[r], d, r) /\ x = Inward(op[r], d, r) =>
              Receiving(r) /\ Place(op[r], d, r) \in DOMAIN E[x]
  BY <1>8, <1>9, <1>11, <1>13
<1>15. \A d \in Ranks : (Flows(op[r], r, d) => Outward(op[r], r, d) >= 1)
                        /\ (Flows(op[r], d, r) => Inward(op[r], d, r) >= 1)
  BY <1>6, <1>9
<1>17. at[r].chunk \in Nat /\ at[r].acked \in Nat /\ at[r].uploaded \in Nat /\ at[r].peer \in Nat \ {0}
  BY <1>2
<1>18. Receiving(r) => \A p \in DOMAIN E[x] : E[x][p][2] \in Ranks
  BY <1>8, <1>11
<1> USE <1>10 DEF E, x
<1> QED BY <1>3, <1>4, <1>5, <1>6, <1>7, <1>8, <1>11, <1>12, <1>14, <1>15, <1>17, <1>18

\* What s has told of chunk i it told d, as soon as d is to hear of it.
LEMMA Meeting ==
  ASSUME IInv, Shared, NEW s \in Ranks, NEW d \in Ranks, NEW i \in Nat, Within(d),
         Flows(op[d], s, d), i < op[d].count, Told(op[d], Calls(d), s, d, i)
  PROVE  Calls(s) >= Calls(d) /\ (Calls(s) = Calls(d) => op[s] = op[d] /\ Begun(s))
<1>1. Agreed(Calls(d), op[d]) /\ Turns /\ TypeOK
  BY AtWork DEF IInv
<1>2. Calls(s) >= Calls(d)
  BY <1>1 DEF Agreed
<1>3. ASSUME Calls(s) = Calls(d)
      PROVE  op[s] = op[d] /\ Begun(s)
  <2>1. op[s] = op[d]
    BY <1>1, <1>3, SameOp
  <2>2. op[d] \in Ops /\ Outward(op[d], s, d) \in DOMAIN Exchanges(op[d], s)
        /\ DOMAIN Exchanges(op[d], s) = 1 .. Len(Exchanges(op[d], s)) /\ Len(Exchanges(op[d], s)) \in Nat
    BY <1>1, AtWork, Meetings
  <2>3. at[s].exchange \in Nat /\ Calls(s) \in Nat
    BY <1>1, <1>3, AtWork DEF TypeOK
  <2>4. at[s].exchange >= Outward(op[d], s, d)
    BY <1>3, <2>2, <2>3 DEF Told, Beyond, In
  <2> QED BY <2>1, <2>2, <2>3, <2>4 DEF Begun
<1> QED BY <1>2, <1>3

\* What a signal more, and one heard, leave of a channel.
LEMMA MoreSignals ==
  ASSUME NEW f \in Seq(Nat), NEW k \in Nat, Increasing(f), \A j \in DOMAIN f : f[j] < k
  PROVE  /\ Append(f, k) \in Seq(Nat) /\ Increasing(Append(f, k))
         /\ \A j \in DOMAIN Append(f, k) : Append(f, k)[j] = k \/ \E l \in DOMAIN f : Append(f, k)[j] = f[l]
<1> DEFINE g == Append(f, k)
<1>1. /\ g \in Seq(Nat) /\ DOMAIN f = 1 .. Len(f) /\ Len(f) \in Nat /\ DOMAIN g = 1 .. Len(f) + 1
      /\ g[Len(f) + 1] = k /\ \A j \in 1 .. Len(f) : g[j] = f[j]
  BY AppendProperties
<1> HIDE DEF g
<1>2. ASSUME NEW j \in DOMAIN g
      PROVE  g[j] = k \/ \E l \in DOMAIN f : g[j] = f[l]
  <2>1. j \in DOMAIN f \/ j = Len(f) + 1
    BY <1>1
  <2> QED BY <1>1, <2>1
<1>3. ASSUME NEW j \in DOMAIN g, NEW l \in DOMAIN g, j < l
      PROVE  g[j] < g[l]
  <2>1. j \in DOMAIN f /\ g[j] = f[j]
    BY <1>1, <1>3
  <2>2. CASE l \in DOMAIN f
    BY <1>1, <1>3, <2>1, <2>2 DEF Increasing
  <2>3. CASE l = Len(f) + 1
    BY <1>1, <2>1, <2>3
  <2> QED BY <1>1, <2>2, <2>3
<1> QED BY <1>1, <1>2, <1>3 DEF Increasing, g

\* What follows the first of an increasing sequence, which is less.
LEMMA FewerSignals ==
  ASSUME NEW f \in Seq(Nat), f # <<>>, Increasing(f)
  PROVE  /\ Tail(f) \in Seq(Nat) /\ Increasing(Tail(f)) /\ Head(f) \in Nat /\ 1 \in DOMAIN f /\ Head(f) = f[1]
         /\ \A j \in DOMAIN Tail(f) : Head(f) < Tail(f)[j] /\ \E l \in DOMAIN f : Tail(f)[j] = f[l]
<1> DEFINE g == Tail(f)
<1>1. /\ g \in Seq(Nat) /\ DOMAIN f = 1 .. Len(f) /\ Len(f) \in Nat \ {0} /\ DOMAIN g = 1 .. Len(f) - 1
      /\ \A j \in 1 .. Len(f) - 1 : g[j] = f[j + 1]
      /\ Head(f) = f[1] /\ f[1] \in Nat
  BY HeadTailProperties
<1> HIDE DEF g
<1>2. ASSUME NEW j \in DOMAIN g
      PROVE  Head(f) < g[j] /\ \E l \in DOMAIN f : g[j] = f[l]
  <2>1. j + 1 \in DOMAIN f /\ 1 \in DOMAIN f /\ 1 < j + 1
    BY <1>1
  <2> QED BY <1>1, <2>1 DEF Increasing
<1>4. Len(f) \in Nat
  BY <1>1
<1>3. ASSUME NEW j \in DOMAIN g, NEW l \in DOMAIN g, j < l
      PROVE  g[j] < g[l]
  <2>2. j \in 1 .. Len(f) - 1 /\ l \in 1 .. Len(f) - 1 /\ j < l
    BY <1>1, <1>3
  <2>1. j + 1 \in 1 .. Len(f) /\ l + 1 \in 1 .. Len(f) /\ j + 1 < l + 1
    BY <1>4, <2>2
  <2> QED BY <1>1, <2>1, <2>2 DEF Increasing
<1> QED BY <1>1, <1>2, <1>3 DEF Increasing, g

\* A new signal that a chunk is ready.
LEMMA ReadyTold ==
  ASSUME IInv, Shared, NEW r \in Ranks, Within(r), Goes(r), Begun(r)', NEW d \in Ranks,
         Flows(op[r], r, d), at[r].exchange = Outward(op[r], r, d),
         NEW k, k = at[r].chunk, k < op[r].count,
         ~Told(op[r], Calls(r), r, d, k), Told(op[r], Calls(r), r, d, k)',
         chan'[r][d][0] = Append(chan[r][d][0], k)
  PROVE  ReadySignals(r, d)' /\ chan'[r][d][0] \in Seq(Nat)
<1>1. /\ TypeOK /\ Turns /\ Handshake /\ \A q \in Ranks : Agreement(q)
  BY DEF IInv, SharedInv
<1>9. PICK f : f = chan[r][d][0]
  OBVIOUS
<1> DEFINE g == Append(f, k)
<1>2. /\ f \in Seq(Nat) /\ k \in Nat /\ op[r].count \in Nat /\ d # r /\ Calls(r) \in Nat
      /\ at[r].exchange \in Nat /\ Agreed(Calls(r), op[r])
  <2>1. f \in Seq(Nat)
    BY <1>1, <1>9 DEF TypeOK
  <2>2. at[r].exchange \in Nat
    BY <1>1 DEF TypeOK
  <2> QED BY <2>1, <2>2, AtWork DEF Flows
<1>3. Increasing(f)
  BY <1>1, <1>9 DEF Handshake, ReadySignals
<1>4. ASSUME NEW j \in DOMAIN f
      PROVE  /\ Begun(r)' /\ Flows(op[r], r, d)' /\ f[j] < op[r].count' /\ f[j] \in Nat
             /\ Told(op[r], Calls(r), r, d, f[j])' /\ ~Known(op[r], Calls(r), r, d, f[j])'
             /\ f[j] < k
  <2>1. /\ Begun(r)' /\ Flows(op[r], r, d)' /\ f[j] < op[r].count' /\ f[j] \in Nat
        /\ Told(op[r], Calls(r), r, d, f[j])' /\ ~Known(op[r], Calls(r), r, d, f[j])'
    BY <1>1, <1>2, <1>9, ReadyStill
  <2>2. Told(op[r], Calls(r), r, d, f[j])
    BY <1>1, <1>9 DEF Handshake, ReadySignals
  <2>3. ~Beyond(r, Calls(r), Outward(op[r], r, d))
    BY <1>2 DEF Beyond
  <2>4. k > f[j] \/ k = f[j]
    BY <2>2, <2>3 DEF Told
  <2>5. k # f[j]
    BY <2>2
  <2> QED BY <1>2, <2>1, <2>4, <2>5
<1>5. /\ Flows(op[r], r, d)' /\ k < op[r].count' /\ Calls(r)' = Calls(r) /\ op' = op
  BY GroupFixed DEF Goes, Flows, Calls
<1>6. ~Known(op[r], Calls(r), r, d, k)'
  <2>1. ~Known(op[r], Calls(r), r, d, k)
    BY <1>1, <1>2 DEF Handshake, Knowledge
  <2>2. \A o, c, i : Known(o, c, r, d, i)' <=> Known(o, c, r, d, i)
    BY <1>2, SameHandshake DEF Goes
  <2> QED BY <1>5, <2>1, <2>2
<1>8. /\ g \in Seq(Nat) /\ Increasing(g)
      /\ \A j \in DOMAIN g : g[j] = k \/ \E l \in DOMAIN f : g[j] = f[l]
  BY <1>2, <1>3, <1>4, MoreSignals
<1>7. chan'[r][d][0] = g
  BY <1>9
<1> HIDE DEF g
<1>10. ReadySignals(r, d)'
  <2>1. ASSUME NEW j \in DOMAIN g
        PROVE  /\ Begun(r)' /\ Flows(op[r], r, d)' /\ g[j] < op[r].count'
               /\ Told(op[r], Calls(r), r, d, g[j])' /\ ~Known(op[r], Calls(r), r, d, g[j])'
    <3>1. CASE g[j] = k
      BY <1>5, <1>6, <3>1
    <3>2. CASE \E l \in DOMAIN f : g[j] = f[l]
      <4>1. PICK l \in DOMAIN f : g[j] = f[l]
        BY <3>2
      <4> QED BY <1>4, <4>1
    <3> QED BY <1>8, <3>1, <3>2
  <2> QED BY <1>7, <1>8, <2>1 DEF ReadySignals, Increasing
<1> QED BY <1>7, <1>8, <1>10

\* A new signal that a chunk is free.
LEMMA FreeTold ==
  ASSUME IInv, Shared, NEW r \in Ranks, Within(r), Goes(r), NEW s \in Ranks, Begun(s)', Begun(s),
         Flows(op[r], s, r), at[r].exchange = Inward(op[r], s, r), NEW k, k = at[r].acked, k < op[r].count,
         Calls(s) = Calls(r), op[s] = op[r],
         ~Freed(op[r], Calls(r), s, r, k), Freed(op[r], Calls(r), s, r, k)',
         chan'[r][s][1] = Append(chan[r][s][1], k)
  PROVE  FreeSignals(s, r)' /\ chan'[r][s][1] \in Seq(Nat)
<1>1. /\ TypeOK /\ Turns /\ Handshake /\ \A q \in Ranks : Agreement(q)
  BY DEF IInv, SharedInv
<1>12. PICK f : f = chan[r][s][1]
  OBVIOUS
<1> DEFINE g == Append(f, k)
<1>2. /\ f \in Seq(Nat) /\ k \in Nat /\ op[r].count \in Nat /\ s # r /\ Calls(r) \in Nat
      /\ at[r].exchange \in Nat /\ Agreed(Calls(r), op[r]) /\ Begun(r)
  <2>1. f \in Seq(Nat)
    BY <1>1, <1>12 DEF TypeOK
  <2>2. at[r].exchange \in Nat
    BY <1>1 DEF TypeOK
  <2> QED BY <2>1, <2>2, AtWork DEF Flows
<1>3. Increasing(f)
  BY <1>1, <1>12 DEF Handshake, FreeSignals
<1>9. \A o, c, i : Acknowledged(o, c, s, r, i)' <=> Acknowledged(o, c, s, r, i)
  BY <1>2, SameHandshake DEF Goes
<1>5. /\ Flows(op[s], s, r)' /\ k < op[s].count' /\ Calls(s)' = Calls(s) /\ op' = op
      /\ Calls(s)' = Calls(r)' /\ op'[s] = op[r]
  BY GroupFixed DEF Goes, Flows, Calls
<1>4. ASSUME NEW j \in DOMAIN f
      PROVE  /\ Flows(op[s], s, r)' /\ f[j] < op[s].count' /\ f[j] \in Nat
             /\ Freed(op[s], Calls(s), s, r, f[j])' /\ ~Acknowledged(op[s], Calls(s), s, r, f[j])'
             /\ f[j] < k
  <2>2. /\ Flows(op[s], s, r) /\ f[j] < op[s].count /\ Freed(op[s], Calls(s), s, r, f[j])
        /\ ~Acknowledged(op[s], Calls(s), s, r, f[j])
    BY <1>1, <1>12 DEF Handshake, FreeSignals
  <2>6. f[j] \in Nat /\ f[j] \in 0 .. op[r].count - 1
    BY <1>2, <2>2
  <2>3. ~Beyond(r, Calls(r), Inward(op[r], s, r))
    BY <1>2 DEF Beyond
  <2>4. k > f[j] \/ k = f[j]
    BY <2>2, <2>3 DEF Freed
  <2>5. k # f[j]
    BY <2>2
  <2>7. Freed(op[r], Calls(r), s, r, f[j])'
    BY <2>2, <2>6 DEF Goes
  <2>8. ~Acknowledged(op[s], Calls(s), s, r, f[j])'
    BY <1>5, <1>9, <2>2
  <2> QED BY <1>2, <1>5, <2>2, <2>4, <2>5, <2>6, <2>7, <2>8
<1>6. ~Acknowledged(op[s], Calls(s), s, r, k)'
  <2>1. ~Acknowledged(op[s], Calls(s), s, r, k)
    BY <1>1, <1>2 DEF Handshake, Permission
  <2> QED BY <1>5, <1>9, <2>1
<1>8. /\ g \in Seq(Nat) /\ Increasing(g)
      /\ \A j \in DOMAIN g : g[j] = k \/ \E l \in DOMAIN f : g[j] = f[l]
  BY <1>2, <1>3, <1>4, MoreSignals
<1>7. chan'[r][s][1] = g
  BY <1>12
<1>11. Freed(op[s], Calls(s), s, r, k)'
  BY <1>5
<1> HIDE DEF g
<1>10. FreeSignals(s, r)'
  <2>1. ASSUME NEW j \in DOMAIN g
        PROVE  /\ Begun(s)' /\ Flows(op[s], s, r)' /\ g[j] < op[s].count'
               /\ Freed(op[s], Calls(s), s, r, g[j])' /\ ~Acknowledged(op[s], Calls(s), s, r, g[j])'
    <3>1. CASE g[j] = k
      BY <1>5, <1>6, <1>11, <3>1
    <3>2. CASE \E l \in DOMAIN f : g[j] = f[l]
      <4>1. PICK l \in DOMAIN f : g[j] = f[l]
        BY <3>2
      <4> QED BY <1>4, <4>1
    <3> QED BY <1>8, <3>1, <3>2
  <2> QED BY <1>7, <1>8, <2>1 DEF FreeSignals, Increasing
<1> QED BY <1>7, <1>8, <1>10

\* The handshake holds on when each channel does, or is as it was and r hears nothing new.
LEMMA HandshakeKept ==
  ASSUME IInv, Shared, NEW r \in Ranks, Goes(r), Learns(r), Begun(r) => Begun(r)',
         \A s, d \in Ranks :
           \/ ReadySignals(s, d)'
           \/ /\ chan'[s][d][0] = chan[s][d][0]
              /\ d = r => \A i \in Nat : Flows(op[r], s, r) /\ i < op[r].count
                   /\ Known(op[r], Calls(r), s, r, i)' => Known(op[r], Calls(r), s, r, i),
         \A s, d \in Ranks :
           \/ FreeSignals(s, d)'
           \/ /\ chan'[d][s][1] = chan[d][s][1]
              /\ s = r => \A i \in Nat : Flows(op[r], r, d) /\ i < op[r].count
                   /\ Acknowledged(op[r], Calls(r), r, d, i)' => Acknowledged(op[r], Calls(r), r, d, i)
  PROVE  Handshake'
<1>1. /\ TypeOK /\ Turns /\ Handshake /\ \A q \in Ranks : Agreement(q)
  BY DEF IInv, SharedInv
<1>2. \A s, d \in Ranks : Knowledge(s, d)' /\ Permission(s, d)'
  BY <1>1, KnowledgeKept
<1>3. Ranks' = Ranks
  BY GroupFixed DEF Goes
<1>4. ASSUME NEW s \in Ranks, NEW d \in Ranks
      PROVE  ReadySignals(s, d)'
  <2> SUFFICES ASSUME ~ReadySignals(s, d)' PROVE FALSE
    OBVIOUS
  <2>1. /\ chan'[s][d][0] = chan[s][d][0]
        /\ d = r => \A i \in Nat : Flows(op[r], s, r) /\ i < op[r].count
             /\ Known(op[r], Calls(r), s, r, i)' => Known(op[r], Calls(r), s, r, i)
    OBVIOUS
  <2>7. PICK f : f = chan[s][d][0]
    OBVIOUS
  <2>2. f \in Seq(Nat)
    BY <1>1, <2>7 DEF TypeOK
  <2>3. Increasing(f) /\ \A j \in DOMAIN f : f[j] \in Nat
    BY <1>1, <2>2, <2>7 DEF Handshake, ReadySignals
  <2>4. \A j \in DOMAIN f : \E k \in DOMAIN chan[s][d][0] : f[j] = chan[s][d][0][k]
    BY <2>7
  <2>5. d = r => \A j \in DOMAIN f : Flows(op[r], s, r) /\ f[j] < op[r].count
                  /\ Known(op[r], Calls(r), s, r, f[j])' => Known(op[r], Calls(r), s, r, f[j])
    BY <2>1, <2>3
  <2>6. chan'[s][d][0] = f
    BY <2>1, <2>7
  <2> QED BY <1>1, <2>3, <2>4, <2>5, <2>6, ReadyKept
<1>5. ASSUME NEW s \in Ranks, NEW d \in Ranks
      PROVE  FreeSignals(s, d)'
  <2> SUFFICES ASSUME ~FreeSignals(s, d)' PROVE FALSE
    OBVIOUS
  <2>1. /\ chan'[d][s][1] = chan[d][s][1]
        /\ s = r => \A i \in Nat : Flows(op[r], r, d) /\ i < op[r].count
             /\ Acknowledged(op[r], Calls(r), r, d, i)' => Acknowledged(op[r], Calls(r), r, d, i)
    OBVIOUS
  <2>7. PICK f : f = chan[d][s][1]
    OBVIOUS
  <2>2. f \in Seq(Nat)
    BY <1>1, <2>7 DEF TypeOK
  <2>3. Increasing(f) /\ \A j \in DOMAIN f : f[j] \in Nat
    BY <1>1, <2>2, <2>7 DEF Handshake, FreeSignals
  <2>4. \A j \in DOMAIN f : \E k \in DOMAIN chan[d][s][1] : f[j] = chan[d][s][1][k]
    BY <2>7
  <2>5. s = r => \A j \in DOMAIN f : Flows(op[r], r, d) /\ f[j] < op[r].count
                  /\ Acknowledged(op[r], Calls(r), r, d, f[j])' => Acknowledged(op[r], Calls(r), r, d, f[j])
    BY <2>1, <2>3
  <2>6. chan'[d][s][1] = f
    BY <2>1, <2>7
  <2> QED BY <1>1, <2>3, <2>4, <2>5, <2>6, FreeKept
<1> QED BY <1>2, <1>3, <1>4, <1>5 DEF Handshake

\* Publish, and the next peer is told: r has told the peers up to p.
LEMMA TellsKeeps ==
  ASSUME IInv, Shared, NEW r \in Ranks, Within(r), NEW p \in DOMAIN PeersNow(r),
         \/ pc[r] = "chunk" /\ p = 1 /\ Window(r, at[r].chunk) /\ Filled(r)
         \/ pc[r] = "ready" /\ ~waiting[r] /\ p = at[r].peer + 1,
         at[r].chunk < op[r].count, Post(r, p, 0, at[r].chunk),
         pc' = [pc EXCEPT ![r] = "ready"], at' = [at EXCEPT ![r].peer = p],
         UNCHANGED <<Group, posted, Streams>>
  PROVE  IInv'
<1>1. /\ TypeOK /\ Turns /\ Handshake /\ \A q \in Ranks : Agreement(q)
      /\ Counters(r) /\ Slots(r) /\ Uploads(r)
  BY DEF IInv, SharedInv
<1>2. /\ group' = group /\ op' = op /\ asked' = asked /\ broken' = broken /\ dead' = dead /\ faults' = faults
      /\ posted' = posted /\ mem' = mem /\ down' = down /\ up' = up /\ got' = got
  BY DEF Group, Streams
<1>19. PICK k, send, hear : k = at[r].chunk /\ send = PeersNow(r)[p][1] /\ hear = PeersNow(r)[p][2]
  OBVIOUS
<1>3. /\ k \in Nat /\ p \in Nat \ {0} /\ send \in Ranks \cup {None} /\ hear \in Ranks \cup {None}
  BY <1>19, AtWork
<1>4. /\ chan' = IF send = None THEN chan ELSE [chan EXCEPT ![r][send][0] = Append(@, k)]
      /\ waiting' = [waiting EXCEPT ![r] = hear # None]
  BY <1>19 DEF Post, Pair
<1>5. /\ pc'[r] = "ready" /\ at'[r] = [at[r] EXCEPT !.peer = p] /\ waiting'[r] = (hear # None)
      /\ at'[r].exchange = at[r].exchange /\ at'[r].chunk = k /\ at'[r].acked = at[r].acked
      /\ at'[r].uploaded = at[r].uploaded /\ at'[r].peer = p
      /\ \A q \in Ranks \ {r} : pc'[q] = pc[q] /\ at'[q] = at[q] /\ waiting'[q] = waiting[q]
  BY <1>1, <1>4, <1>19 DEF TypeOK
<1>6. \A q \in Ranks \ {r} : Same(q)
  BY <1>2, <1>5 DEF Same
<1>7. /\ PeersNow(r)' = PeersNow(r) /\ Calls(r)' = Calls(r)
      /\ Begun(r)' /\ Within(r)' /\ ~Past(r)' /\ Begun(r)
      /\ (Sending(r)' <=> Sending(r)) /\ (Receiving(r)' <=> Receiving(r))
      /\ \A i : ChunkOf(r, i)' = ChunkOf(r, i)
      /\ \A i : Reads(r, i)' = Reads(r, i)
      /\ \A c, x : (Beyond(r, c, x)' <=> Beyond(r, c, x)) /\ (In(r, c, x)' <=> In(r, c, x))
      /\ \A c, o : Agreed(c, o)' <=> Agreed(c, o)
  BY <1>1, <1>2, <1>5, Stays, AtWork
<1>8. /\ k < op[r].count /\ Window(r, k) /\ at[r].peer \in Nat /\ op[r].count \in Nat /\ at[r].acked \in Nat
      /\ pc[r] \in {"chunk", "ready"} /\ at[r].uploaded \in Nat
  BY <1>1, <1>19, AtWork DEF Counters
<1>9. Agreement(r)'
  BY <1>1, <1>2, <1>5, <1>7, GroupFixed DEF Agreement, Calls
<1>10. Counters(r)'
  BY <1>1, <1>19, <1>2, <1>5, <1>7, <1>8 DEF Counters, Window
<1>11. Slots(r)'
  <2>1. CASE Sending(r)
    <3>1. ASSUME NEW j \in DOMAIN down[r], NEW i \in k .. op[r].count - 1, pc[r] = "chunk",
                 down[r][j] = Copying(op[r], Calls(r), at[r].exchange, r, i, 0)
          PROVE  i # k
      <4>1. down[r][j].lane = i % Buffers(op[r], r)
        BY <3>1 DEF Copying
      <4>2. Filled(r)
        BY <3>1
      <4> QED BY <1>19, <4>1, <4>2 DEF Filled, Lane
    <3>2. \A i : Window(r, i)' <=> Window(r, i)
      BY <1>5 DEF Window
    <3>3. \A i : Copying(op[r], Calls(r), at[r].exchange, r, i, 0)' = Copying(op[r], Calls(r), at[r].exchange, r, i, 0)
      BY <1>2, <1>5, <1>7, GroupFixed
    <3>4. \A j \in DOMAIN down[r] : \E i \in k .. op[r].count - 1 :
            /\ Window(r, i) /\ i # k
            /\ down[r][j] = Copying(op[r], Calls(r), at[r].exchange, r, i, 0)
      BY <1>1, <1>19, <1>8, <2>1, <3>1 DEF Slots
    <3>5. \A i \in at[r].acked .. op[r].count - 1 : Window(r, i) =>
            \/ i >= k /\ \E j \in DOMAIN down[r] : down[r][j].lane = i % BUFFERS_PER_RANK
            \/ mem[r][i % BUFFERS_PER_RANK] = ChunkOf(r, i)
      BY <1>1, <1>19, <2>1 DEF Slots
    <3> QED BY <1>2, <1>5, <1>7, <2>1, <3>2, <3>3, <3>4, <3>5 DEF Slots
  <2>2. CASE ~Sending(r)
    BY <1>1, <1>2, <1>7, <2>2 DEF Slots
  <2> QED BY <2>1, <2>2
<1>12. Uploads(r)'
  <2>1. Fetched(r)' = Fetched(r)
    BY <1>2, <1>5, <1>7, GroupFixed DEF Fetched, Flows
  <2> QED BY <1>1, <1>2, <1>5, <1>7, <1>8, <2>1 DEF Uploads
<1>13. ASSUME NEW q \in Ranks, NEW i \in Nat
       PROVE  /\ Flows(op[r], r, q) /\ Told(op[r], Calls(r), r, q, i) => Told(op[r], Calls(r), r, q, i)'
              /\ Freed(op[r], Calls(r), q, r, i) <=> Freed(op[r], Calls(r), q, r, i)'
              /\ Flows(op[r], q, r) /\ Known(op[r], Calls(r), q, r, i)' => Known(op[r], Calls(r), q, r, i)
              /\ Acknowledged(op[r], Calls(r), r, q, i) <=> Acknowledged(op[r], Calls(r), r, q, i)'
  <2>1. /\ Outward(op[r], r, q)' = Outward(op[r], r, q) /\ Inward(op[r], q, r)' = Inward(op[r], q, r)
        /\ Place(op[r], r, q)' = Place(op[r], r, q) /\ Place(op[r], q, r)' = Place(op[r], q, r)
    BY <1>2, GroupFixed
  <2>2. Flows(op[r], r, q) /\ Told(op[r], Calls(r), r, q, i) => Told(op[r], Calls(r), r, q, i)'
    <3>1. Flows(op[r], r, q) => Place(op[r], r, q) \in Nat
      BY <1>1, AtWork, Meetings
    <3> QED BY <1>2, <1>3, <1>5, <1>7, <1>8, <1>19, <2>1, <3>1 DEF Told
  <2>3. Freed(op[r], Calls(r), q, r, i) <=> Freed(op[r], Calls(r), q, r, i)'
    BY <1>2, <1>5, <1>7, <1>8, <1>19, <2>1 DEF Freed
  <2>4. Acknowledged(op[r], Calls(r), r, q, i) <=> Acknowledged(op[r], Calls(r), r, q, i)'
    BY <1>2, <1>5, <1>7, <1>8, <1>19, <2>1 DEF Acknowledged
  <2>5. ASSUME Flows(op[r], q, r), Known(op[r], Calls(r), q, r, i)'
        PROVE  Known(op[r], Calls(r), q, r, i)
    <3>1. CASE at[r].exchange = Inward(op[r], q, r)
      <4>5. PICK pl : pl = Place(op[r], q, r)
        OBVIOUS
      <4>1. pl \in DOMAIN PeersNow(r) /\ PeersNow(r)[pl][2] = q /\ q # None
        BY <1>1, <2>5, <3>1, <4>5, AtWork, Sizes
      <4>2. pl \in Nat /\ pl >= 1
        BY <4>1, AtWork
      <4>3. HeardFrom(r, pl)' => p > 1 /\ HeardFrom(r, pl)
        <5>1. HeardFrom(r, pl)' => pl < p
          <6>1. pl = p => waiting'[r]
            BY <1>5, <1>19, <4>1
          <6> QED BY <1>3, <1>5, <4>2, <6>1 DEF HeardFrom
        <5> QED BY <1>3, <1>8, <4>2, <5>1 DEF HeardFrom
      <4> QED BY <1>2, <1>5, <1>7, <1>8, <1>19, <2>1, <2>5, <4>3, <4>5 DEF Known
    <3>2. CASE at[r].exchange # Inward(op[r], q, r)
      BY <1>2, <1>7, <2>1, <2>5, <3>2 DEF Known, In
    <3> QED BY <3>1, <3>2
  <2> QED BY <2>2, <2>3, <2>4, <2>5
<1>14. Goes(r) /\ Learns(r)
  <2>1. \A i \in 0 .. op[r].count - 1 : i \in Nat
    BY <1>8
  <2> QED BY <1>2, <1>6, <1>13, <2>1 DEF Goes, Learns
<1>15. chan \in [Ranks -> [Ranks -> [{0, 1} -> Seq(Nat)]]]
  BY <1>1 DEF TypeOK
<1>16. ASSUME NEW q \in Ranks, NEW i \in Nat
       PROVE  /\ Flows(op[r], q, r) /\ i < op[r].count /\ Known(op[r], Calls(r), q, r, i)' =>
                   Known(op[r], Calls(r), q, r, i)
              /\ Flows(op[r], r, q) /\ i < op[r].count /\ Acknowledged(op[r], Calls(r), r, q, i)' =>
                   Acknowledged(op[r], Calls(r), r, q, i)
  BY <1>13
<1>17. chan' \in [Ranks -> [Ranks -> [{0, 1} -> Seq(Nat)]]] /\ Handshake'
  <2>1. CASE send = None
    <3>1. chan' = chan
      BY <1>4, <2>1
    <3> QED BY <1>7, <1>14, <1>15, <1>16, <3>1, HandshakeKept
  <2>2. CASE send # None
    <3>1. send \in Ranks /\ chan' = [chan EXCEPT ![r][send][0] = Append(chan[r][send][0], k)]
      BY <1>3, <1>4, <2>2
    <3>2. Flows(op[r], r, send) /\ at[r].exchange = Outward(op[r], r, send) /\ p = Place(op[r], r, send)
      BY <1>19, <3>1, AtWork
    <3>7. PICK f : f = Append(chan[r][send][0], k)
      OBVIOUS
    <3>3. f \in Seq(Nat)
      BY <1>3, <1>15, <3>1, <3>7
    <3>4. /\ chan' \in [Ranks -> [Ranks -> [{0, 1} -> Seq(Nat)]]]
          /\ chan'[r][send][0] = f
          /\ \A s, d \in Ranks, u \in {0, 1} : ~(s = r /\ d = send /\ u = 0) => chan'[s][d][u] = chan[s][d][u]
      <4>1. chan' = Put(chan, r, send, 0, f)
        BY <3>1, <3>7 DEF Put
      <4>2. TypeOK /\ group' = group /\ send \in Ranks
        BY <1>1, <1>2, <3>1
      <4> QED BY <3>3, <4>1, <4>2, OneChannel
    <3>5. /\ ~Told(op[r], Calls(r), r, send, k)
          /\ Told(op[r], Calls(r), r, send, k)'
      <4>1. Outward(op[r], r, send)' = Outward(op[r], r, send) /\ Place(op[r], r, send)' = Place(op[r], r, send)
        BY <1>2, GroupFixed
      <4>2. ~Beyond(r, Calls(r), Outward(op[r], r, send)) /\ In(r, Calls(r), Outward(op[r], r, send))
        BY <3>2, AtWork DEF Beyond, In
      <4> QED BY <1>2, <1>3, <1>5, <1>7, <1>8, <3>2, <1>19, <4>1, <4>2 DEF Told
    <3>6. ReadySignals(r, send)'
      BY <1>7, <1>8, <1>14, <3>1, <3>2, <3>4, <3>5, <3>7, <1>19, ReadyTold
    <3>8. ASSUME NEW s \in Ranks, NEW d \in Ranks
          PROVE  /\ chan'[d][s][1] = chan[d][s][1]
                 /\ (s = r /\ d = send) \/ chan'[s][d][0] = chan[s][d][0]
      BY <3>4
    <3> QED BY <1>7, <1>14, <1>16, <3>4, <3>6, <3>8, HandshakeKept
  <2> QED BY <2>1, <2>2
<1>18. TypeOK'
  <2>1. /\ pc' \in [Ranks -> {"idle", "metadata", "chunk", "ready", "free", "gloo", "drain", "failed"}]
        /\ waiting' \in [Ranks -> BOOLEAN]
    BY <1>1, <1>4 DEF TypeOK
  <2>2. at' \in [Ranks -> [exchange : Nat, chunk : Nat, acked : Nat, peer : Nat \ {0}, uploaded : Nat]]
    <3>1. at[r] \in [exchange : Nat, chunk : Nat, acked : Nat, peer : Nat \ {0}, uploaded : Nat]
      BY <1>1 DEF TypeOK
    <3>2. [at[r] EXCEPT !.peer = p] \in [exchange : Nat, chunk : Nat, acked : Nat, peer : Nat \ {0}, uploaded : Nat]
      BY <1>3, <3>1
    <3> QED BY <1>1, <3>2 DEF TypeOK
  <2> QED BY <1>1, <1>2, <1>17, <2>1, <2>2, GroupFixed DEF TypeOK
<1> QED BY <1>5, <1>8, <1>9, <1>10, <1>11, <1>12, <1>14, <1>17, <1>18, SharedStep

\* What r has not freed of s, s does not take as free: s is in the call, too, and has told r of it.
LEMMA Awaits ==
  ASSUME IInv, Shared, NEW r \in Ranks, Within(r), NEW s \in Ranks, NEW i \in Nat, i < op[r].count,
         Flows(op[r], s, r), Known(op[r], Calls(r), s, r, i), ~Freed(op[r], Calls(r), s, r, i)
  PROVE  /\ Calls(s) = Calls(r) /\ op[s] = op[r] /\ Begun(s)
         /\ Told(op[r], Calls(r), s, r, i) /\ ~Acknowledged(op[r], Calls(r), s, r, i)
<1>1. TypeOK /\ Turns /\ Handshake /\ Agreed(Calls(r), op[r]) /\ op[r].count \in Nat
  BY AtWork DEF IInv, SharedInv
<1>2. i \in 0 .. op[r].count - 1
  BY <1>1
<1>3. ~Acknowledged(op[r], Calls(r), s, r, i)
  BY <1>1, <1>2 DEF Handshake, Permission
<1>4. Calls(s) = Calls(r)
  <2>1. Calls(s) >= Calls(r) /\ ~(Calls(s) > Calls(r))
    BY <1>1, <1>3 DEF Agreed, Acknowledged, Beyond
  <2>2. Calls(s) \in Nat /\ Calls(r) \in Nat
    <3>1. asked[s] \in Seq(Ops) /\ asked[r] \in Seq(Ops)
      BY <1>1 DEF TypeOK
    <3> QED BY <3>1 DEF Calls
  <2> QED BY <2>1, <2>2
<1>5. op[s] = op[r]
  BY <1>1, <1>4, SameOp
<1>6. Told(op[r], Calls(r), s, r, i)
  BY <1>1, <1>2, <1>4, <1>5 DEF Handshake, Knowledge
<1>7. Begun(s)
  BY <1>4, <1>6, Meeting
<1> QED BY <1>3, <1>4, <1>5, <1>6, <1>7

\* Release, and the next peer is told: r has given its chunk back to the peers up to p.
LEMMA FreesKeeps ==
  ASSUME IInv, Shared, NEW r \in Ranks, Within(r), NEW p \in DOMAIN PeersNow(r),
         \/ /\ pc[r] = "chunk" /\ p = 1
            /\ at[r].acked < at[r].chunk /\ (at[r].chunk = op[r].count \/ ~Window(r, at[r].chunk))
            /\ Receiving(r) => at[r].uploaded > at[r].acked
         \/ pc[r] = "free" /\ ~waiting[r] /\ p = at[r].peer + 1,
         Post(r, p, 1, at[r].acked),
         pc' = [pc EXCEPT ![r] = "free"], at' = [at EXCEPT ![r].peer = p],
         UNCHANGED <<Group, posted, Streams>>
  PROVE  IInv'
<1>1. /\ TypeOK /\ Turns /\ Handshake /\ \A q \in Ranks : Agreement(q)
      /\ Counters(r) /\ Slots(r) /\ Uploads(r)
  BY DEF IInv, SharedInv
<1>2. /\ group' = group /\ op' = op /\ asked' = asked /\ broken' = broken /\ dead' = dead /\ faults' = faults
      /\ posted' = posted /\ mem' = mem /\ down' = down /\ up' = up /\ got' = got
  BY DEF Group, Streams
<1>19. PICK k, send, hear : k = at[r].acked /\ send = PeersNow(r)[p][2] /\ hear = PeersNow(r)[p][1]
  OBVIOUS
<1>3. /\ k \in Nat /\ p \in Nat \ {0} /\ send \in Ranks \cup {None} /\ hear \in Ranks \cup {None}
  BY <1>19, AtWork
<1>4. /\ chan' = IF send = None THEN chan ELSE [chan EXCEPT ![r][send][1] = Append(@, k)]
      /\ waiting' = [waiting EXCEPT ![r] = hear # None]
  BY <1>19 DEF Post, Pair
<1>5. /\ pc'[r] = "free" /\ at'[r] = [at[r] EXCEPT !.peer = p] /\ waiting'[r] = (hear # None)
      /\ at'[r].exchange = at[r].exchange /\ at'[r].chunk = at[r].chunk /\ at'[r].acked = k
      /\ at'[r].uploaded = at[r].uploaded /\ at'[r].peer = p
      /\ \A q \in Ranks \ {r} : pc'[q] = pc[q] /\ at'[q] = at[q] /\ waiting'[q] = waiting[q]
  BY <1>1, <1>4, <1>19 DEF TypeOK
<1>6. \A q \in Ranks \ {r} : Same(q)
  BY <1>2, <1>5 DEF Same
<1>7. /\ PeersNow(r)' = PeersNow(r) /\ Calls(r)' = Calls(r)
      /\ Begun(r)' /\ Within(r)' /\ ~Past(r)' /\ Begun(r)
      /\ (Sending(r)' <=> Sending(r)) /\ (Receiving(r)' <=> Receiving(r))
      /\ \A i : ChunkOf(r, i)' = ChunkOf(r, i)
      /\ \A i : Reads(r, i)' = Reads(r, i)
      /\ \A c, x : (Beyond(r, c, x)' <=> Beyond(r, c, x)) /\ (In(r, c, x)' <=> In(r, c, x))
      /\ \A c, o : Agreed(c, o)' <=> Agreed(c, o)
  BY <1>1, <1>2, <1>5, Stays, AtWork
<1>8. /\ k < at[r].chunk /\ at[r].peer \in Nat /\ op[r].count \in Nat /\ at[r].acked \in Nat
      /\ at[r].chunk \in Nat /\ at[r].chunk <= op[r].count
      /\ at[r].chunk = op[r].count \/ ~Window(r, at[r].chunk)
      /\ Receiving(r) => k < at[r].uploaded
      /\ pc[r] \in {"chunk", "free"} /\ at[r].uploaded \in Nat
  BY <1>1, <1>19, AtWork DEF Counters
<1>9. Agreement(r)'
  BY <1>1, <1>2, <1>5, <1>7, GroupFixed DEF Agreement, Calls
<1>10. Counters(r)'
  BY <1>1, <1>19, <1>2, <1>5, <1>7, <1>8 DEF Counters, Window
<1>11. Slots(r)'
  <2>1. \A i : Window(r, i)' <=> Window(r, i)
    BY <1>5, <1>19 DEF Window
  <2>2. \A i : Copying(op[r], Calls(r), at[r].exchange, r, i, 0)' = Copying(op[r], Calls(r), at[r].exchange, r, i, 0)
    BY <1>2, <1>5, <1>7, GroupFixed
  <2>3. /\ op'[r] = op[r] /\ mem'[r] = mem[r] /\ down'[r] = down[r] /\ at'[r].chunk = at[r].chunk
        /\ at'[r].acked = at[r].acked /\ pc'[r] # "ready" /\ (Within(r)' <=> Within(r))
    BY <1>2, <1>5, <1>7, <1>19
  <2> QED BY <1>1, <1>7, <2>1, <2>2, <2>3 DEF Slots
<1>12. Uploads(r)'
  <2>1. Fetched(r)' = Fetched(r)
    BY <1>2, <1>5, <1>7, GroupFixed DEF Fetched, Flows
  <2> QED BY <1>1, <1>2, <1>5, <1>7, <1>8, <2>1 DEF Uploads
<1>13. ASSUME NEW q \in Ranks, NEW i \in Nat
       PROVE  /\ Told(op[r], Calls(r), r, q, i) <=> Told(op[r], Calls(r), r, q, i)'
              /\ Flows(op[r], q, r) /\ Freed(op[r], Calls(r), q, r, i) => Freed(op[r], Calls(r), q, r, i)'
              /\ Known(op[r], Calls(r), q, r, i)' <=> Known(op[r], Calls(r), q, r, i)
              /\ Flows(op[r], r, q) /\ Acknowledged(op[r], Calls(r), r, q, i)' => Acknowledged(op[r], Calls(r), r, q, i)
  <2>1. /\ Outward(op[r], r, q)' = Outward(op[r], r, q) /\ Inward(op[r], q, r)' = Inward(op[r], q, r)
        /\ Place(op[r], r, q)' = Place(op[r], r, q) /\ Place(op[r], q, r)' = Place(op[r], q, r)
    BY <1>2, GroupFixed
  <2>2. Flows(op[r], q, r) /\ Freed(op[r], Calls(r), q, r, i) => Freed(op[r], Calls(r), q, r, i)'
    <3>1. Flows(op[r], q, r) => Place(op[r], q, r) \in Nat
      BY <1>1, AtWork, Meetings
    <3> QED BY <1>2, <1>3, <1>5, <1>7, <1>8, <1>19, <2>1, <3>1 DEF Freed
  <2>3. Told(op[r], Calls(r), r, q, i) <=> Told(op[r], Calls(r), r, q, i)'
    BY <1>2, <1>5, <1>7, <1>8, <1>19, <2>1 DEF Told
  <2>4. Known(op[r], Calls(r), q, r, i) <=> Known(op[r], Calls(r), q, r, i)'
    BY <1>2, <1>5, <1>7, <1>8, <1>19, <2>1 DEF Known
  <2>5. ASSUME Flows(op[r], r, q), Acknowledged(op[r], Calls(r), r, q, i)'
        PROVE  Acknowledged(op[r], Calls(r), r, q, i)
    <3>1. CASE at[r].exchange = Outward(op[r], r, q)
      <4>5. PICK pl : pl = Place(op[r], r, q)
        OBVIOUS
      <4>6. pl \in DOMAIN PeersNow(r)
        BY <2>5, <3>1, <4>5, AtWork
      <4>7. PeersNow(r)[pl][1] = q
        BY <2>5, <3>1, <4>5, <4>6, AtWork
      <4>1. pl \in DOMAIN PeersNow(r) /\ PeersNow(r)[pl][1] = q /\ q # None
        BY <1>1, <4>6, <4>7, Sizes
      <4>2. pl \in Nat /\ pl >= 1
        BY <4>1, AtWork
      <4>3. HeardFrom(r, pl)' => p > 1 /\ HeardFrom(r, pl)
        <5>1. HeardFrom(r, pl)' => pl < p
          <6>1. pl = p => waiting'[r]
            BY <1>5, <1>19, <4>1
          <6> QED BY <1>3, <1>5, <4>2, <6>1 DEF HeardFrom
        <5> QED BY <1>3, <1>8, <4>2, <5>1 DEF HeardFrom
      <4> QED BY <1>2, <1>5, <1>7, <1>8, <1>19, <2>1, <2>5, <4>3, <4>5 DEF Acknowledged
    <3>2. CASE at[r].exchange # Outward(op[r], r, q)
      BY <1>2, <1>7, <2>1, <2>5, <3>2 DEF Acknowledged, In
    <3> QED BY <3>1, <3>2
  <2> QED BY <2>2, <2>3, <2>4, <2>5
<1>14. Goes(r) /\ Learns(r)
  <2>1. \A i \in 0 .. op[r].count - 1 : i \in Nat
    BY <1>8
  <2> QED BY <1>2, <1>6, <1>13, <2>1 DEF Goes, Learns
<1>15. chan \in [Ranks -> [Ranks -> [{0, 1} -> Seq(Nat)]]]
  BY <1>1 DEF TypeOK
<1>16. ASSUME NEW q \in Ranks, NEW i \in Nat
       PROVE  /\ Flows(op[r], q, r) /\ i < op[r].count /\ Known(op[r], Calls(r), q, r, i)' =>
                   Known(op[r], Calls(r), q, r, i)
              /\ Flows(op[r], r, q) /\ i < op[r].count /\ Acknowledged(op[r], Calls(r), r, q, i)' =>
                   Acknowledged(op[r], Calls(r), r, q, i)
  BY <1>13
<1>17. chan' \in [Ranks -> [Ranks -> [{0, 1} -> Seq(Nat)]]] /\ Handshake'
  <2>1. CASE send = None
    <3>1. chan' = chan
      BY <1>4, <2>1
    <3> QED BY <1>7, <1>14, <1>15, <1>16, <3>1, HandshakeKept
  <2>2. CASE send # None
    <3>1. send \in Ranks /\ chan' = [chan EXCEPT ![r][send][1] = Append(chan[r][send][1], k)]
      BY <1>3, <1>4, <2>2
    <3>2. Flows(op[r], send, r) /\ at[r].exchange = Inward(op[r], send, r) /\ p = Place(op[r], send, r)
      BY <1>19, <3>1, AtWork
    <3>7. PICK f : f = Append(chan[r][send][1], k)
      OBVIOUS
    <3>3. f \in Seq(Nat)
      BY <1>3, <1>15, <3>1, <3>7
    <3>4. /\ chan' \in [Ranks -> [Ranks -> [{0, 1} -> Seq(Nat)]]]
          /\ chan'[r][send][1] = f
          /\ \A s, d \in Ranks, u \in {0, 1} : ~(s = r /\ d = send /\ u = 1) => chan'[s][d][u] = chan[s][d][u]
      <4>1. chan' = Put(chan, r, send, 1, f)
        BY <3>1, <3>7 DEF Put
      <4>2. TypeOK /\ group' = group /\ send \in Ranks
        BY <1>1, <1>2, <3>1
      <4> QED BY <3>3, <4>1, <4>2, OneChannel
    <3>5. /\ ~Freed(op[r], Calls(r), send, r, k) /\ Known(op[r], Calls(r), send, r, k)
          /\ Freed(op[r], Calls(r), send, r, k)'
      <4>1. Inward(op[r], send, r)' = Inward(op[r], send, r) /\ Place(op[r], send, r)' = Place(op[r], send, r)
        BY <1>2, GroupFixed
      <4>2. ~Beyond(r, Calls(r), Inward(op[r], send, r)) /\ In(r, Calls(r), Inward(op[r], send, r))
        BY <3>2, AtWork DEF Beyond, In
      <4>3. Known(op[r], Calls(r), send, r, k)
        BY <1>8, <4>2 DEF Known
      <4> QED BY <1>2, <1>3, <1>5, <1>7, <1>8, <3>2, <1>19, <4>1, <4>2, <4>3 DEF Freed
    <3>9. /\ Calls(send) = Calls(r) /\ op[send] = op[r] /\ Begun(send) /\ k < op[r].count
      BY <1>3, <1>8, <3>1, <3>2, <3>5, Awaits
    <3>10. Begun(send)'
      BY <1>2, <1>5, <1>7, <3>1, <3>9 DEF Begun
    <3>6. FreeSignals(send, r)'
      BY <1>8, <1>14, <3>1, <3>2, <3>4, <3>5, <3>7, <3>9, <3>10, <1>19, FreeTold
    <3>8. ASSUME NEW s \in Ranks, NEW d \in Ranks
          PROVE  /\ chan'[s][d][0] = chan[s][d][0]
                 /\ (d = r /\ s = send) \/ chan'[d][s][1] = chan[d][s][1]
      BY <3>4
    <3> QED BY <1>7, <1>14, <1>16, <3>4, <3>6, <3>8, HandshakeKept
  <2> QED BY <2>1, <2>2
<1>18. TypeOK'
  <2>1. /\ pc' \in [Ranks -> {"idle", "metadata", "chunk", "ready", "free", "gloo", "drain", "failed"}]
        /\ waiting' \in [Ranks -> BOOLEAN]
    BY <1>1, <1>4 DEF TypeOK
  <2>2. at' \in [Ranks -> [exchange : Nat, chunk : Nat, acked : Nat, peer : Nat \ {0}, uploaded : Nat]]
    <3>1. at[r] \in [exchange : Nat, chunk : Nat, acked : Nat, peer : Nat \ {0}, uploaded : Nat]
      BY <1>1 DEF TypeOK
    <3>2. [at[r] EXCEPT !.peer = p] \in [exchange : Nat, chunk : Nat, acked : Nat, peer : Nat \ {0}, uploaded : Nat]
      BY <1>3, <3>1
    <3> QED BY <1>1, <3>2 DEF TypeOK
  <2> QED BY <1>1, <1>2, <1>17, <2>1, <2>2, GroupFixed DEF TypeOK
<1> QED BY <1>5, <1>8, <1>9, <1>10, <1>11, <1>12, <1>14, <1>17, <1>18, SharedStep

\* A chunk that was published and not taken as free is whole in its slot.
LEMMA StillWhole ==
  ASSUME IInv, Shared, NEW s \in Ranks, Within(s), Sending(s), NEW i \in Nat, at[s].acked <= i, i < op[s].count,
         i < at[s].chunk \/ (i = at[s].chunk /\ pc[s] = "ready")
  PROVE  Whole(s, i) /\ Window(s, i)
<1>1. Slots(s) /\ Counters(s)
  BY DEF IInv, SharedInv
<1>2. /\ at[s].chunk \in Nat /\ at[s].acked \in Nat /\ op[s].count \in Nat
  BY AtWork
<1>3. Window(s, i)
  <2>1. at[s].chunk <= at[s].acked + BUFFERS_PER_RANK /\ (pc[s] = "ready" => Window(s, at[s].chunk))
    BY <1>1 DEF Counters
  <2> QED BY <1>2, <2>1 DEF Window, BUFFERS_PER_RANK
<1>4. ASSUME NEW j \in DOMAIN down[s]
      PROVE  down[s][j].lane # i % BUFFERS_PER_RANK
  <2>1. PICK k \in at[s].chunk .. op[s].count - 1 :
          /\ Window(s, k) /\ (pc[s] = "ready" => k # at[s].chunk)
          /\ down[s][j] = Copying(op[s], Calls(s), at[s].exchange, s, k, 0)
    BY <1>1 DEF Slots
  <2>2. k \in Nat /\ i < k /\ k < i + BUFFERS_PER_RANK
    BY <1>2, <2>1 DEF Window, BUFFERS_PER_RANK
  <2>3. down[s][j].lane = k % BUFFERS_PER_RANK
    BY <2>1 DEF Copying, Buffers, Shared
  <2> QED BY <2>2, <2>3, TwoSlots
<1>5. mem[s][i % BUFFERS_PER_RANK] = ChunkOf(s, i)
  BY <1>1, <1>2, <1>3, <1>4 DEF Slots
<1> QED BY <1>3, <1>4, <1>5 DEF Whole

\* The last peer has told r of its chunk: r queues the copies out of the slots.
LEMMA UploadKeeps ==
  ASSUME IInv, Shared, NEW r \in Ranks, Within(r), pc[r] = "ready", ~waiting[r], at[r].peer >= Len(PeersNow(r)),
         Upload(r), pc' = [pc EXCEPT ![r] = "chunk"], at' = [at EXCEPT ![r].chunk = @ + 1],
         UNCHANGED <<Group, posted, mem, got, down, chan, waiting>>
  PROVE  IInv'
<1>1. /\ TypeOK /\ Turns /\ Handshake /\ \A q \in Ranks : Agreement(q)
      /\ Counters(r) /\ Slots(r) /\ Uploads(r)
  BY DEF IInv, SharedInv
<1>2. /\ group' = group /\ op' = op /\ asked' = asked /\ broken' = broken /\ dead' = dead /\ faults' = faults
      /\ posted' = posted /\ mem' = mem /\ down' = down /\ got' = got /\ chan' = chan /\ waiting' = waiting
  BY DEF Group
<1>19. PICK k, x : k = at[r].chunk /\ x = at[r].exchange
  OBVIOUS
<1>3. /\ k \in Nat /\ op[r].count \in Nat /\ at[r].acked \in Nat /\ at[r].uploaded \in Nat /\ Calls(r) \in Nat
  BY <1>19, AtWork
<1>4. /\ up' = IF Receiving(r) THEN [up EXCEPT ![r] = Append(up[r], Reads(r, k))] ELSE up
  BY <1>19 DEF Upload, Reads, Lane, Buffers, Shared
<1>5. /\ pc'[r] = "chunk" /\ at'[r] = [at[r] EXCEPT !.chunk = k + 1]
      /\ at'[r].exchange = x /\ at'[r].chunk = k + 1 /\ at'[r].acked = at[r].acked
      /\ at'[r].uploaded = at[r].uploaded /\ at'[r].peer = at[r].peer
      /\ up'[r] = IF Receiving(r) THEN Append(up[r], Reads(r, k)) ELSE up[r]
      /\ \A q \in Ranks \ {r} : pc'[q] = pc[q] /\ at'[q] = at[q] /\ up'[q] = up[q]
  BY <1>1, <1>4, <1>19 DEF TypeOK
<1>6. \A q \in Ranks \ {r} : Same(q)
  BY <1>2, <1>5 DEF Same
<1>7. /\ PeersNow(r)' = PeersNow(r) /\ Calls(r)' = Calls(r)
      /\ Begun(r)' /\ Within(r)' /\ ~Past(r)' /\ Begun(r)
      /\ (Sending(r)' <=> Sending(r)) /\ (Receiving(r)' <=> Receiving(r))
      /\ \A i : ChunkOf(r, i)' = ChunkOf(r, i)
      /\ \A i : Reads(r, i)' = Reads(r, i)
      /\ \A c, y : (Beyond(r, c, y)' <=> Beyond(r, c, y)) /\ (In(r, c, y)' <=> In(r, c, y))
      /\ \A c, o : Agreed(c, o)' <=> Agreed(c, o)
  BY <1>1, <1>2, <1>5, <1>19, Stays, AtWork
<1>8. /\ k < op[r].count /\ Window(r, k) /\ at[r].acked <= k /\ at[r].uploaded <= k
      /\ k + 1 <= at[r].acked + BUFFERS_PER_RANK
      /\ Receiving(r) => at[r].acked <= at[r].uploaded
  BY <1>1, <1>3, <1>19 DEF Counters, Window, BUFFERS_PER_RANK
<1>9. Agreement(r)'
  BY <1>1, <1>2, <1>5, <1>7, GroupFixed DEF Agreement, Calls
<1>10. Counters(r)'
  BY <1>2, <1>3, <1>5, <1>7, <1>8 DEF Counters
<1>11. Slots(r)'
  <2>1. \A i : Window(r, i)' <=> Window(r, i)
    BY <1>5 DEF Window
  <2>2. \A i : Copying(op[r], Calls(r), at[r].exchange, r, i, 0)' = Copying(op[r], Calls(r), at[r].exchange, r, i, 0)
    BY <1>2, <1>5, <1>7, <1>19, GroupFixed
  <2>3. CASE Sending(r)
    <3>1. Whole(r, k)
      BY <1>3, <1>8, <1>19, <2>3, StillWhole
    <3>2. ASSUME NEW j \in DOMAIN down[r]
          PROVE  \E i \in k + 1 .. op[r].count - 1 :
                   Window(r, i) /\ down[r][j] = Copying(op[r], Calls(r), at[r].exchange, r, i, 0)
      <4>1. PICK i \in k .. op[r].count - 1 :
              /\ Window(r, i) /\ i # k
              /\ down[r][j] = Copying(op[r], Calls(r), at[r].exchange, r, i, 0)
        BY <1>1, <1>19, <2>3 DEF Slots
      <4> QED BY <1>3, <4>1
    <3>3. ASSUME NEW i \in at[r].acked .. op[r].count - 1, Window(r, i)
          PROVE  \/ i >= k + 1 /\ \E j \in DOMAIN down[r] : down[r][j].lane = i % BUFFERS_PER_RANK
                 \/ mem[r][i % BUFFERS_PER_RANK] = ChunkOf(r, i)
      <4>1. CASE i = k
        BY <3>1, <4>1 DEF Whole
      <4>2. CASE i # k
        BY <1>1, <1>3, <1>19, <2>3, <3>3, <4>2 DEF Slots
      <4> QED BY <4>1, <4>2
    <3> QED BY <1>2, <1>5, <1>7, <2>1, <2>2, <2>3, <3>2, <3>3 DEF Slots
  <2>4. CASE ~Sending(r)
    BY <1>1, <1>2, <1>7, <2>4 DEF Slots
  <2> QED BY <2>3, <2>4
<1>12. Uploads(r)'
  <2>1. Fetched(r)' = Fetched(r)
    BY <1>2, <1>5, <1>7, <1>19, GroupFixed DEF Fetched, Flows
  <2>2. got'[r] = Fetched(r)'
    BY <1>1, <1>2, <2>1 DEF Uploads
  <2>3. CASE Receiving(r)
    <3>1. PICK u, n : u = up[r] /\ n = at[r].uploaded
      OBVIOUS
    <3>2. Len(u) = k - n /\ \A j \in DOMAIN u : u[j] = Reads(r, n + j - 1)
      BY <1>1, <1>19, <2>3, <3>1 DEF Uploads
    <3>3. u \in Seq(SUBSET [rank : Ranks, lane : Lanes, tag : Tags])
      BY <1>1, <3>1 DEF TypeOK
    <3>4. PICK v : v = Append(u, Reads(r, k))
      OBVIOUS
    <3>5. PICK S : S = {Reads(r, k)} \cup SUBSET [rank : Ranks, lane : Lanes, tag : Tags]
      OBVIOUS
    <3>6. /\ Len(v) = Len(u) + 1 /\ DOMAIN v = 1 .. Len(u) + 1 /\ DOMAIN u = 1 .. Len(u) /\ Len(u) \in Nat
          /\ v[Len(u) + 1] = Reads(r, k) /\ \A j \in 1 .. Len(u) : v[j] = u[j]
      <4>1. u \in Seq(S) /\ Reads(r, k) \in S
        BY <3>3, <3>5
      <4> QED BY <3>4, <4>1, AppendProperties
    <3>7. ASSUME NEW j \in DOMAIN v
          PROVE  v[j] = Reads(r, n + j - 1)
      <4>1. n \in Nat /\ n <= k
        BY <1>3, <1>8, <3>1
      <4>2. CASE j \in 1 .. Len(u)
        BY <3>2, <3>6, <4>2
      <4>3. CASE j = Len(u) + 1
        BY <1>3, <3>2, <3>6, <4>1, <4>3
      <4> QED BY <3>6, <4>2, <4>3
    <3>8. up'[r] = v /\ Len(v) = k + 1 - n /\ at'[r].uploaded = n /\ at'[r].chunk = k + 1
      <4>1. up'[r] = v
        BY <1>5, <2>3, <3>1, <3>4
      <4>2. n \in Nat /\ at'[r].uploaded = n
        BY <1>3, <1>5, <3>1
      <4>3. at'[r].chunk = k + 1
        BY <1>5
      <4> QED BY <4>3, <1>3, <3>2, <3>6, <4>1, <4>2
    <3>9. \A j \in DOMAIN v : v[j] = Reads(r, n + j - 1)'
      BY <1>7, <3>7
    <3>10. Len(up'[r]) = at'[r].chunk - at'[r].uploaded
      <4>1. k \in Nat /\ n \in Nat
        BY <1>3, <3>1
      <4> QED BY <3>8, <4>1
    <3>11. \A j \in DOMAIN up'[r] : up'[r][j] = Reads(r, at[r].uploaded + j - 1)'
      BY <3>8, <3>9
    <3> QED BY <1>5, <1>7, <2>2, <2>3, <3>10, <3>11 DEF Uploads
  <2>4. CASE ~Receiving(r)
    BY <1>1, <1>5, <1>7, <2>2, <2>4 DEF Uploads
  <2> QED BY <2>3, <2>4
<1>13. ASSUME NEW q \in Ranks, NEW i \in Nat
       PROVE  /\ Flows(op[r], r, q) /\ Told(op[r], Calls(r), r, q, i) => Told(op[r], Calls(r), r, q, i)'
              /\ Freed(op[r], Calls(r), q, r, i) <=> Freed(op[r], Calls(r), q, r, i)'
              /\ Flows(op[r], q, r) /\ Known(op[r], Calls(r), q, r, i)' => Known(op[r], Calls(r), q, r, i)
              /\ Acknowledged(op[r], Calls(r), r, q, i) <=> Acknowledged(op[r], Calls(r), r, q, i)'
  <2>1. /\ Outward(op[r], r, q)' = Outward(op[r], r, q) /\ Inward(op[r], q, r)' = Inward(op[r], q, r)
        /\ Place(op[r], r, q)' = Place(op[r], r, q) /\ Place(op[r], q, r)' = Place(op[r], q, r)
    BY <1>2, GroupFixed
  <2>2. Flows(op[r], r, q) /\ Told(op[r], Calls(r), r, q, i) => Told(op[r], Calls(r), r, q, i)'
    BY <1>2, <1>3, <1>5, <1>7, <1>19, <2>1 DEF Told
  <2>3. Freed(op[r], Calls(r), q, r, i) <=> Freed(op[r], Calls(r), q, r, i)'
    BY <1>2, <1>3, <1>5, <1>7, <1>19, <2>1 DEF Freed
  <2>4. Acknowledged(op[r], Calls(r), r, q, i) <=> Acknowledged(op[r], Calls(r), r, q, i)'
    BY <1>2, <1>3, <1>5, <1>7, <1>19, <2>1 DEF Acknowledged
  <2>5. ASSUME Flows(op[r], q, r), Known(op[r], Calls(r), q, r, i)'
        PROVE  Known(op[r], Calls(r), q, r, i)
    <3>1. CASE x = Inward(op[r], q, r)
      <4>5. PICK pl : pl = Place(op[r], q, r)
        OBVIOUS
      <4>3. pl \in DOMAIN PeersNow(r)
        BY <1>19, <2>5, <3>1, <4>5, AtWork
      <4>1. pl \in 1 .. Len(PeersNow(r)) /\ Len(PeersNow(r)) \in Nat /\ at[r].peer \in Nat
        BY <4>3, AtWork
      <4>2. HeardFrom(r, pl)
        BY <4>1 DEF HeardFrom
      <4> QED BY <1>2, <1>3, <1>5, <1>7, <1>19, <2>1, <2>5, <4>2, <4>5 DEF Known
    <3>2. CASE x # Inward(op[r], q, r)
      BY <1>2, <1>7, <1>19, <2>1, <2>5, <3>2 DEF Known, In
    <3> QED BY <3>1, <3>2
  <2> QED BY <2>2, <2>3, <2>4, <2>5
<1>14. Goes(r) /\ Learns(r)
  <2>1. \A i \in 0 .. op[r].count - 1 : i \in Nat
    BY <1>3
  <2> QED BY <1>2, <1>6, <1>13, <2>1 DEF Goes, Learns
<1>17. Handshake'
  BY <1>2, <1>7, <1>13, <1>14, HandshakeKept
<1>18. TypeOK'
  <2>1. /\ pc' \in [Ranks -> {"idle", "metadata", "chunk", "ready", "free", "gloo", "drain", "failed"}]
    BY <1>1 DEF TypeOK
  <2>2. at' \in [Ranks -> [exchange : Nat, chunk : Nat, acked : Nat, peer : Nat \ {0}, uploaded : Nat]]
    <3>1. at[r] \in [exchange : Nat, chunk : Nat, acked : Nat, peer : Nat \ {0}, uploaded : Nat]
      BY <1>1 DEF TypeOK
    <3>2. [at[r] EXCEPT !.chunk = k + 1] \in [exchange : Nat, chunk : Nat, acked : Nat, peer : Nat \ {0}, uploaded : Nat]
      BY <1>3, <3>1
    <3>3. at' = [at EXCEPT ![r] = [at[r] EXCEPT !.chunk = k + 1]]
      BY <1>19
    <3> QED BY <1>1, <3>2, <3>3 DEF TypeOK
  <2>3. up' \in [Ranks -> Seq(SUBSET [rank : Ranks, lane : Lanes, tag : Tags])]
    <3>1. up \in [Ranks -> Seq(SUBSET [rank : Ranks, lane : Lanes, tag : Tags])]
      BY <1>1 DEF TypeOK
    <3>2. ASSUME Receiving(r)
          PROVE  Reads(r, k) \in SUBSET [rank : Ranks, lane : Lanes, tag : Tags]
      <4>1. k % BUFFERS_PER_RANK \in Lanes
        BY <1>1, <1>3, LanesAre DEF TypeOK
      <4>2. Addressee(op[r], r) \in Int /\ \A q \in Ranks : q \in Int
        BY <1>1, Sizes DEF Addressee, All
      <4>3. \A q \in Ranks : Chunk(Calls(r), q, Addressee(op[r], r), k) \in Tags
        BY <1>1, <1>3, <4>2, ChunkType
      <4> QED BY <3>2, <4>1, <4>3, AtWork DEF Reads
    <3>3. CASE Receiving(r)
      <4>1. Append(up[r], Reads(r, k)) \in Seq(SUBSET [rank : Ranks, lane : Lanes, tag : Tags])
        BY <3>1, <3>2, <3>3, AppendProperties
      <4> QED BY <1>4, <3>1, <3>3, <4>1
    <3> QED BY <1>4, <3>1, <3>3
  <2> QED BY <1>1, <1>2, <2>1, <2>2, <2>3, GroupFixed DEF TypeOK
<1> QED BY <1>5, <1>9, <1>10, <1>11, <1>12, <1>14, <1>17, <1>18, SharedStep

\* The last peer has given its chunk back: r queues the next chunk's copy into the slot.
LEMMA DownloadKeeps ==
  ASSUME IInv, Shared, NEW r \in Ranks, Within(r), pc[r] = "free", ~waiting[r], at[r].peer >= Len(PeersNow(r)),
         IF at[r].chunk = op[r].count THEN UNCHANGED down
         ELSE Download(op[r], Calls(r), at[r].exchange, r, at[r].chunk, 0),
         pc' = [pc EXCEPT ![r] = "chunk"], at' = [at EXCEPT ![r].acked = @ + 1],
         UNCHANGED <<Group, posted, mem, got, up, chan, waiting>>
  PROVE  IInv'
<1>1. /\ TypeOK /\ Turns /\ Handshake /\ \A q \in Ranks : Agreement(q)
      /\ Counters(r) /\ Slots(r) /\ Uploads(r)
  BY DEF IInv, SharedInv
<1>2. /\ group' = group /\ op' = op /\ asked' = asked /\ broken' = broken /\ dead' = dead /\ faults' = faults
      /\ posted' = posted /\ mem' = mem /\ up' = up /\ got' = got /\ chan' = chan /\ waiting' = waiting
  BY DEF Group
<1>19. PICK k, x, n, e :
         /\ k = at[r].acked /\ x = at[r].exchange /\ n = at[r].chunk
         /\ e = Copying(op[r], Calls(r), x, r, n, 0)
  OBVIOUS
<1>3. /\ k \in Nat /\ op[r].count \in Nat /\ n \in Nat /\ at[r].uploaded \in Nat /\ Calls(r) \in Nat
      /\ op[r] \in Ops /\ x \in DOMAIN Exchanges(op[r], r)
  BY <1>19, AtWork DEF Within
<1>4. down' = IF n # op[r].count /\ Sending(r) THEN [down EXCEPT ![r] = Append(down[r], e)] ELSE down
  BY <1>19, AtWork DEF Download
<1>5. /\ pc'[r] = "chunk" /\ at'[r] = [at[r] EXCEPT !.acked = k + 1]
      /\ at'[r].exchange = x /\ at'[r].chunk = n /\ at'[r].acked = k + 1
      /\ at'[r].uploaded = at[r].uploaded /\ at'[r].peer = at[r].peer
      /\ down'[r] = IF n # op[r].count /\ Sending(r) THEN Append(down[r], e) ELSE down[r]
      /\ \A q \in Ranks \ {r} : pc'[q] = pc[q] /\ at'[q] = at[q] /\ down'[q] = down[q]
  BY <1>1, <1>4, <1>19 DEF TypeOK
<1>6. \A q \in Ranks \ {r} : Same(q)
  BY <1>2, <1>5 DEF Same
<1>7. /\ PeersNow(r)' = PeersNow(r) /\ Calls(r)' = Calls(r)
      /\ Begun(r)' /\ Within(r)' /\ ~Past(r)' /\ Begun(r)
      /\ (Sending(r)' <=> Sending(r)) /\ (Receiving(r)' <=> Receiving(r))
      /\ \A i : ChunkOf(r, i)' = ChunkOf(r, i)
      /\ \A i : Reads(r, i)' = Reads(r, i)
      /\ \A c, y : (Beyond(r, c, y)' <=> Beyond(r, c, y)) /\ (In(r, c, y)' <=> In(r, c, y))
      /\ \A c, o : Agreed(c, o)' <=> Agreed(c, o)
  BY <1>1, <1>2, <1>5, <1>19, Stays, AtWork
<1>8. /\ k < n /\ n <= op[r].count /\ n <= k + BUFFERS_PER_RANK /\ at[r].uploaded <= n
      /\ n = op[r].count \/ n = k + BUFFERS_PER_RANK
      /\ Receiving(r) => k < at[r].uploaded
  <2>1. /\ k < n /\ n <= op[r].count /\ n <= k + BUFFERS_PER_RANK /\ at[r].uploaded <= n
        /\ n = op[r].count \/ ~Window(r, n)
        /\ Receiving(r) => k < at[r].uploaded
    BY <1>1, <1>19 DEF Counters
  <2> QED BY <1>3, <1>19, <2>1 DEF Window, BUFFERS_PER_RANK
<1>9. Agreement(r)'
  BY <1>1, <1>2, <1>5, <1>7, GroupFixed DEF Agreement, Calls
<1>10. Counters(r)'
  BY <1>2, <1>3, <1>5, <1>7, <1>8 DEF Counters, BUFFERS_PER_RANK
<1>11. Slots(r)'
  <2>1. \A i : Window(r, i)' <=> i < k + 1 + BUFFERS_PER_RANK
    BY <1>5 DEF Window
  <2>2. \A i : Copying(op[r], Calls(r), x, r, i, 0)' = Copying(op[r], Calls(r), x, r, i, 0)
    BY <1>2, <1>5, <1>7, <1>19, GroupFixed
  <2>3. CASE Sending(r)
    <3>1. ASSUME NEW j \in DOMAIN down[r]
          PROVE  FALSE
      <4>1. PICK i \in n .. op[r].count - 1 : Window(r, i)
        BY <1>1, <1>19, <2>3 DEF Slots
      <4> QED BY <1>3, <1>8, <1>19, <4>1 DEF Window
    <3>2. down[r] = <<>> /\ DOMAIN down[r] = {}
      <4>1. down[r] \in Seq([lane : Lanes, tag : Tags, after : Nat, writes : BOOLEAN])
        BY <1>1 DEF TypeOK
      <4>2. down[r] # <<>> => 1 \in DOMAIN down[r]
        BY <4>1, EmptySeq, LenProperties
      <4> QED BY <3>1, <4>2
    <3>3. ASSUME NEW i \in k + 1 .. op[r].count - 1, i < n
          PROVE  mem[r][i % BUFFERS_PER_RANK] = ChunkOf(r, i)
      <4>1. i \in at[r].acked .. op[r].count - 1 /\ Window(r, i)
        <5>1. i \in Nat /\ i < k + BUFFERS_PER_RANK
          BY <1>3, <1>8, <3>3 DEF BUFFERS_PER_RANK
        <5>2. i \in k .. op[r].count - 1
          BY <1>3, <3>3
        <5> QED BY <1>19, <5>1, <5>2 DEF Window
      <4> QED BY <1>1, <2>3, <3>2, <4>1 DEF Slots
    <3>4. CASE n = op[r].count
      <4>1. down'[r] = <<>> /\ DOMAIN down'[r] = {}
        BY <1>5, <3>2, <3>4
      <4>2. \A i \in k + 1 .. op[r].count - 1 : i < n
        BY <1>3, <3>4
      <4> QED BY <1>2, <1>5, <1>7, <2>3, <3>3, <4>1, <4>2 DEF Slots
    <3>5. CASE n # op[r].count
      <4>1. PICK v : v = <<e>>
        OBVIOUS
      <4>2. down'[r] = v /\ DOMAIN v = {1} /\ v[1] = e
        BY <1>5, <2>3, <3>2, <3>5, <4>1
      <4>3. n = k + BUFFERS_PER_RANK /\ n < op[r].count
        BY <1>3, <1>8, <3>5
      <4>4. e.lane = n % BUFFERS_PER_RANK
        BY <1>19 DEF Copying, Buffers, Shared
      <4>5. \A j \in DOMAIN v : v[j] = Copying(op[r], Calls(r), x, r, n, 0)'
        BY <1>19, <2>2, <4>2
      <4>6. \A i \in k + 1 .. op[r].count - 1 : i < k + 1 + BUFFERS_PER_RANK => i = n \/ i < n
        BY <1>3, <4>3 DEF BUFFERS_PER_RANK
      <4>7. n \in n .. op[r].count - 1 /\ n < k + 1 + BUFFERS_PER_RANK
        BY <1>3, <4>3 DEF BUFFERS_PER_RANK
      <4>8. \A j \in DOMAIN down'[r] : \E i \in n .. op[r].count - 1 :
              Window(r, i)' /\ down'[r][j] = Copying(op[r], Calls(r), x, r, i, 0)'
        BY <2>1, <4>2, <4>5, <4>7
      <4>9. \A i \in k + 1 .. op[r].count - 1 : Window(r, i)' =>
              \/ i >= n /\ \E j \in DOMAIN down'[r] : down'[r][j].lane = i % BUFFERS_PER_RANK
              \/ mem[r][i % BUFFERS_PER_RANK] = ChunkOf(r, i)'
        BY <1>3, <1>7, <2>1, <3>3, <4>2, <4>4, <4>6
      <4> QED BY <1>2, <1>5, <1>7, <2>3, <4>8, <4>9 DEF Slots
    <3> QED BY <3>4, <3>5
  <2>4. CASE ~Sending(r)
    BY <1>1, <1>5, <1>7, <2>4 DEF Slots
  <2> QED BY <2>3, <2>4
<1>12. Uploads(r)'
  <2>1. Fetched(r)' = Fetched(r)
    BY <1>2, <1>5, <1>7, <1>19, GroupFixed DEF Fetched, Flows
  <2> QED BY <1>1, <1>2, <1>5, <1>7, <1>19, <2>1 DEF Uploads
<1>13. ASSUME NEW q \in Ranks, NEW i \in Nat
       PROVE  /\ Told(op[r], Calls(r), r, q, i) <=> Told(op[r], Calls(r), r, q, i)'
              /\ Flows(op[r], q, r) /\ Freed(op[r], Calls(r), q, r, i) => Freed(op[r], Calls(r), q, r, i)'
              /\ Known(op[r], Calls(r), q, r, i)' <=> Known(op[r], Calls(r), q, r, i)
              /\ Flows(op[r], r, q) /\ Acknowledged(op[r], Calls(r), r, q, i)' => Acknowledged(op[r], Calls(r), r, q, i)
  <2>1. /\ Outward(op[r], r, q)' = Outward(op[r], r, q) /\ Inward(op[r], q, r)' = Inward(op[r], q, r)
        /\ Place(op[r], r, q)' = Place(op[r], r, q) /\ Place(op[r], q, r)' = Place(op[r], q, r)
    BY <1>2, GroupFixed
  <2>2. Flows(op[r], q, r) /\ Freed(op[r], Calls(r), q, r, i) => Freed(op[r], Calls(r), q, r, i)'
    BY <1>2, <1>3, <1>5, <1>7, <1>19, <2>1 DEF Freed
  <2>3. Told(op[r], Calls(r), r, q, i) <=> Told(op[r], Calls(r), r, q, i)'
    BY <1>2, <1>3, <1>5, <1>7, <1>19, <2>1 DEF Told
  <2>4. Known(op[r], Calls(r), q, r, i) <=> Known(op[r], Calls(r), q, r, i)'
    BY <1>2, <1>3, <1>5, <1>7, <1>19, <2>1 DEF Known
  <2>5. ASSUME Flows(op[r], r, q), Acknowledged(op[r], Calls(r), r, q, i)'
        PROVE  Acknowledged(op[r], Calls(r), r, q, i)
    <3>1. CASE x = Outward(op[r], r, q)
      <4>5. PICK pl : pl = Place(op[r], r, q)
        OBVIOUS
      <4>3. pl \in DOMAIN PeersNow(r)
        BY <1>19, <2>5, <3>1, <4>5, AtWork
      <4>1. pl \in 1 .. Len(PeersNow(r)) /\ Len(PeersNow(r)) \in Nat /\ at[r].peer \in Nat
        BY <4>3, AtWork
      <4>2. HeardFrom(r, pl)
        BY <4>1 DEF HeardFrom
      <4> QED BY <1>2, <1>3, <1>5, <1>7, <1>19, <2>1, <2>5, <4>2, <4>5 DEF Acknowledged
    <3>2. CASE x # Outward(op[r], r, q)
      BY <1>2, <1>7, <1>19, <2>1, <2>5, <3>2 DEF Acknowledged, In
    <3> QED BY <3>1, <3>2
  <2> QED BY <2>2, <2>3, <2>4, <2>5
<1>14. Goes(r) /\ Learns(r)
  <2>1. \A i \in 0 .. op[r].count - 1 : i \in Nat
    BY <1>3
  <2> QED BY <1>2, <1>6, <1>13, <2>1 DEF Goes, Learns
<1>17. Handshake'
  BY <1>2, <1>7, <1>13, <1>14, HandshakeKept
<1>18. TypeOK'
  <2>1. /\ pc' \in [Ranks -> {"idle", "metadata", "chunk", "ready", "free", "gloo", "drain", "failed"}]
    BY <1>1 DEF TypeOK
  <2>2. at' \in [Ranks -> [exchange : Nat, chunk : Nat, acked : Nat, peer : Nat \ {0}, uploaded : Nat]]
    <3>1. at[r] \in [exchange : Nat, chunk : Nat, acked : Nat, peer : Nat \ {0}, uploaded : Nat]
      BY <1>1 DEF TypeOK
    <3>2. [at[r] EXCEPT !.acked = k + 1] \in [exchange : Nat, chunk : Nat, acked : Nat, peer : Nat \ {0}, uploaded : Nat]
      BY <1>3, <3>1
    <3>3. at' = [at EXCEPT ![r] = [at[r] EXCEPT !.acked = k + 1]]
      BY <1>19
    <3> QED BY <1>1, <3>2, <3>3 DEF TypeOK
  <2>3. down' \in [Ranks -> Seq([lane : Lanes, tag : Tags, after : Nat, writes : BOOLEAN])]
    <3>1. down \in [Ranks -> Seq([lane : Lanes, tag : Tags, after : Nat, writes : BOOLEAN])]
      BY <1>1 DEF TypeOK
    <3>2. e \in [lane : Lanes, tag : Tags, after : Nat, writes : BOOLEAN]
      BY <1>1, <1>3, <1>19, CopyingType
    <3>3. Append(down[r], e) \in Seq([lane : Lanes, tag : Tags, after : Nat, writes : BOOLEAN])
      BY <3>1, <3>2, AppendProperties
    <3> QED BY <1>4, <3>1, <3>3
  <2> QED BY <1>1, <1>2, <2>1, <2>2, <2>3, GroupFixed DEF TypeOK
<1> QED BY <1>5, <1>9, <1>10, <1>11, <1>12, <1>14, <1>17, <1>18, SharedStep

\* A signal heard leaves the others on its channel.
LEMMA ReadyTail ==
  ASSUME IInv, Shared, NEW r \in Ranks, Goes(r), Begun(r) => Begun(r)', NEW s \in Ranks,
         chan[s][r][0] # <<>>, chan'[s][r][0] = Tail(chan[s][r][0]), NEW h, h = Head(chan[s][r][0]),
         \A i \in Nat : h < i /\ Flows(op[r], s, r) /\ i < op[r].count
           /\ Known(op[r], Calls(r), s, r, i)' => Known(op[r], Calls(r), s, r, i)
  PROVE  ReadySignals(s, r)'
<1>1. /\ TypeOK /\ Turns /\ Handshake /\ \A q \in Ranks : Agreement(q)
  BY DEF IInv, SharedInv
<1>2. PICK f, g : f = chan[s][r][0] /\ g = Tail(f) /\ h = Head(f)
  OBVIOUS
<1>3. f \in Seq(Nat) /\ f # <<>> /\ Increasing(f)
  BY <1>1, <1>2 DEF TypeOK, Handshake, ReadySignals
<1>4. /\ g \in Seq(Nat) /\ Increasing(g) /\ Head(f) \in Nat
      /\ \A j \in DOMAIN g : Head(f) < g[j] /\ \E l \in DOMAIN f : g[j] = f[l]
  BY <1>2, <1>3, FewerSignals
<1>5. \A j \in DOMAIN g : \E l \in DOMAIN chan[s][r][0] : g[j] = chan[s][r][0][l]
  BY <1>2, <1>4
<1>6. ASSUME NEW j \in DOMAIN g, Flows(op[r], s, r), g[j] < op[r].count, Known(op[r], Calls(r), s, r, g[j])'
      PROVE  Known(op[r], Calls(r), s, r, g[j])
  <2>1. g[j] \in Nat /\ h < g[j]
    <3>1. h < g[j]
      BY <1>2, <1>4
    <3>2. g[j] \in Nat
      BY <1>4
    <3> QED BY <3>1, <3>2
  <2> QED BY <1>6, <2>1
<1>7. chan'[s][r][0] = g
  BY <1>2
<1> QED BY <1>1, <1>4, <1>5, <1>6, <1>7, ReadyKept

\* Hearing a free signal leaves the later ones unheard.
LEMMA FreeTail ==
  ASSUME IInv, Shared, NEW r \in Ranks, Goes(r), Begun(r) => Begun(r)', NEW d \in Ranks,
         chan[d][r][1] # <<>>, chan'[d][r][1] = Tail(chan[d][r][1]), NEW h, h = Head(chan[d][r][1]),
         \A i \in Nat : h < i /\ Flows(op[r], r, d) /\ i < op[r].count
           /\ Acknowledged(op[r], Calls(r), r, d, i)' => Acknowledged(op[r], Calls(r), r, d, i)
  PROVE  FreeSignals(r, d)'
<1>1. /\ TypeOK /\ Turns /\ Handshake /\ \A q \in Ranks : Agreement(q)
  BY DEF IInv, SharedInv
<1>2. PICK f, g : f = chan[d][r][1] /\ g = Tail(f) /\ h = Head(f)
  OBVIOUS
<1>3. f \in Seq(Nat) /\ f # <<>> /\ Increasing(f)
  BY <1>1, <1>2 DEF TypeOK, Handshake, FreeSignals
<1>4. /\ g \in Seq(Nat) /\ Increasing(g) /\ Head(f) \in Nat
      /\ \A j \in DOMAIN g : Head(f) < g[j] /\ \E l \in DOMAIN f : g[j] = f[l]
  BY <1>2, <1>3, FewerSignals
<1>5. \A j \in DOMAIN g : \E l \in DOMAIN chan[d][r][1] : g[j] = chan[d][r][1][l]
  BY <1>2, <1>4
<1>6. ASSUME NEW j \in DOMAIN g, Flows(op[r], r, d), g[j] < op[r].count, Acknowledged(op[r], Calls(r), r, d, g[j])'
      PROVE  Acknowledged(op[r], Calls(r), r, d, g[j])
  <2>1. g[j] \in Nat /\ h < g[j]
    <3>1. h < g[j]
      BY <1>2, <1>4
    <3>2. g[j] \in Nat
      BY <1>4
    <3> QED BY <3>1, <3>2
  <2> QED BY <1>6, <2>1
<1>7. chan'[d][r][1] = g
  BY <1>2
<1> QED BY <1>1, <1>4, <1>5, <1>6, <1>7, FreeKept

\* Rank r stops: its exchange fails, or it has nothing left to do, or is shut down.  It may
\* have taken a signal off a channel.
LEMMA StopKeeps ==
  ASSUME IInv, Shared, NEW r \in Ranks, TypeOK', \A q \in Ranks \ {r} : Same(q),
         UNCHANGED <<group, op, asked, at, mem, down, up, got>>,
         \/ pc[r] \in {"ready", "free"} /\ pc'[r] = "failed" /\ (dead'[r] \/ broken'[r])
         \/ pc[r] \in {"drain", "failed"} /\ pc'[r] = "idle" /\ dead'[r] = dead[r] /\ broken'[r] = broken[r]
         \/ /\ pc[r] = "metadata" /\ pc'[r] = "idle"
            /\ dead'[r] \/ ((\A q \in Ranks : Calls(q) >= Calls(r)) /\ ~Agreed(Calls(r), op[r]))
         \/ pc[r] = "idle" /\ pc'[r] = "idle" /\ dead'[r],
         pc'[r] = "idle" => down[r] = <<>> /\ up[r] = <<>>,
         \A s, d \in Ranks, t \in {0, 1} :
           \/ chan'[s][d][t] = chan[s][d][t]
           \/ d = r /\ chan[s][r][t] # <<>> /\ chan'[s][r][t] = Tail(chan[s][r][t])
  PROVE  IInv'
<1>1. /\ TypeOK /\ Turns /\ Handshake /\ \A q \in Ranks : Agreement(q)
      /\ Counters(r) /\ Slots(r) /\ Uploads(r)
  BY DEF IInv, SharedInv
<1>2. /\ group' = group /\ op' = op /\ asked' = asked /\ at' = at
      /\ mem' = mem /\ down' = down /\ up' = up /\ got' = got
  OBVIOUS
<1>7. /\ PeersNow(r)' = PeersNow(r) /\ Calls(r)' = Calls(r)
      /\ (Begun(r)' <=> Begun(r)) /\ (Past(r)' <=> Past(r)) /\ (Within(r)' <=> Within(r))
      /\ (Sending(r)' <=> Sending(r)) /\ (Receiving(r)' <=> Receiving(r))
      /\ \A i : ChunkOf(r, i)' = ChunkOf(r, i)
      /\ \A i : Reads(r, i)' = Reads(r, i)
      /\ \A c, x : (Beyond(r, c, x)' <=> Beyond(r, c, x)) /\ (In(r, c, x)' <=> In(r, c, x))
      /\ \A c, o : Agreed(c, o)' <=> Agreed(c, o)
  BY <1>1, <1>2, Stays
<1>8. /\ Ranks' = Ranks /\ \A q : Calls(q)' = Calls(q)
      /\ \A i : Window(r, i)' <=> Window(r, i)
      /\ \A c, x, i : Copying(op[r], c, x, r, i, 0)' = Copying(op[r], c, x, r, i, 0)
      /\ \A i : Whole(r, i)' <=> Whole(r, i)
  BY <1>2, <1>7, GroupFixed DEF Calls, Window, Whole
<1>9. Agreement(r)'
  <2>1. CASE pc[r] \in {"ready", "free"}
    BY <1>1, <1>2, <1>7, <1>8, <2>1 DEF Agreement
  <2>2. CASE pc[r] \in {"drain", "failed"}
    BY <1>1, <1>2, <1>7, <1>8, <2>2 DEF Agreement, Agreed
  <2>3. CASE pc[r] = "metadata"
    BY <1>1, <1>2, <1>7, <1>8, <2>3 DEF Agreement
  <2>4. CASE pc[r] = "idle"
    BY <1>1, <1>2, <1>7, <1>8, <2>4 DEF Agreement
  <2> QED BY <2>1, <2>2, <2>3, <2>4
<1>10. Counters(r)'
  BY <1>1, <1>2, <1>7, <1>8 DEF Counters
<1>11. Slots(r)'
  <2>1. pc'[r] # "ready"
    OBVIOUS
  <2> QED BY <1>1, <1>2, <1>7, <1>8, <2>1 DEF Slots
<1>12. Uploads(r)'
  <2>1. pc'[r] \notin {"metadata", "chunk", "ready", "free", "drain"}
    OBVIOUS
  <2> QED BY <1>1, <1>2, <1>7, <2>1 DEF Uploads
<1>13. ASSUME NEW q \in Ranks, NEW i \in Nat, i < op[r].count
       PROVE  /\ Flows(op[r], r, q) /\ Told(op[r], Calls(r), r, q, i) => Told(op[r], Calls(r), r, q, i)'
              /\ Flows(op[r], q, r) /\ Freed(op[r], Calls(r), q, r, i) => Freed(op[r], Calls(r), q, r, i)'
              /\ Known(op[r], Calls(r), q, r, i)' => Known(op[r], Calls(r), q, r, i)
              /\ Acknowledged(op[r], Calls(r), r, q, i)' => Acknowledged(op[r], Calls(r), r, q, i)
  <2>1. /\ Outward(op[r], r, q)' = Outward(op[r], r, q) /\ Inward(op[r], q, r)' = Inward(op[r], q, r)
        /\ Place(op[r], r, q)' = Place(op[r], r, q) /\ Place(op[r], q, r)' = Place(op[r], q, r)
    BY <1>2, GroupFixed
  <2>2. ASSUME Flows(op[r], r, q), Told(op[r], Calls(r), r, q, i)
        PROVE  Told(op[r], Calls(r), r, q, i)'
    <3>1. CASE pc[r] = "ready" /\ In(r, Calls(r), Outward(op[r], r, q)) /\ at[r].chunk = i
      <4>1. Within(r)
        BY <1>1, <3>1 DEF Agreement
      <4>2. Sending(r) /\ at[r].acked <= i
        BY <1>1, <2>2, <3>1, <4>1, AtWork DEF In, Counters
      <4>3. Whole(r, i)
        BY <1>13, <3>1, <4>1, <4>2, StillWhole
      <4>4. pc'[r] = "failed"
        BY <3>1
      <4> QED BY <1>2, <1>7, <1>8, <2>1, <3>1, <4>3, <4>4 DEF Told
    <3>2. CASE Beyond(r, Calls(r), Outward(op[r], r, q)) \/ at[r].chunk # i
      BY <1>2, <1>7, <2>1, <2>2, <3>2 DEF Told
    <3>3. CASE pc[r] # "ready"
      <4>1. pc[r] \notin {"ready", "chunk", "free"} => pc'[r] \notin {"ready", "chunk", "free"}
        OBVIOUS
      <4> QED BY <1>2, <1>7, <1>8, <2>1, <2>2, <3>3, <4>1 DEF Told
    <3> QED BY <2>2, <3>1, <3>2, <3>3 DEF Told
  <2>3. ASSUME Flows(op[r], q, r), Freed(op[r], Calls(r), q, r, i)
        PROVE  Freed(op[r], Calls(r), q, r, i)'
    <3>1. CASE pc[r] = "free" /\ In(r, Calls(r), Inward(op[r], q, r)) /\ at[r].acked = i
      <4>1. Within(r)
        BY <1>1, <3>1 DEF Agreement
      <4>2. Receiving(r)
        BY <2>3, <3>1, <4>1, AtWork DEF In
      <4>3. at[r].acked < at[r].uploaded /\ at[r].acked \in Nat /\ at[r].uploaded \in Nat
        BY <1>1, <3>1, <4>1, <4>2, AtWork DEF Counters
      <4>4. pc'[r] = "failed"
        BY <3>1
      <4> QED BY <1>2, <1>7, <1>8, <2>1, <3>1, <4>3, <4>4 DEF Freed
    <3>2. CASE Beyond(r, Calls(r), Inward(op[r], q, r)) \/ at[r].acked # i
      BY <1>2, <1>7, <2>1, <2>3, <3>2 DEF Freed
    <3>3. CASE pc[r] # "free"
      <4>1. pc[r] \notin {"ready", "chunk", "free"} => pc'[r] \notin {"ready", "chunk", "free"}
        OBVIOUS
      <4> QED BY <1>2, <1>7, <1>8, <2>1, <2>3, <3>3, <4>1 DEF Freed
    <3> QED BY <2>3, <3>1, <3>2, <3>3 DEF Freed
  <2>4. pc'[r] \notin {"ready", "free"}
    OBVIOUS
  <2>5. Known(op[r], Calls(r), q, r, i)' => Known(op[r], Calls(r), q, r, i)
    BY <1>2, <1>7, <2>1, <2>4 DEF Known
  <2>6. Acknowledged(op[r], Calls(r), r, q, i)' => Acknowledged(op[r], Calls(r), r, q, i)
    BY <1>2, <1>7, <2>1, <2>4 DEF Acknowledged
  <2> QED BY <2>2, <2>3, <2>5, <2>6
<1>14. Goes(r) /\ Learns(r)
  <2>1. \A i \in 0 .. op[r].count - 1 : i \in Nat /\ i < op[r].count
    BY <1>1, CountNat
  <2> QED BY <1>2, <1>13, <2>1 DEF Goes, Learns
<1>15. ASSUME NEW s \in Ranks, NEW d \in Ranks, chan'[s][d][0] # chan[s][d][0]
       PROVE  ReadySignals(s, d)'
  <2>1. d = r /\ chan[s][r][0] # <<>> /\ chan'[s][r][0] = Tail(chan[s][r][0])
    BY <1>15
  <2>2. PICK h : h = Head(chan[s][r][0])
    OBVIOUS
  <2> QED BY <1>7, <1>13, <1>14, <2>1, <2>2, ReadyTail
<1>16. ASSUME NEW s \in Ranks, NEW d \in Ranks, chan'[d][s][1] # chan[d][s][1]
       PROVE  FreeSignals(s, d)'
  <2>1. s = r /\ chan[d][r][1] # <<>> /\ chan'[d][r][1] = Tail(chan[d][r][1])
    BY <1>16
  <2>2. PICK h : h = Head(chan[d][r][1])
    OBVIOUS
  <2> QED BY <1>7, <1>13, <1>14, <2>1, <2>2, FreeTail
<1>17. Handshake'
  BY <1>7, <1>13, <1>14, <1>15, <1>16, HandshakeKept
<1> QED BY <1>2, <1>9, <1>10, <1>11, <1>12, <1>14, <1>17, SharedStep

\* Taking a signal off a channel, or off one of a rank that is not there.
LEMMA TakesSignal ==
  ASSUME IInv, group' = group, NEW r \in Ranks, NEW a \in Ranks \cup {None}, NEW t \in {0, 1},
         chan[a][r][t] # <<>>, chan' = Put(chan, a, r, t, Tail(chan[a][r][t]))
  PROVE  /\ chan' \in [Ranks -> [Ranks -> [{0, 1} -> Seq(Nat)]]]
         /\ a \in Ranks => chan'[a][r][t] = Tail(chan[a][r][t])
         /\ \A s, d \in Ranks, u \in {0, 1} : ~(s = a /\ d = r /\ u = t) => chan'[s][d][u] = chan[s][d][u]
<1>1. TypeOK /\ chan \in [Ranks -> [Ranks -> [{0, 1} -> Seq(Nat)]]]
  BY DEF TypeOK, IInv
<1>2. CASE a \in Ranks
  <2>1. PICK f : f = Tail(chan[a][r][t])
    OBVIOUS
  <2>2. f \in Seq(Nat)
    BY <1>1, <1>2, <2>1, HeadTailProperties
  <2>3. chan' = Put(chan, a, r, t, f)
    BY <2>1
  <2>4. /\ chan' \in [Ranks -> [Ranks -> [{0, 1} -> Seq(Nat)]]]
        /\ chan'[a][r][t] = f
        /\ \A s, d \in Ranks, u \in {0, 1} : ~(s = a /\ d = r /\ u = t) => chan'[s][d][u] = chan[s][d][u]
    <3>1. TypeOK
      BY <1>1
    <3> QED BY <3>1, <1>2, <2>2, <2>3, OneChannel
  <2> QED BY <2>1, <2>4
<1>3. CASE a \notin Ranks
  <2>1. chan' = chan
    BY <1>1, <1>3 DEF Put
  <2> QED BY <1>1, <1>3, <2>1
<1> QED BY <1>2, <1>3

\* The wait for the receive ends with the number of the chunk.
LEMMA HearKeeps ==
  ASSUME IInv, Shared, NEW r \in Ranks, Hear(r),
         Head(chan[Pair(r, at[r].peer, Tag(r))[2]][r][Tag(r)]) = Sequence(r)
  PROVE  IInv'
<1>1. /\ TypeOK /\ Turns /\ Handshake /\ \A q \in Ranks : Agreement(q)
      /\ Counters(r) /\ Slots(r) /\ Uploads(r)
  BY DEF IInv, SharedInv
<1>19. PICK t, p, a : t = Tag(r) /\ p = at[r].peer /\ a = Pair(r, p, t)[2]
  OBVIOUS
<1>2. /\ group' = group /\ op' = op /\ asked' = asked /\ dead' = dead /\ faults' = faults
      /\ posted' = posted /\ mem' = mem /\ down' = down /\ up' = up /\ got' = got
      /\ pc' = pc /\ at' = at /\ waiting' = [waiting EXCEPT ![r] = FALSE]
      /\ pc[r] \in {"ready", "free"} /\ chan[a][r][t] # <<>> /\ Head(chan[a][r][t]) = Sequence(r)
      /\ chan' = Put(chan, a, r, t, Tail(chan[a][r][t]))
  BY <1>19 DEF Hear, Streams, Put
<1>20. broken' = broken
  <2>1. broken' = [broken EXCEPT ![r] = @ \/ FALSE]
    BY <1>2, <1>19 DEF Hear
  <2>2. broken \in [Ranks -> BOOLEAN]
    BY <1>1 DEF TypeOK
  <2> QED BY <2>1, <2>2
<1>3. Within(r)
  BY <1>1, <1>2 DEF Agreement
<1>4. /\ p \in DOMAIN PeersNow(r) /\ a \in Ranks \cup {None} /\ t \in {0, 1}
      /\ pc[r] = "ready" => t = 0 /\ a = PeersNow(r)[p][2]
      /\ pc[r] = "free" => t = 1 /\ a = PeersNow(r)[p][1]
  <2>1. p \in DOMAIN PeersNow(r)
    BY <1>1, <1>2, <1>3, <1>19 DEF Counters
  <2>2. PeersNow(r)[p][1] \in Ranks \cup {None} /\ PeersNow(r)[p][2] \in Ranks \cup {None}
    BY <1>3, <2>1, AtWork
  <2> QED BY <1>2, <1>19, <2>1, <2>2 DEF Pair, Tag
<1>5. /\ chan' \in [Ranks -> [Ranks -> [{0, 1} -> Seq(Nat)]]]
      /\ a \in Ranks => chan'[a][r][t] = Tail(chan[a][r][t])
      /\ \A s, d \in Ranks, u \in {0, 1} : ~(s = a /\ d = r /\ u = t) => chan'[s][d][u] = chan[s][d][u]
  BY <1>2, <1>4, TakesSignal
<1>6. /\ waiting'[r] = FALSE
      /\ \A q \in Ranks \ {r} : Same(q)
  BY <1>1, <1>2, <1>20 DEF Same, TypeOK
<1>7. /\ PeersNow(r)' = PeersNow(r) /\ Calls(r)' = Calls(r)
      /\ (Begun(r)' <=> Begun(r)) /\ (Past(r)' <=> Past(r)) /\ (Within(r)' <=> Within(r))
      /\ (Sending(r)' <=> Sending(r)) /\ (Receiving(r)' <=> Receiving(r))
      /\ \A i : ChunkOf(r, i)' = ChunkOf(r, i)
      /\ \A i : Reads(r, i)' = Reads(r, i)
      /\ \A c, x : (Beyond(r, c, x)' <=> Beyond(r, c, x)) /\ (In(r, c, x)' <=> In(r, c, x))
      /\ \A c, o : Agreed(c, o)' <=> Agreed(c, o)
  BY <1>1, <1>2, Stays
<1>8. /\ Ranks' = Ranks /\ \A q : Calls(q)' = Calls(q)
      /\ \A i : Window(r, i)' <=> Window(r, i)
      /\ \A c, x, i : Copying(op[r], c, x, r, i, 0)' = Copying(op[r], c, x, r, i, 0)
      /\ \A i : Whole(r, i)' <=> Whole(r, i)
      /\ Fetched(r)' = Fetched(r)
  BY <1>2, <1>7, GroupFixed DEF Calls, Window, Whole, Fetched, Flows
<1>9. Agreement(r)'
  BY <1>1, <1>2, <1>7, <1>8, <1>20 DEF Agreement
<1>10. Counters(r)'
  BY <1>1, <1>2, <1>7, <1>8 DEF Counters
<1>11. Slots(r)'
  BY <1>1, <1>2, <1>7, <1>8 DEF Slots
<1>12. Uploads(r)'
  BY <1>1, <1>2, <1>7, <1>8 DEF Uploads
<1>13. ASSUME NEW q \in Ranks, NEW i \in Nat
       PROVE  /\ Told(op[r], Calls(r), r, q, i) <=> Told(op[r], Calls(r), r, q, i)'
              /\ Freed(op[r], Calls(r), q, r, i) <=> Freed(op[r], Calls(r), q, r, i)'
              /\ Flows(op[r], q, r) /\ Known(op[r], Calls(r), q, r, i)' =>
                   Known(op[r], Calls(r), q, r, i) \/ (pc[r] = "ready" /\ q = a /\ i = at[r].chunk)
              /\ Flows(op[r], r, q) /\ Acknowledged(op[r], Calls(r), r, q, i)' =>
                   Acknowledged(op[r], Calls(r), r, q, i) \/ (pc[r] = "free" /\ q = a /\ i = at[r].acked)
  <2>1. /\ Outward(op[r], r, q)' = Outward(op[r], r, q) /\ Inward(op[r], q, r)' = Inward(op[r], q, r)
        /\ Place(op[r], r, q)' = Place(op[r], r, q) /\ Place(op[r], q, r)' = Place(op[r], q, r)
    BY <1>2, GroupFixed
  <2>2. Told(op[r], Calls(r), r, q, i) <=> Told(op[r], Calls(r), r, q, i)'
    BY <1>2, <1>7, <1>8, <2>1 DEF Told
  <2>3. Freed(op[r], Calls(r), q, r, i) <=> Freed(op[r], Calls(r), q, r, i)'
    BY <1>2, <1>7, <1>8, <2>1 DEF Freed
  <2>6. \A pl : HeardFrom(r, pl)' => HeardFrom(r, pl) \/ pl = p
    BY <1>2, <1>19 DEF HeardFrom
  <2>4. ASSUME Flows(op[r], q, r), Known(op[r], Calls(r), q, r, i)', ~Known(op[r], Calls(r), q, r, i)
        PROVE  pc[r] = "ready" /\ q = a /\ i = at[r].chunk
    <3>1. /\ In(r, Calls(r), Inward(op[r], q, r)) /\ at[r].chunk = i /\ pc[r] = "ready"
          /\ Place(op[r], q, r) = p
      BY <1>2, <1>7, <2>1, <2>4, <2>6 DEF Known
    <3>2. PeersNow(r)[p][2] = q
      BY <1>3, <1>4, <2>4, <3>1, AtWork DEF In
    <3> QED BY <1>4, <3>1, <3>2
  <2>5. ASSUME Flows(op[r], r, q), Acknowledged(op[r], Calls(r), r, q, i)', ~Acknowledged(op[r], Calls(r), r, q, i)
        PROVE  pc[r] = "free" /\ q = a /\ i = at[r].acked
    <3>1. /\ In(r, Calls(r), Outward(op[r], r, q)) /\ at[r].acked = i /\ pc[r] = "free"
          /\ Place(op[r], r, q) = p
      BY <1>2, <1>7, <2>1, <2>5, <2>6 DEF Acknowledged
    <3>2. PeersNow(r)[p][1] = q
      BY <1>3, <1>4, <2>5, <3>1, AtWork DEF In
    <3> QED BY <1>4, <3>1, <3>2
  <2> QED BY <2>2, <2>3, <2>4, <2>5
<1>21. ASSUME a \in Ranks
       PROVE  /\ pc[r] = "ready" => Told(op[r], Calls(r), a, r, at[r].chunk) /\ Head(chan[a][r][0]) = at[r].chunk
              /\ pc[r] = "free" => Freed(op[r], Calls(r), r, a, at[r].acked) /\ Head(chan[a][r][1]) = at[r].acked
  <2>5. PICK f : f = chan[a][r][t]
    OBVIOUS
  <2>1. f \in Seq(Nat) /\ f # <<>>
    <3>1. chan[a] \in [Ranks -> [{0, 1} -> Seq(Nat)]]
      BY <1>1, <1>21 DEF TypeOK
    <3>2. chan[a][r] \in [{0, 1} -> Seq(Nat)]
      BY <3>1
    <3>3. chan[a][r][t] \in Seq(Nat)
      BY <1>4, <3>2
    <3> QED BY <1>2, <2>5, <3>3
  <2>6. 1 \in DOMAIN f /\ Head(f) = f[1]
    BY <2>1, HeadTailProperties, LenProperties
  <2>2. 1 \in DOMAIN chan[a][r][t] /\ Head(chan[a][r][t]) = chan[a][r][t][1]
    BY <2>5, <2>6
  <2>3. CASE pc[r] = "ready"
    <3>1. t = 0 /\ Head(chan[a][r][0]) = at[r].chunk
      BY <1>2, <1>4, <2>3 DEF Sequence
    <3>2. Begun(a) /\ Told(op[a], Calls(a), a, r, at[r].chunk)
      BY <1>1, <1>21, <2>2, <3>1 DEF Handshake, ReadySignals
    <3>3. Calls(a) <= Calls(r) /\ Calls(r) <= Calls(a)
      BY <1>1, <1>3, <1>21, <3>2, AtWork DEF Agreement, Agreed
    <3>4. Calls(a) = Calls(r)
      <4>1. asked[a] \in Seq(Ops) /\ asked[r] \in Seq(Ops)
        BY <1>1, <1>21 DEF TypeOK
      <4>2. Calls(a) \in Nat /\ Calls(r) \in Nat
        BY <4>1 DEF Calls
      <4> QED BY <3>3, <4>2
    <3>5. op[a] = op[r]
      BY <1>1, <1>3, <1>21, <3>4, AtWork, SameOp
    <3> QED BY <2>3, <3>1, <3>2, <3>4, <3>5
  <2>4. CASE pc[r] = "free"
    <3>1. t = 1 /\ Head(chan[a][r][1]) = at[r].acked
      BY <1>2, <1>4, <2>4 DEF Sequence
    <3>2. Freed(op[r], Calls(r), r, a, at[r].acked)
      BY <1>1, <1>21, <2>2, <3>1 DEF Handshake, FreeSignals
    <3> QED BY <2>4, <3>1, <3>2
  <2> QED BY <1>2, <2>3, <2>4
<1>14. Goes(r) /\ Learns(r)
  <2>1. \A i \in 0 .. op[r].count - 1 : i \in Nat
    BY <1>1, CountNat
  <2> QED BY <1>2, <1>6, <1>13, <1>21, <2>1 DEF Goes, Learns
<1>22. PICK k, l : k = at[r].chunk /\ l = at[r].acked
  OBVIOUS
<1>15. ASSUME NEW s \in Ranks, NEW d \in Ranks
       PROVE  \/ ReadySignals(s, d)'
              \/ /\ chan'[s][d][0] = chan[s][d][0]
                 /\ d = r => \A i \in Nat : Flows(op[r], s, r) /\ i < op[r].count
                      /\ Known(op[r], Calls(r), s, r, i)' => Known(op[r], Calls(r), s, r, i)
  <2>1. CASE pc[r] = "ready" /\ s = a /\ d = r
    <3>1. chan[s][r][0] # <<>> /\ chan'[s][r][0] = Tail(chan[s][r][0]) /\ k = Head(chan[s][r][0])
      BY <1>2, <1>4, <1>5, <1>21, <1>22, <2>1
    <3>2. ASSUME NEW i \in Nat, k < i, Flows(op[r], s, r), Known(op[r], Calls(r), s, r, i)'
          PROVE  Known(op[r], Calls(r), s, r, i)
      <4>1. k # i
        BY <1>3, <1>22, <3>2, AtWork
      <4> QED BY <1>13, <1>22, <3>2, <4>1
    <3> QED BY <1>7, <1>14, <2>1, <3>1, <3>2, ReadyTail
  <2>2. CASE ~(pc[r] = "ready" /\ s = a /\ d = r)
    <3>1. chan'[s][d][0] = chan[s][d][0]
      BY <1>2, <1>4, <1>5, <2>2
    <3> QED BY <1>13, <2>2, <3>1
  <2> QED BY <2>1, <2>2
<1>16. ASSUME NEW s \in Ranks, NEW d \in Ranks
       PROVE  \/ FreeSignals(s, d)'
              \/ /\ chan'[d][s][1] = chan[d][s][1]
                 /\ s = r => \A i \in Nat : Flows(op[r], r, d) /\ i < op[r].count
                      /\ Acknowledged(op[r], Calls(r), r, d, i)' => Acknowledged(op[r], Calls(r), r, d, i)
  <2>1. CASE pc[r] = "free" /\ d = a /\ s = r
    <3>1. chan[d][r][1] # <<>> /\ chan'[d][r][1] = Tail(chan[d][r][1]) /\ l = Head(chan[d][r][1])
      BY <1>2, <1>4, <1>5, <1>21, <1>22, <2>1
    <3>2. ASSUME NEW i \in Nat, l < i, Flows(op[r], r, d), Acknowledged(op[r], Calls(r), r, d, i)'
          PROVE  Acknowledged(op[r], Calls(r), r, d, i)
      <4>1. l # i
        BY <1>3, <1>22, <3>2, AtWork
      <4> QED BY <1>13, <1>22, <3>2, <4>1
    <3> QED BY <1>7, <1>14, <2>1, <3>1, <3>2, FreeTail
  <2>2. CASE ~(pc[r] = "free" /\ d = a /\ s = r)
    <3>1. chan'[d][s][1] = chan[d][s][1]
      BY <1>2, <1>4, <1>5, <2>2
    <3> QED BY <1>13, <2>2, <3>1
  <2> QED BY <2>1, <2>2
<1>17. Handshake'
  BY <1>7, <1>14, <1>15, <1>16, HandshakeKept
<1>18. TypeOK'
  <2>1. waiting' \in [Ranks -> BOOLEAN]
    BY <1>1, <1>2 DEF TypeOK
  <2> QED BY <1>1, <1>2, <1>5, <1>20, <2>1, GroupFixed DEF TypeOK
<1> QED BY <1>2, <1>9, <1>10, <1>11, <1>12, <1>14, <1>17, <1>18, SharedStep

\* The chunks copied before the first is told of.
LEMMA FirstChunks ==
  ASSUME NEW n \in Nat \ {0}, NEW c \in Nat \ {0}
  PROVE  /\ Min({n, c}) \in Nat /\ Min({n, c}) >= 1
         /\ \A i \in Nat : i < Min({n, c}) <=> i < n /\ i < c
<1> DEFINE m == IF n <= c THEN n ELSE c
<1>1. m \in {n, c} /\ \A y \in {n, c} : m <= y
  OBVIOUS
<1>2. \A z \in {n, c} : (\A y \in {n, c} : z <= y) => z = m
  OBVIOUS
<1> HIDE DEF m
<1>3. Min({n, c}) = m
  BY <1>1, <1>2 DEF Min
<1> QED BY <1>3 DEF m

\* Rank r begins exchange x, or has made them all.
LEMMA BeginKeeps ==
  ASSUME IInv, Shared, NEW r \in Ranks, NEW x \in Nat,
         \/ pc[r] = "metadata" /\ x = 1 /\ Agreed(Calls(r), op[r])
         \/ MayGoOn(r) /\ at[r].acked = op[r].count /\ x = at[r].exchange + 1,
         StartExchange(r, op[r], Calls(r), x), UNCHANGED <<Group, Control, mem, up, got>>
  PROVE  IInv'
<1>1. /\ TypeOK /\ Turns /\ Handshake /\ (\A q \in Ranks : Agreement(q)) /\ LeaseOutlivesCopies
      /\ Counters(r) /\ Slots(r) /\ Uploads(r)
  BY DEF IInv, SharedInv
<1>2. /\ group' = group /\ op' = op /\ asked' = asked /\ broken' = broken /\ dead' = dead /\ faults' = faults
      /\ posted' = posted /\ mem' = mem /\ up' = up /\ got' = got /\ chan' = chan /\ waiting' = waiting
  BY DEF Group, Control
<1>19. PICK o, c, n, e : o = op[r] /\ c = Calls(r) /\ n = op[r].count /\ e = Len(Exchanges(o, r))
  OBVIOUS
<1>20. \/ pc[r] = "metadata" /\ x = 1 /\ ~Begun(r)
       \/ pc[r] = "chunk" /\ MayGoOn(r) /\ Within(r) /\ at[r].acked = n /\ x = at[r].exchange + 1
  BY <1>1, <1>19 DEF MayGoOn, Agreement
<1>21. /\ o \in Ops /\ n \in Nat \ {0} /\ c \in Nat \ {0} /\ Agreed(c, o)
       /\ e \in Nat /\ DOMAIN Exchanges(o, r) = 1 .. e
  <2>1. op[r] \in Ops /\ Calls(r) \in Nat \ {0} /\ Agreed(c, o)
    <3>1. CASE pc[r] = "metadata"
      <4>1. Calls(r) >= 1 /\ op[r] = asked[r][Calls(r)] /\ asked[r] \in Seq(Ops)
        BY <1>1, <3>1 DEF Turns, TypeOK
      <4>2. Calls(r) \in Nat \ {0} /\ op[r] \in Ops
        BY <4>1 DEF Calls
      <4> QED BY <1>1, <1>19, <1>20, <3>1, <4>2 DEF MayGoOn
    <3>2. CASE Within(r)
      BY <1>19, <3>2, AtWork
    <3> QED BY <1>20, <3>1, <3>2
  <2> QED BY <1>1, <1>19, <2>1, Fields, Meetings
<1>22. /\ at[r].exchange = x - 1 /\ x >= 1 /\ x <= e + 1
       /\ Within(r) => /\ at[r].chunk = n /\ at[r].acked = n
                       /\ Receiving(r) => at[r].uploaded = n
  <2>1. at[r].exchange \in Nat /\ at[r].chunk \in Nat /\ at[r].acked \in Nat /\ at[r].uploaded \in Nat
    BY <1>1 DEF TypeOK
  <2>2. CASE pc[r] = "metadata"
    BY <1>20, <1>19, <1>21, <2>1, <2>2 DEF Begun, Within
  <2>3. CASE pc[r] = "chunk"
    BY <1>1, <1>19, <1>20, <1>21, <2>1, <2>3 DEF Within, Counters
  <2> QED BY <1>20, <2>2, <2>3
<1>28. down[r] = <<>>
  <2>1. CASE pc[r] = "metadata"
    BY <1>1, <2>1 DEF LeaseOutlivesCopies
  <2>2. CASE Within(r) /\ Sending(r)
    <3>1. ASSUME NEW j \in DOMAIN down[r]
          PROVE  FALSE
      BY <1>1, <1>19, <1>21, <1>22, <2>2 DEF Slots
    <3>2. down[r] \in Seq([lane : Lanes, tag : Tags, after : Nat, writes : BOOLEAN])
      BY <1>1 DEF TypeOK
    <3>3. down[r] # <<>> => 1 \in DOMAIN down[r]
      BY <3>2, EmptySeq, LenProperties
    <3> QED BY <3>1, <3>3
  <2>3. CASE Within(r) /\ ~Sending(r)
    BY <1>1, <2>3 DEF Slots
  <2> QED BY <1>20, <2>1, <2>2, <2>3
<1>29. up[r] = <<>>
  <2>1. CASE pc[r] = "metadata"
    BY <1>1, <2>1 DEF LeaseOutlivesCopies
  <2>2. CASE Within(r) /\ Receiving(r)
    <3>1. Len(up[r]) = 0 /\ up[r] \in Seq(SUBSET [rank : Ranks, lane : Lanes, tag : Tags])
      BY <1>1, <1>21, <1>22, <2>2 DEF Uploads, TypeOK
    <3> QED BY <3>1, EmptySeq
  <2>3. CASE Within(r) /\ ~Receiving(r)
    BY <1>1, <2>3 DEF Uploads
  <2> QED BY <1>20, <2>1, <2>2, <2>3
<1>23. down[r] = <<>> /\ up[r] = <<>>
  BY <1>28, <1>29
<1>24. Downloads(o, x, r) <=> Sends(o, x, r)
  BY DEF Downloads, Shared
<1>3. PICK f : f = IF x <= e /\ Sends(o, x, r)
                   THEN [k \in 1 .. Min({BUFFERS_PER_RANK, n}) |-> Copying(o, c, x, r, k - 1, 0)] ELSE <<>>
  OBVIOUS
<1>4. /\ at' = [at EXCEPT ![r] = [exchange |-> x, chunk |-> 0, acked |-> 0, peer |-> 1, uploaded |-> 0]]
      /\ pc' = [pc EXCEPT ![r] = IF x <= e THEN "chunk" ELSE "drain"]
      /\ down' = [down EXCEPT ![r] = f]
  <2>1. Buffers(o, r) = BUFFERS_PER_RANK
    BY DEF Buffers, Shared
  <2>2. down \in [Ranks -> Seq([lane : Lanes, tag : Tags, after : Nat, writes : BOOLEAN])]
    BY <1>1 DEF TypeOK
  <2>3. CASE x <= e
    BY <1>3, <1>19, <1>24, <2>1, <2>3 DEF StartExchange, Goto, Shared
  <2>4. CASE ~(x <= e)
    <3>1. down' = down /\ f = <<>>
      BY <1>3, <1>19, <2>4 DEF StartExchange, Shared
    <3>2. [down EXCEPT ![r] = <<>>] = down
      BY <1>23, <2>2
    <3> QED BY <1>19, <2>4, <3>1, <3>2 DEF StartExchange, Goto, Shared
  <2> QED BY <2>3, <2>4
<1>5. /\ pc'[r] = (IF x <= e THEN "chunk" ELSE "drain")
      /\ at'[r].exchange = x /\ at'[r].chunk = 0 /\ at'[r].acked = 0
      /\ at'[r].uploaded = 0 /\ at'[r].peer = 1 /\ down'[r] = f
      /\ \A q \in Ranks \ {r} : pc'[q] = pc[q] /\ at'[q] = at[q] /\ down'[q] = down[q]
  BY <1>1, <1>4 DEF TypeOK
<1>6. \A q \in Ranks \ {r} : Same(q)
  BY <1>2, <1>5 DEF Same
<1>7. /\ Ranks' = Ranks /\ Calls(r)' = c /\ op'[r] = o /\ (\A q : Calls(q)' = Calls(q))
      /\ Begun(r)' /\ (Within(r)' <=> x <= e) /\ (Past(r)' <=> x = e + 1)
      /\ (Sending(r)' <=> Sends(o, x, r)) /\ (Shared' <=> Shared)
      /\ \A i : ChunkOf(r, i)' = Source(o, c, x, r, i)
      /\ \A i : Copying(o, c, x, r, i, 0)' = Copying(o, c, x, r, i, 0)
      /\ \A d, p : Agreed(d, p)' <=> Agreed(d, p)
  <2>1. /\ \A q : Exchanges(o, q)' = Exchanges(o, q)
        /\ Sends(o, x, r)' = Sends(o, x, r)
        /\ \A i : Source(o, c, x, r, i)' = Source(o, c, x, r, i)
        /\ \A i : Copying(o, c, x, r, i, 0)' = Copying(o, c, x, r, i, 0)
        /\ Ranks' = Ranks /\ (Shared' <=> Shared)
    BY <1>2, GroupFixed
  <2>2. \A q : Calls(q)' = Calls(q)
    BY <1>2 DEF Calls
  <2>3. \A d, p : Agreed(d, p)' <=> Agreed(d, p)
    BY <1>2, <2>1, <2>2 DEF Agreed
  <2>4. Begun(r)' /\ (Within(r)' <=> x <= e) /\ (Past(r)' <=> x = e + 1)
    BY <1>2, <1>5, <1>19, <1>21, <1>22, <2>1 DEF Begun, Within, Past
  <2>5. (Sending(r)' <=> Sends(o, x, r)) /\ \A i : ChunkOf(r, i)' = Source(o, c, x, r, i)
    BY <1>2, <1>5, <1>19, <2>1, <2>2 DEF Sending, ChunkOf
  <2> QED BY <1>2, <1>19, <2>1, <2>2, <2>3, <2>4, <2>5
<1>9. Agreement(r)'
  BY <1>1, <1>2, <1>5, <1>7, <1>19, <1>21, <1>22 DEF Agreement
<1>10. Counters(r)'
  BY <1>2, <1>5, <1>7, <1>19, <1>21 DEF Counters, BUFFERS_PER_RANK
<1>11. Slots(r)'
  <2>1. CASE x <= e /\ Sends(o, x, r)
    <3> DEFINE m == Min({BUFFERS_PER_RANK, n})
    <3>1. m \in Nat /\ \A i \in Nat : i < m <=> i < BUFFERS_PER_RANK /\ i < n
      BY <1>21, FirstChunks DEF BUFFERS_PER_RANK
    <3> HIDE DEF m
    <3>2. f = [k \in 1 .. m |-> Copying(o, c, x, r, k - 1, 0)]
      BY <1>3, <2>1 DEF m
    <3>3. DOMAIN f = 1 .. m /\ \A k \in 1 .. m : f[k] = Copying(o, c, x, r, k - 1, 0)
      BY <3>2
    <3>4. \A i : Window(r, i)' <=> i < BUFFERS_PER_RANK
      BY <1>5 DEF Window, BUFFERS_PER_RANK
    <3>5. ASSUME NEW j \in DOMAIN f
          PROVE  \E i \in 0 .. n - 1 : Window(r, i)' /\ f[j] = Copying(o, c, x, r, i, 0)'
      <4>1. j \in 1 .. m /\ j - 1 \in Nat /\ j - 1 < m
        BY <3>1, <3>3
      <4>2. j - 1 \in 0 .. n - 1 /\ Window(r, j - 1)'
        BY <1>21, <3>1, <3>4, <4>1
      <4>3. f[j] = Copying(o, c, x, r, j - 1, 0)'
        BY <1>7, <3>3, <4>1
      <4> QED BY <4>2, <4>3
    <3>6. ASSUME NEW i \in 0 .. n - 1, i < BUFFERS_PER_RANK
          PROVE  \E j \in DOMAIN f : f[j].lane = i % BUFFERS_PER_RANK
      <4>1. i \in Nat /\ i + 1 \in 1 .. m /\ i + 1 - 1 = i
        BY <1>21, <3>1, <3>6
      <4>2. f[i + 1] = Copying(o, c, x, r, i, 0)
        BY <3>3, <4>1
      <4>3. f[i + 1].lane = i % BUFFERS_PER_RANK
        BY <4>2 DEF Copying, Buffers, Shared
      <4> QED BY <3>3, <4>1, <4>3
    <3>7. /\ op'[r].count = n /\ at'[r].chunk = 0 /\ at'[r].acked = 0 /\ pc'[r] # "ready"
          /\ at'[r].exchange = x /\ Calls(r)' = c /\ op'[r] = o
      BY <1>2, <1>5, <1>7, <1>19, <2>1
    <3>8. \A j \in DOMAIN down'[r] : \E i \in 0 .. n - 1 : Window(r, i)' /\ down'[r][j] = Copying(o, c, x, r, i, 0)'
      BY <1>5, <3>5
    <3>9. \A i \in 0 .. n - 1 : Window(r, i)' => i >= 0 /\ \E j \in DOMAIN down'[r] : down'[r][j].lane = i % BUFFERS_PER_RANK
      BY <1>5, <3>4, <3>6
    <3> QED BY <1>7, <2>1, <3>7, <3>8, <3>9 DEF Slots
  <2>2. CASE ~(x <= e /\ Sends(o, x, r))
    BY <1>3, <1>5, <1>7, <2>2 DEF Slots
  <2> QED BY <2>1, <2>2
<1>25. \A s, d : /\ Outward(o, s, d)' = Outward(o, s, d) /\ Inward(o, s, d)' = Inward(o, s, d)
                 /\ Place(o, s, d)' = Place(o, s, d) /\ Addressee(o, d)' = Addressee(o, d)
                 /\ (Flows(o, s, d)' <=> Flows(o, s, d))
  BY <1>2, GroupFixed DEF Flows
<1>26. \A q \in Ranks : /\ Flows(o, r, q) => Outward(o, r, q) \in 1 .. e
                        /\ Flows(o, q, r) => Inward(o, q, r) \in 1 .. e
  BY <1>1, <1>21, Meetings
<1>27. ASSUME NEW q \in Ranks, Flows(o, q, r), Inward(o, q, r) = x - 1
       PROVE  Within(r) /\ Receiving(r)
  <2>1. Within(r)
    BY <1>19, <1>21, <1>22, <1>26, <1>27 DEF Within
  <2> QED BY <1>19, <1>22, <1>27, <2>1, AtWork
<1>12. Uploads(r)'
  <2>1. Fetched(r)' = Fetched(r)
    <3> DEFINE A == {g \in Ranks \X (0 .. n - 1) :
              /\ Flows(o, g[1], r)
              /\ \/ Inward(o, g[1], r) < at[r].exchange
                 \/ Inward(o, g[1], r) = at[r].exchange /\ g[2] < at[r].uploaded}
               B == {g \in Ranks \X (0 .. n - 1) :
              /\ Flows(o, g[1], r)
              /\ \/ Inward(o, g[1], r) < x
                 \/ Inward(o, g[1], r) = x /\ g[2] < 0}
    <3>1. ASSUME NEW q \in Ranks, NEW i \in 0 .. n - 1, Flows(o, q, r)
          PROVE  Inward(o, q, r) < at[r].exchange \/ (Inward(o, q, r) = at[r].exchange /\ i < at[r].uploaded)
                   <=> Inward(o, q, r) < x \/ (Inward(o, q, r) = x /\ i < 0)
      <4>1. Inward(o, q, r) \in Nat
        BY <1>26, <3>1
      <4>2. Inward(o, q, r) = x - 1 => at[r].uploaded = n
        BY <1>22, <1>27, <3>1
      <4> QED BY <1>21, <1>22, <3>1, <4>1, <4>2
    <3>2. A = B
      BY <3>1
    <3>3. Fetched(r) = {Chunk(c, g[1], Addressee(o, r), g[2]) : g \in A}
      BY <1>19 DEF Fetched
    <3>4. Fetched(r)' = {Chunk(c, g[1], Addressee(o, r), g[2]) : g \in B}
      BY <1>2, <1>5, <1>7, <1>19, <1>25 DEF Fetched
    <3> HIDE DEF A, B
    <3> QED BY <3>2, <3>3, <3>4
  <2>2. got'[r] = Fetched(r)'
    BY <1>1, <1>2, <1>20, <2>1 DEF Uploads
  <2>3. up'[r] = <<>> /\ Len(up'[r]) = 0 /\ DOMAIN up'[r] = {} /\ at'[r].chunk - at'[r].uploaded = 0
    BY <1>2, <1>5, <1>23
  <2> QED BY <2>2, <2>3 DEF Uploads
<1>13. ASSUME NEW q \in Ranks, NEW i \in Nat, i < n
       PROVE  /\ Flows(o, r, q) => /\ Told(o, c, r, q, i) => Outward(o, r, q) < x
                                   /\ Outward(o, r, q) < x => Told(o, c, r, q, i)' /\ Acknowledged(o, c, r, q, i)
                                   /\ Acknowledged(o, c, r, q, i)' => Outward(o, r, q) < x
              /\ Flows(o, q, r) => /\ Freed(o, c, q, r, i) => Inward(o, q, r) < x
                                   /\ Inward(o, q, r) < x => Freed(o, c, q, r, i)' /\ Known(o, c, q, r, i)
                                   /\ Known(o, c, q, r, i)' => Inward(o, q, r) < x
  <2>1. ASSUME Flows(o, r, q)
        PROVE  /\ Told(o, c, r, q, i) => Outward(o, r, q) < x
               /\ Outward(o, r, q) < x => Told(o, c, r, q, i)' /\ Acknowledged(o, c, r, q, i)
               /\ Acknowledged(o, c, r, q, i)' => Outward(o, r, q) < x
    <3>1. PICK y : y = Outward(o, r, q)
      OBVIOUS
    <3>2. y \in Nat /\ y >= 1 /\ y <= e
      BY <1>21, <1>26, <2>1, <3>1
    <3>3. /\ Beyond(r, c, y) <=> x - 1 > y
          /\ In(r, c, y) <=> x - 1 = y
          /\ Beyond(r, c, y)' <=> x > y
          /\ In(r, c, y)' <=> x = y
      BY <1>5, <1>7, <1>19, <1>21, <1>22 DEF Beyond, In
    <3>4. x - 1 = y => at[r].chunk > i /\ at[r].acked > i
      BY <1>13, <1>19, <1>21, <1>22, <3>2 DEF Within
    <3>5. Told(o, c, r, q, i) => y < x
      BY <3>1, <3>2, <3>3 DEF Told
    <3>6. y < x => Told(o, c, r, q, i)'
      BY <1>25, <3>1, <3>2, <3>3 DEF Told
    <3>7. y < x => Acknowledged(o, c, r, q, i)
      BY <3>1, <3>2, <3>3, <3>4 DEF Acknowledged
    <3>8. Acknowledged(o, c, r, q, i)' => y < x
      BY <1>5, <1>25, <3>1, <3>2, <3>3 DEF Acknowledged
    <3> QED BY <3>1, <3>5, <3>6, <3>7, <3>8
  <2>2. ASSUME Flows(o, q, r)
        PROVE  /\ Freed(o, c, q, r, i) => Inward(o, q, r) < x
               /\ Inward(o, q, r) < x => Freed(o, c, q, r, i)' /\ Known(o, c, q, r, i)
               /\ Known(o, c, q, r, i)' => Inward(o, q, r) < x
    <3>1. PICK y : y = Inward(o, q, r)
      OBVIOUS
    <3>2. y \in Nat /\ y >= 1 /\ y <= e
      BY <1>21, <1>26, <2>2, <3>1
    <3>3. /\ Beyond(r, c, y) <=> x - 1 > y
          /\ In(r, c, y) <=> x - 1 = y
          /\ Beyond(r, c, y)' <=> x > y
          /\ In(r, c, y)' <=> x = y
      BY <1>5, <1>7, <1>19, <1>21, <1>22 DEF Beyond, In
    <3>4. x - 1 = y => at[r].chunk > i /\ at[r].acked > i
      BY <1>13, <1>19, <1>21, <1>22, <3>2 DEF Within
    <3>5. Freed(o, c, q, r, i) => y < x
      BY <3>1, <3>2, <3>3 DEF Freed
    <3>6. y < x => Freed(o, c, q, r, i)'
      BY <1>25, <3>1, <3>2, <3>3 DEF Freed
    <3>7. y < x => Known(o, c, q, r, i)
      BY <3>1, <3>2, <3>3, <3>4 DEF Known
    <3>8. Known(o, c, q, r, i)' => y < x
      BY <1>5, <1>25, <3>1, <3>2, <3>3 DEF Known
    <3> QED BY <3>1, <3>5, <3>6, <3>7, <3>8
  <2> QED BY <2>1, <2>2
<1>14. Goes(r) /\ Learns(r)
  <2>1. \A i \in 0 .. n - 1 : i \in Nat /\ i < n
    BY <1>21
  <2>2. Goes(r)
    BY <1>2, <1>6, <1>7, <1>13, <1>19, <2>1 DEF Goes
  <2>3. Learns(r)
    BY <1>2, <1>7, <1>13, <1>19, <2>1 DEF Learns
  <2> QED BY <2>2, <2>3
<1>17. Handshake'
  <2>1. /\ \A q \in Ranks, i \in Nat : Flows(op[r], q, r) /\ i < op[r].count
             /\ Known(op[r], Calls(r), q, r, i)' => Known(op[r], Calls(r), q, r, i)
        /\ \A q \in Ranks, i \in Nat : Flows(op[r], r, q) /\ i < op[r].count
             /\ Acknowledged(op[r], Calls(r), r, q, i)' => Acknowledged(op[r], Calls(r), r, q, i)
    BY <1>2, <1>7, <1>13, <1>19
  <2> QED BY <1>2, <1>7, <1>14, <2>1, HandshakeKept
<1>18. TypeOK'
  <2>1. pc' \in [Ranks -> {"idle", "metadata", "chunk", "ready", "free", "gloo", "drain", "failed"}]
    BY <1>1, <1>4 DEF TypeOK
  <2>2. at' \in [Ranks -> [exchange : Nat, chunk : Nat, acked : Nat, peer : Nat \ {0}, uploaded : Nat]]
    <3>1. [exchange |-> x, chunk |-> 0, acked |-> 0, peer |-> 1, uploaded |-> 0]
            \in [exchange : Nat, chunk : Nat, acked : Nat, peer : Nat \ {0}, uploaded : Nat]
      OBVIOUS
    <3> QED BY <1>1, <1>4, <3>1 DEF TypeOK
  <2>3. down' \in [Ranks -> Seq([lane : Lanes, tag : Tags, after : Nat, writes : BOOLEAN])]
    <3> DEFINE T == [lane : Lanes, tag : Tags, after : Nat, writes : BOOLEAN]
    <3>1. f \in Seq(T)
      <4>1. CASE x <= e /\ Sends(o, x, r)
        <5> DEFINE m == Min({BUFFERS_PER_RANK, n})
        <5>1. m \in Nat
          BY <1>21, FirstChunks DEF BUFFERS_PER_RANK
        <5> HIDE DEF m
        <5>2. f = [k \in 1 .. m |-> Copying(o, c, x, r, k - 1, 0)]
          BY <1>3, <4>1 DEF m
        <5>3. ASSUME NEW k \in 1 .. m
              PROVE  Copying(o, c, x, r, k - 1, 0) \in T
          <6>1. k - 1 \in Nat /\ x \in DOMAIN Exchanges(o, r)
            BY <1>21, <1>22, <4>1, <5>1
          <6> QED BY <1>1, <1>21, <6>1, CopyingType
        <5> HIDE DEF T
        <5> QED BY <5>1, <5>2, <5>3
      <4>2. CASE ~(x <= e /\ Sends(o, x, r))
        BY <1>3, <4>2, EmptySeq
      <4> QED BY <4>1, <4>2
    <3>2. down \in [Ranks -> Seq(T)]
      BY <1>1 DEF TypeOK
    <3> HIDE DEF T
    <3>3. down' \in [Ranks -> Seq(T)]
      BY <1>4, <3>1, <3>2
    <3> QED BY <3>3 DEF T
  <2> QED BY <1>1, <1>2, <2>1, <2>2, <2>3, GroupFixed DEF TypeOK
<1> QED BY <1>5, <1>9, <1>10, <1>11, <1>12, <1>14, <1>17, <1>18, <1>20, SharedStep

\* What a rank has freed it knows of.
LEMMA FreedKnown ==
  ASSUME IInv, Shared, NEW s \in Ranks, NEW d \in Ranks, NEW i \in Nat, Agreed(Calls(d), op[d]),
         Flows(op[d], s, d), Freed(op[d], Calls(d), s, d, i)
  PROVE  Known(op[d], Calls(d), s, d, i)
<1>1. TypeOK /\ Turns /\ Counters(d)
  BY DEF IInv, SharedInv
<1>2. op[d] \in Ops
  <2>1. Calls(d) >= 1 /\ op[d] = asked[d][Calls(d)] /\ asked[d] \in Seq(Ops)
    BY <1>1 DEF Turns, TypeOK, Agreed
  <2> QED BY <2>1 DEF Calls
<1>3. Inward(op[d], s, d) \in DOMAIN Exchanges(op[d], d)
  BY <1>1, <1>2, Meetings
<1>4. CASE In(d, Calls(d), Inward(op[d], s, d))
  <2>1. Within(d) /\ Receiving(d)
    <3>1. Within(d)
      BY <1>3, <1>4 DEF In, Within
    <3> QED BY <1>4, <3>1, AtWork DEF In
  <2>2. at[d].chunk \in Nat /\ at[d].acked \in Nat /\ at[d].uploaded \in Nat
    BY <2>1, AtWork
  <2>4. at[d].chunk >= at[d].acked /\ at[d].chunk >= at[d].uploaded /\ (pc[d] = "free" => at[d].chunk > at[d].acked)
    BY <1>1, <2>1 DEF Counters
  <2>5. ~Beyond(d, Calls(d), Inward(op[d], s, d))
    BY <1>4, <2>1, AtWork DEF Beyond, In
  <2>6. at[d].acked > i \/ (at[d].acked = i /\ (pc[d] = "free" \/ at[d].uploaded > i))
    BY <2>5 DEF Freed
  <2>3. at[d].chunk > i
    BY <2>2, <2>4, <2>6
  <2> QED BY <1>4, <2>3 DEF Known
<1>5. CASE ~In(d, Calls(d), Inward(op[d], s, d))
  BY <1>5 DEF Freed, Known
<1> QED BY <1>4, <1>5

\* Rank r calls its next collective.
LEMMA CallKeeps ==
  ASSUME IInv, Shared, NEW r \in Ranks, NEW w \in Ops, Call(r, w)
  PROVE  IInv'
<1>1. /\ TypeOK /\ Turns /\ Handshake /\ (\A q \in Ranks : Agreement(q)) /\ LeaseOutlivesCopies
  BY DEF IInv, SharedInv
<1>2. /\ group' = group /\ broken' = broken /\ dead' = dead /\ faults' = faults
      /\ posted' = posted /\ mem' = mem /\ down' = down /\ up' = up /\ chan' = chan /\ waiting' = waiting
      /\ asked' = [asked EXCEPT ![r] = Append(@, w)] /\ op' = [op EXCEPT ![r] = w]
      /\ got' = [got EXCEPT ![r] = {}] /\ pc' = [pc EXCEPT ![r] = "metadata"]
      /\ at' = [at EXCEPT ![r].exchange = 0] /\ pc[r] = "idle" /\ ~dead[r] /\ ~broken[r]
  BY DEF Call, Control, Shared, Goto
<1>3. PICK c : c = Calls(r)
  OBVIOUS
<1>4. /\ asked \in [Ranks -> Seq(Ops)] /\ c \in Nat /\ \A q \in Ranks : Calls(q) \in Nat
  <2>1. asked \in [Ranks -> Seq(Ops)]
    BY <1>1 DEF TypeOK
  <2> QED BY <1>3, <2>1 DEF Calls
<1>5. /\ pc'[r] = "metadata" /\ op'[r] = w /\ got'[r] = {} /\ at'[r].exchange = 0
      /\ asked'[r] = Append(asked[r], w)
      /\ \A q \in Ranks \ {r} : /\ pc'[q] = pc[q] /\ op'[q] = op[q] /\ got'[q] = got[q] /\ at'[q] = at[q]
                                /\ asked'[q] = asked[q]
  BY <1>1, <1>2 DEF TypeOK
<1>6. \A q \in Ranks \ {r} : Same(q)
  BY <1>2, <1>5 DEF Same
<1>7. /\ Ranks' = Ranks /\ (Shared' <=> Shared) /\ Calls(r)' = c + 1
      /\ \A q \in Ranks \ {r} : Calls(q)' = Calls(q)
      /\ \A k \in 1 .. c : asked'[r][k] = asked[r][k]
      /\ asked'[r][c + 1] = w
  <2>1. Len(Append(asked[r], w)) = c + 1 /\ (\A k \in 1 .. c : Append(asked[r], w)[k] = asked[r][k])
        /\ Append(asked[r], w)[c + 1] = w
    BY <1>3, <1>4, AppendProperties DEF Calls
  <2> QED BY <1>2, <1>5, <2>1, GroupFixed DEF Calls
<1>8. /\ IF Begun(r) THEN Past(r) /\ Agreed(c, op[r]) ELSE ~Agreed(c, op[r])
      /\ \A q \in Ranks : Calls(q) \in {c, c + 1}
  <2>1. ASSUME NEW q \in Ranks
        PROVE  Calls(q) \in {c, c + 1}
    <3>1. Calls(q) >= c /\ Calls(q) <= c + 1
      BY <1>1, <1>2, <1>3 DEF Agreement
    <3> QED BY <1>4, <3>1
  <2> QED BY <1>1, <1>2, <1>3, <2>1 DEF Agreement
<1>9. \A k \in Nat : \A o : k <= c => (Agreed(k, o)' <=> Agreed(k, o))
  <2>1. ASSUME NEW k \in 1 .. c, NEW o, NEW q \in Ranks
        PROVE  Calls(q)' >= k /\ Calls(q) >= k /\ asked'[q][k] = asked[q][k]
    <3>1. k \in Nat
      BY <1>4
    <3>2. CASE q = r
      BY <1>3, <1>4, <1>7, <3>1, <3>2
    <3>3. CASE q # r
      <4>1. asked'[q] = asked[q] /\ Calls(q)' = Calls(q)
        BY <1>5, <1>7, <3>3
      <4>2. Calls(q) >= k
        BY <1>4, <1>8, <3>1
      <4> QED BY <4>1, <4>2
    <3> QED BY <3>2, <3>3
  <2>2. ASSUME NEW k \in Nat, NEW o, k <= c
        PROVE  Agreed(k, o)' <=> Agreed(k, o)
    <3>1. CASE k = 0
      BY <3>1 DEF Agreed
    <3>2. CASE k # 0
      <4>1. k \in 1 .. c
        BY <1>4, <2>2, <3>2
      <4> QED BY <1>7, <2>1, <4>1 DEF Agreed
    <3> QED BY <3>1, <3>2
  <2> QED BY <2>2
<1>10. \A q \in Ranks : Calls(q) = c + 1 => q # r /\ ~Begun(q) /\ at[q].exchange = 0
  <2>1. ASSUME NEW q \in Ranks, Calls(q) = c + 1
        PROVE  q # r /\ ~Begun(q) /\ at[q].exchange = 0
    <3>1. q # r /\ ~Agreed(c + 1, op[q])
      BY <1>3, <1>4, <2>1 DEF Agreed
    <3>2. ~Begun(q) /\ at[q].exchange \in Nat
      BY <1>1, <2>1, <3>1 DEF Agreement, TypeOK
    <3> QED BY <3>1, <3>2 DEF Begun
  <2> QED BY <2>1
<1>11. \A q \in Ranks : Begun(q) => Calls(q) = c /\ Agreed(c, op[q])
  BY <1>1, <1>8, <1>10 DEF Agreement
<1>12. ASSUME NEW o \in Ops, NEW s \in Ranks, NEW d \in Ranks, Flows(o, s, d)
       PROVE  Outward(o, s, d) \in Nat \ {0} /\ Inward(o, s, d) \in Nat \ {0}
  <2>1. /\ Outward(o, s, d) \in 1 .. Len(Exchanges(o, s)) /\ Len(Exchanges(o, s)) \in Nat
        /\ Inward(o, s, d) \in 1 .. Len(Exchanges(o, d)) /\ Len(Exchanges(o, d)) \in Nat
    BY <1>1, <1>12, Meetings
  <2> QED BY <2>1
<1>25. \A o, s, d : /\ Outward(o, s, d)' = Outward(o, s, d) /\ Inward(o, s, d)' = Inward(o, s, d)
                    /\ (Flows(o, s, d)' <=> Flows(o, s, d))
  BY <1>2, GroupFixed DEF Flows
<1>13. ASSUME NEW o \in Ops, NEW k \in Nat, NEW q \in Ranks, NEW i
       PROVE  /\ Flows(o, r, q) => (Told(o, k, r, q, i)' <=> k <= c) /\ (Acknowledged(o, k, r, q, i)' <=> k <= c)
              /\ Flows(o, q, r) => (Known(o, k, q, r, i)' <=> k <= c) /\ (Freed(o, k, q, r, i)' <=> k <= c)
  <2>1. ASSUME NEW y \in Nat \ {0}
        PROVE  (Beyond(r, k, y)' <=> k <= c) /\ ~In(r, k, y)'
    BY <1>4, <1>5, <1>7 DEF Beyond, In
  <2>2. ASSUME Flows(o, r, q)
        PROVE  (Told(o, k, r, q, i)' <=> k <= c) /\ (Acknowledged(o, k, r, q, i)' <=> k <= c)
    <3>1. PICK y : y = Outward(o, r, q)
      OBVIOUS
    <3>2. y \in Nat \ {0} /\ Outward(o, r, q)' = y
      BY <1>12, <1>25, <2>2, <3>1
    <3> QED BY <2>1, <3>2 DEF Told, Acknowledged
  <2>3. ASSUME Flows(o, q, r)
        PROVE  (Known(o, k, q, r, i)' <=> k <= c) /\ (Freed(o, k, q, r, i)' <=> k <= c)
    <3>1. PICK y : y = Inward(o, q, r)
      OBVIOUS
    <3>2. y \in Nat \ {0} /\ Inward(o, q, r)' = y
      BY <1>12, <1>25, <2>3, <3>1
    <3> QED BY <2>1, <3>2 DEF Known, Freed
  <2> QED BY <2>2, <2>3
<1>14. \A q \in Ranks \ {r} : \A o, k, e, i :
         /\ Told(o, k, q, e, i)' <=> Told(o, k, q, e, i)
         /\ Acknowledged(o, k, q, e, i)' <=> Acknowledged(o, k, q, e, i)
         /\ Known(o, k, e, q, i)' <=> Known(o, k, e, q, i)
         /\ Freed(o, k, e, q, i)' <=> Freed(o, k, e, q, i)
  BY <1>2, <1>6, SameHandshake
\* Nobody has begun the call r makes.
<1>15. ASSUME NEW o \in Ops, NEW q \in Ranks, NEW e \in Ranks, NEW i
       PROVE  /\ Flows(o, q, e) => ~Acknowledged(o, c + 1, q, e, i)
              /\ Flows(o, e, q) => ~Known(o, c + 1, e, q, i)
  <2>1. ASSUME NEW y \in Nat \ {0}
        PROVE  ~Beyond(q, c + 1, y) /\ ~In(q, c + 1, y)
    BY <1>4, <1>8, <1>10 DEF Beyond, In
  <2>2. ASSUME Flows(o, q, e)
        PROVE  ~Acknowledged(o, c + 1, q, e, i)
    <3>1. Outward(o, q, e) \in Nat \ {0}
      BY <1>12, <2>2
    <3> QED BY <2>1, <3>1 DEF Acknowledged
  <2>3. ASSUME Flows(o, e, q)
        PROVE  ~Known(o, c + 1, e, q, i)
    <3>1. Inward(o, e, q) \in Nat \ {0}
      BY <1>12, <2>3
    <3> QED BY <2>1, <3>1 DEF Known
  <2> QED BY <2>2, <2>3
\* In the call it has made, r is done with everyone when all agreed.
<1>16. ASSUME NEW o, Agreed(c, o)
       PROVE  /\ o = op[r] /\ o \in Ops /\ c >= 1
              /\ \A q \in Ranks : \A i : /\ Flows(o, q, r) => Known(o, c, q, r, i)
                                         /\ Flows(o, r, q) => Acknowledged(o, c, r, q, i)
  <2>1. o = op[r] /\ c >= 1 /\ o = asked[r][c]
    BY <1>1, <1>3, <1>16 DEF Agreed, Turns
  <2>2. o \in Ops
    BY <1>3, <1>4, <2>1 DEF Calls
  <2>3. at[r].exchange = Len(Exchanges(o, r)) + 1
    BY <1>8, <1>16, <2>1 DEF Past
  <2>4. ASSUME NEW q \in Ranks
        PROVE  /\ Flows(o, q, r) => Inward(o, q, r) < at[r].exchange
               /\ Flows(o, r, q) => Outward(o, r, q) < at[r].exchange
    <3>1. /\ Flows(o, q, r) => Inward(o, q, r) \in 1 .. Len(Exchanges(o, r))
          /\ Flows(o, r, q) => Outward(o, r, q) \in 1 .. Len(Exchanges(o, r))
          /\ Len(Exchanges(o, r)) \in Nat
      BY <1>1, <2>2, Meetings
    <3> QED BY <2>3, <3>1
  <2> QED BY <1>3, <2>1, <2>2, <2>4 DEF Known, Acknowledged, Beyond
<1>17. \A q \in Ranks : Calls(q)' \in {c, c + 1} /\ (q # r => Calls(q)' = Calls(q))
  BY <1>7, <1>8
<1>18. TypeOK'
  <2>1. /\ pc' \in [Ranks -> {"idle", "metadata", "chunk", "ready", "free", "gloo", "drain", "failed"}]
        /\ op' \in [Ranks -> Ops \cup {NoOp}] /\ got' \in [Ranks -> SUBSET Tags]
    BY <1>1, <1>2 DEF TypeOK
  <2>2. at' \in [Ranks -> [exchange : Nat, chunk : Nat, acked : Nat, peer : Nat \ {0}, uploaded : Nat]]
    <3>1. [at[r] EXCEPT !.exchange = 0] \in [exchange : Nat, chunk : Nat, acked : Nat, peer : Nat \ {0}, uploaded : Nat]
      <4>1. at[r] \in [exchange : Nat, chunk : Nat, acked : Nat, peer : Nat \ {0}, uploaded : Nat]
        BY <1>1 DEF TypeOK
      <4> QED BY <4>1
    <3>2. at' = [at EXCEPT ![r] = [at[r] EXCEPT !.exchange = 0]]
      BY <1>2
    <3> QED BY <1>1, <3>1, <3>2 DEF TypeOK
  <2>3. asked' \in [Ranks -> Seq(Ops)]
    <3>1. Append(asked[r], w) \in Seq(Ops)
      BY <1>4, AppendProperties
    <3> QED BY <1>2, <1>4, <3>1
  <2>4. Ops' = Ops /\ NoOp' = NoOp /\ Tags' = Tags
    BY DEF Ops, NoOp, Tags
  <2> QED BY <1>1, <1>2, <2>1, <2>2, <2>3, GroupFixed DEF TypeOK
<1>19. Turns'
  <2>1. ASSUME NEW q \in Ranks
        PROVE  (Calls(q)' >= 1 => op'[q] = asked'[q][Calls(q)']) /\ (pc'[q] # "idle" => Calls(q)' >= 1)
    <3>1. CASE q = r
      <4>1. op'[r] = w /\ Calls(r)' = c + 1 /\ asked'[r][c + 1] = w /\ c + 1 >= 1
        BY <1>4, <1>5, <1>7
      <4> QED BY <3>1, <4>1
    <3>2. CASE q # r
      BY <1>1, <1>5, <1>7, <3>2 DEF Turns
    <3> QED BY <3>1, <3>2
  <2> QED BY <1>7, <2>1 DEF Turns
<1>20. LeaseOutlivesCopies'
  BY <1>1, <1>2, <1>5, <1>7 DEF LeaseOutlivesCopies
<1>21. ASSUME NEW q \in Ranks
       PROVE  Agreement(q)'
  <2>1. CASE q = r
    <3>1. ~Begun(r)' /\ pc'[r] = "metadata"
      BY <1>5 DEF Begun
    <3>2. \A z \in Ranks : c + 1 <= Calls(z)' + 1
      BY <1>4, <1>17
    <3> QED BY <1>7, <2>1, <3>1, <3>2 DEF Agreement
  <2>2. CASE q # r
    <3>1. /\ (Begun(q)' <=> Begun(q)) /\ (Past(q)' <=> Past(q)) /\ (Within(q)' <=> Within(q))
          /\ pc'[q] = pc[q] /\ op'[q] = op[q] /\ dead'[q] = dead[q] /\ broken'[q] = broken[q]
          /\ Calls(q)' = Calls(q)
      BY <1>2, <1>6, <1>7, <2>2, SameLocal DEF Same
    <3>2. Begun(q) => Agreed(Calls(q), op[q])'
      BY <1>4, <1>9, <1>11, <3>1
    <3>3. \A z \in Ranks : Calls(q)' <= Calls(z)' + 1
      <4>1. Calls(q)' \in {c, c + 1} /\ \A z \in Ranks : Calls(z)' \in {c, c + 1}
        BY <1>17
      <4> QED BY <1>4, <4>1
    <3>4. ASSUME pc[q] = "idle", ~dead[q], ~broken[q]
          PROVE  /\ IF Begun(q) THEN Past(q) ELSE ~Agreed(Calls(q), op[q])'
                 /\ \A z \in Ranks : Calls(z)' >= Calls(q)'
      <4>1. /\ IF Begun(q) THEN Past(q) ELSE ~Agreed(Calls(q), op[q])
            /\ Calls(r) >= Calls(q)
        BY <1>1, <3>4 DEF Agreement
      <4>2. Calls(q) = c
        BY <1>3, <1>4, <1>8, <4>1
      <4>3. Agreed(Calls(q), op[q])' <=> Agreed(Calls(q), op[q])
        BY <1>4, <1>9, <3>1, <4>2
      <4>4. \A z \in Ranks : Calls(z)' >= Calls(q)'
        <5>1. Calls(q)' = c /\ \A z \in Ranks : Calls(z)' \in {c, c + 1}
          BY <1>17, <3>1, <4>2
        <5> QED BY <1>4, <5>1
      <4> QED BY <3>1, <4>1, <4>3, <4>4
    <3> QED BY <1>1, <1>7, <3>1, <3>2, <3>3, <3>4 DEF Agreement
  <2> QED BY <2>1, <2>2
<1>22. ~Within(r)'
  <2>1. DOMAIN Exchanges(w, r)' = DOMAIN Exchanges(w, r) /\ DOMAIN Exchanges(w, r) = 1 .. Len(Exchanges(w, r))
    BY <1>1, <1>2, GroupFixed, Meetings
  <2> QED BY <1>5, <2>1 DEF Within
<1>23. ASSUME NEW q \in Ranks
       PROVE  Counters(q)' /\ Slots(q)' /\ Uploads(q)'
  <2>1. CASE q = r
    <3>1. down[r] = <<>> /\ up[r] = <<>>
      BY <1>1, <1>2 DEF LeaseOutlivesCopies
    <3>2. Fetched(r)' = {}
      <4>1. ASSUME NEW z \in Ranks, Flows(w, z, r)'
            PROVE  ~(Inward(w, z, r)' < 0) /\ ~(Inward(w, z, r)' = 0)
        <5>1. Flows(w, z, r) /\ Inward(w, z, r)' = Inward(w, z, r)
          BY <1>25, <4>1
        <5> QED BY <1>12, <5>1
      <4> QED BY <1>5, <1>7, <4>1 DEF Fetched
    <3> QED BY <1>2, <1>5, <1>22, <2>1, <3>1, <3>2 DEF Counters, Slots, Uploads
  <2>2. CASE q # r
    BY <1>1, <1>2, <1>6, <2>2, SameLocal DEF IInv, SharedInv
  <2> QED BY <2>1, <2>2
<1>24. ASSUME NEW s \in Ranks, NEW d \in Ranks
       PROVE  Knowledge(s, d)' /\ Permission(s, d)' /\ ReadySignals(s, d)' /\ FreeSignals(s, d)'
  <2>1. Knowledge(s, d)'
    <3> SUFFICES ASSUME Agreed(Calls(s), op[s])', Flows(op[s], s, d)', NEW i \in (0 .. op[s].count - 1)',
                        Known(op[s], Calls(s), s, d, i)'
                 PROVE  Told(op[s], Calls(s), s, d, i)'
      BY DEF Knowledge
    <3>1. PICK o, k : o = op'[s] /\ k = Calls(s)'
      OBVIOUS
    <3>2. /\ o \in Ops /\ k \in {c, c + 1} /\ Flows(o, s, d) /\ Known(o, k, s, d, i)' /\ s # d
          /\ Agreed(k, o)'
      <4>1. k >= 1 /\ o = asked'[s][k] /\ asked'[s] \in Seq(Ops) /\ k = Len(asked'[s])
        BY <1>7, <1>18, <1>19, <3>1 DEF Turns, Agreed, TypeOK, Calls
      <4>2. o \in Ops
        BY <1>4, <1>17, <3>1, <4>1
      <4>3. Flows(o, s, d) /\ s # d /\ Known(o, k, s, d, i)' /\ Agreed(k, o)'
        BY <1>25, <3>1 DEF Flows
      <4> QED BY <1>17, <3>1, <4>2, <4>3
    <3>3. k = c
      <4>1. SUFFICES ASSUME k = c + 1 PROVE FALSE
        BY <3>2
      <4>2. CASE d = r
        BY <1>4, <1>13, <3>2, <4>1, <4>2
      <4>3. CASE d # r
        BY <1>14, <1>15, <3>2, <4>1, <4>3
      <4> QED BY <4>2, <4>3
    <3>4. s # r /\ Calls(s) = c /\ op[s] = o
      <4>1. s # r
        <5>1. s = r => k = c + 1
          BY <1>7, <3>1
        <5> QED BY <1>4, <3>3, <5>1
      <4> QED BY <1>5, <1>7, <3>1, <3>3, <4>1
    <3>5. Agreed(c, o)
      BY <1>4, <1>9, <3>2, <3>3
    <3>6. Known(o, c, s, d, i)
      BY <1>14, <1>16, <3>2, <3>3, <3>5
    <3>7. Told(o, c, s, d, i)
      BY <1>1, <1>5, <3>2, <3>4, <3>5, <3>6 DEF Handshake, Knowledge
    <3> QED BY <1>14, <3>1, <3>3, <3>4, <3>7
  <2>2. Permission(s, d)'
    <3> SUFFICES ASSUME Agreed(Calls(d), op[d])', Flows(op[d], s, d)', NEW i \in (0 .. op[d].count - 1)',
                        Acknowledged(op[d], Calls(d), s, d, i)'
                 PROVE  Freed(op[d], Calls(d), s, d, i)'
      BY DEF Permission
    <3>1. PICK o, k : o = op'[d] /\ k = Calls(d)'
      OBVIOUS
    <3>2. /\ o \in Ops /\ k \in {c, c + 1} /\ Flows(o, s, d) /\ Acknowledged(o, k, s, d, i)' /\ s # d
          /\ Agreed(k, o)'
      <4>1. k >= 1 /\ o = asked'[d][k] /\ asked'[d] \in Seq(Ops) /\ k = Len(asked'[d])
        BY <1>7, <1>18, <1>19, <3>1 DEF Turns, Agreed, TypeOK, Calls
      <4>2. o \in Ops
        BY <1>4, <1>17, <3>1, <4>1
      <4>3. Flows(o, s, d) /\ s # d /\ Acknowledged(o, k, s, d, i)' /\ Agreed(k, o)'
        BY <1>25, <3>1 DEF Flows
      <4> QED BY <1>17, <3>1, <4>2, <4>3
    <3>3. k = c
      <4>1. SUFFICES ASSUME k = c + 1 PROVE FALSE
        BY <3>2
      <4>2. CASE s = r
        BY <1>4, <1>13, <3>2, <4>1, <4>2
      <4>3. CASE s # r
        BY <1>14, <1>15, <3>2, <4>1, <4>3
      <4> QED BY <4>2, <4>3
    <3>4. d # r /\ Calls(d) = c /\ op[d] = o
      <4>1. d # r
        <5>1. d = r => k = c + 1
          BY <1>7, <3>1
        <5> QED BY <1>4, <3>3, <5>1
      <4> QED BY <1>5, <1>7, <3>1, <3>3, <4>1
    <3>5. Agreed(c, o)
      BY <1>4, <1>9, <3>2, <3>3
    <3>6. Acknowledged(o, c, s, d, i)
      BY <1>14, <1>16, <3>2, <3>3, <3>5
    <3>7. Freed(o, c, s, d, i)
      BY <1>1, <1>5, <3>2, <3>4, <3>5, <3>6 DEF Handshake, Permission
    <3> QED BY <1>14, <3>1, <3>3, <3>4, <3>7
  <2>3. ReadySignals(s, d)'
    <3>1. ASSUME NEW j \in DOMAIN chan[s][d][0], NEW i, i = chan[s][d][0][j]
          PROVE  /\ Begun(s)' /\ Flows(op[s], s, d)' /\ i < op[s].count'
                 /\ Told(op[s], Calls(s), s, d, i)' /\ ~Known(op[s], Calls(s), s, d, i)'
      <4>1. /\ Begun(s) /\ Flows(op[s], s, d) /\ i < op[s].count
            /\ Told(op[s], Calls(s), s, d, i) /\ ~Known(op[s], Calls(s), s, d, i)
        BY <1>1, <3>1 DEF Handshake, ReadySignals
      <4>2. Calls(s) = c /\ Agreed(c, op[s]) /\ op[s] \in Ops /\ s # d
        BY <1>11, <1>16, <4>1 DEF Flows
      <4>3. i \in Nat
        <5>1. chan[s][d] \in [{0, 1} -> Seq(Nat)]
          BY <1>1 DEF TypeOK
        <5>2. chan[s][d][0] \in Seq(Nat)
          BY <5>1
        <5> QED BY <3>1, <5>2
      <4>4. d # r
        BY <1>16, <4>1, <4>2
      <4>5. s # r
        <5>1. SUFFICES ASSUME s = r PROVE FALSE
          OBVIOUS
        <5>2. Acknowledged(op[r], c, r, d, i)
          BY <1>16, <4>1, <4>2, <5>1
        <5>3. CASE Calls(d) = c
          <6>1. op[d] = op[r]
            BY <1>1, <1>3, <4>2, <5>1, <5>3, SameOp
          <6>2. Agreed(Calls(d), op[d]) /\ Flows(op[d], r, d) /\ i \in 0 .. op[d].count - 1
            BY <1>1, <4>1, <4>2, <4>3, <5>1, <5>3, <6>1, CountNat
          <6>3. Freed(op[d], Calls(d), r, d, i)
            BY <1>1, <5>2, <5>3, <6>1, <6>2 DEF Handshake, Permission
          <6>4. Known(op[d], Calls(d), r, d, i)
            BY <4>3, <6>2, <6>3, FreedKnown
          <6> QED BY <4>1, <4>2, <5>1, <5>3, <6>1, <6>4
        <5>4. CASE Calls(d) = c + 1
          BY <1>4, <4>1, <4>2, <5>1, <5>4 DEF Known, Beyond
        <5> QED BY <1>8, <5>3, <5>4
      <4>6. op'[s] = op[s] /\ Calls(s)' = Calls(s) /\ (Begun(s)' <=> Begun(s))
        BY <1>5, <1>7, <4>5 DEF Begun
      <4> QED BY <1>14, <1>25, <4>1, <4>2, <4>4, <4>5, <4>6
    <3> QED BY <1>1, <1>2, <3>1 DEF Handshake, ReadySignals, Increasing
  <2>4. FreeSignals(s, d)'
    <3>1. ASSUME NEW j \in DOMAIN chan[d][s][1], NEW i, i = chan[d][s][1][j]
          PROVE  /\ Begun(s)' /\ Flows(op[s], s, d)' /\ i < op[s].count'
                 /\ Freed(op[s], Calls(s), s, d, i)' /\ ~Acknowledged(op[s], Calls(s), s, d, i)'
      <4>1. /\ Begun(s) /\ Flows(op[s], s, d) /\ i < op[s].count
            /\ Freed(op[s], Calls(s), s, d, i) /\ ~Acknowledged(op[s], Calls(s), s, d, i)
        BY <1>1, <3>1 DEF Handshake, FreeSignals
      <4>2. Calls(s) = c /\ Agreed(c, op[s]) /\ op[s] \in Ops /\ s # d
        BY <1>11, <1>16, <4>1 DEF Flows
      <4>5. s # r
        BY <1>16, <4>1, <4>2
      <4>6. op'[s] = op[s] /\ Calls(s)' = Calls(s) /\ (Begun(s)' <=> Begun(s))
        BY <1>5, <1>7, <4>5 DEF Begun
      <4>7. PICK o : o = op[s]
        OBVIOUS
      <4>8. Freed(o, c, s, d, i)'
        BY <1>4, <1>13, <1>14, <4>1, <4>2, <4>7
      <4> QED BY <1>14, <1>25, <4>1, <4>2, <4>5, <4>6, <4>7, <4>8
    <3> QED BY <1>1, <1>2, <3>1 DEF Handshake, FreeSignals, Increasing
  <2> QED BY <2>1, <2>2, <2>3, <2>4
<1> QED BY <1>7, <1>18, <1>19, <1>20, <1>21, <1>23, <1>24 DEF IInv, SharedInv, Handshake

\* What a rank is to copy out of a slot is whole there.
LEMMA ReadsWhole ==
  ASSUME IInv, Shared, NEW r \in Ranks, Within(r), Receiving(r), NEW i \in Nat,
         at[r].uploaded <= i, i < at[r].chunk, NEW p \in DOMAIN PeersNow(r)
  PROVE  /\ PeersNow(r)[p][2] \in Ranks /\ i < op[r].count
         /\ Content(PeersNow(r)[p][2], i % BUFFERS_PER_RANK)
              = Chunk(Calls(r), PeersNow(r)[p][2], Addressee(op[r], r), i)
<1>1. TypeOK /\ Turns /\ Counters(r)
  BY DEF IInv, SharedInv
<1>2. PICK s : s = PeersNow(r)[p][2]
  OBVIOUS
<1>3. s \in Ranks /\ Flows(op[r], s, r) /\ at[r].exchange = Inward(op[r], s, r) /\ op[r] \in Ops
  BY <1>2, AtWork
<1>4. /\ at[r].chunk \in Nat /\ at[r].acked \in Nat /\ at[r].uploaded \in Nat /\ op[r].count \in Nat
      /\ at[r].acked <= at[r].uploaded /\ (pc[r] = "free" => at[r].acked < at[r].uploaded)
      /\ i < op[r].count
  <2>1. /\ at[r].chunk \in Nat /\ at[r].acked \in Nat /\ at[r].uploaded \in Nat /\ op[r].count \in Nat
    BY AtWork
  <2> QED BY <1>1, <2>1 DEF Counters
<1>5. /\ In(r, Calls(r), Inward(op[r], s, r)) /\ ~Beyond(r, Calls(r), Inward(op[r], s, r))
  BY <1>3, AtWork DEF In, Beyond
<1>6. Known(op[r], Calls(r), s, r, i)
  BY <1>5 DEF Known
<1>7. ~Freed(op[r], Calls(r), s, r, i)
  BY <1>4, <1>5 DEF Freed
<1>8. /\ Calls(s) = Calls(r) /\ op[s] = op[r] /\ Begun(s)
      /\ Told(op[r], Calls(r), s, r, i) /\ ~Acknowledged(op[r], Calls(r), s, r, i)
  BY <1>3, <1>4, <1>6, <1>7, Awaits
<1>9. /\ Sends(op[r], Outward(op[r], s, r), s) /\ Outward(op[r], s, r) \in DOMAIN Exchanges(op[r], s)
      /\ Source(op[r], Calls(r), Outward(op[r], s, r), s, i) = Chunk(Calls(r), s, Addressee(op[r], r), i)
  BY <1>1, <1>3, SourceFor
<1>10. /\ ~Beyond(s, Calls(r), Outward(op[r], s, r)) /\ In(s, Calls(r), Outward(op[r], s, r))
       /\ ~(at[s].acked > i)
  BY <1>8 DEF Told, Acknowledged
<1>11. Within(s) /\ Sending(s) /\ at[s].exchange = Outward(op[r], s, r)
  BY <1>8, <1>9, <1>10 DEF Within, Sending, In
<1>12. Whole(s, i)
  <2>1. at[s].chunk \in Nat /\ at[s].acked \in Nat
    BY <1>3, <1>11, AtWork
  <2>2. at[s].acked <= i /\ i < op[s].count
    BY <1>4, <1>8, <1>10, <2>1
  <2>3. at[s].chunk > i \/ (at[s].chunk = i /\ pc[s] = "ready") \/ Whole(s, i)
    BY <1>8, <1>10 DEF Told
  <2> QED BY <1>3, <1>11, <2>1, <2>2, <2>3, StillWhole
<1>13. ChunkOf(s, i) = Chunk(Calls(r), s, Addressee(op[r], r), i)
  BY <1>8, <1>9, <1>11 DEF ChunkOf
<1> QED BY <1>2, <1>3, <1>4, <1>12, <1>13 DEF Content, Whole

\* A copy into a slot is over.
LEMMA DownloadedKeeps ==
  ASSUME IInv, Shared, NEW r \in Ranks, Downloaded(r)
  PROVE  IInv'
<1>1. /\ TypeOK /\ Turns /\ Handshake /\ (\A q \in Ranks : Agreement(q)) /\ LeaseOutlivesCopies
      /\ Counters(r) /\ Slots(r) /\ Uploads(r)
  BY DEF IInv, SharedInv
<1>2. /\ group' = group /\ op' = op /\ asked' = asked /\ broken' = broken /\ dead' = dead /\ faults' = faults
      /\ posted' = posted /\ pc' = pc /\ at' = at /\ up' = up /\ got' = got /\ chan' = chan /\ waiting' = waiting
      /\ down[r] # <<>> /\ down' = [down EXCEPT ![r] = Tail(down[r])]
  BY DEF Downloaded, Group, Control
<1>3. Within(r) /\ Sending(r) /\ pc[r] \notin {"idle", "metadata"}
  BY <1>1, <1>2 DEF Slots, LeaseOutlivesCopies
<1>4. PICK f, g : f = down[r] /\ g = Tail(down[r])
  OBVIOUS
<1>5. /\ f \in Seq([lane : Lanes, tag : Tags, after : Nat, writes : BOOLEAN])
      /\ g \in Seq([lane : Lanes, tag : Tags, after : Nat, writes : BOOLEAN])
      /\ Head(f) = f[1] /\ 1 \in DOMAIN f
      /\ \A j \in DOMAIN g : j + 1 \in DOMAIN f /\ g[j] = f[j + 1]
      /\ \A j \in DOMAIN f : j # 1 => j - 1 \in DOMAIN g /\ g[j - 1] = f[j]
  <2>1. f \in Seq([lane : Lanes, tag : Tags, after : Nat, writes : BOOLEAN]) /\ f # <<>> /\ g = Tail(f)
    BY <1>1, <1>2, <1>4 DEF TypeOK
  <2> QED BY <2>1, EmptySeq, HeadTailProperties, LenProperties
<1>6. PICK h \in at[r].chunk .. op[r].count - 1 :
        /\ Window(r, h) /\ (pc[r] = "ready" => h # at[r].chunk)
        /\ f[1] = Copying(op[r], Calls(r), at[r].exchange, r, h, 0)
  BY <1>1, <1>3, <1>4, <1>5 DEF Slots
<1>7. /\ at[r].chunk \in Nat /\ at[r].acked \in Nat /\ op[r].count \in Nat /\ h \in Nat
      /\ at[r].acked <= at[r].chunk /\ at[r].acked <= h /\ at[r].chunk <= h
  <2>1. at[r].chunk \in Nat /\ at[r].acked \in Nat /\ op[r].count \in Nat
    BY <1>3, AtWork
  <2> QED BY <1>1, <1>3, <1>6, <2>1 DEF Counters
<1>8. f[1].lane = h % BUFFERS_PER_RANK /\ f[1].tag = ChunkOf(r, h) /\ f[1].writes
  BY <1>3, <1>6 DEF Copying, ChunkOf, Sending, Buffers, Shared
<1>9. PICK l, v : l = h % BUFFERS_PER_RANK /\ v = ChunkOf(r, h)
  OBVIOUS
<1>10. mem' = [mem EXCEPT ![r][l] = v]
  BY <1>4, <1>5, <1>8, <1>9 DEF Downloaded
<1>11. l \in Lanes /\ v \in Tags
  <2>2. f[1] \in [lane : Lanes, tag : Tags, after : Nat, writes : BOOLEAN]
    <3>1. PICK T : T = [lane : Lanes, tag : Tags, after : Nat, writes : BOOLEAN]
      OBVIOUS
    <3>2. f \in Seq(T) /\ 1 \in DOMAIN f
      BY <1>5, <3>1
    <3>3. f[1] \in T
      BY <3>2
    <3> QED BY <3>1, <3>3
  <2>1. f[1].lane \in Lanes /\ f[1].tag \in Tags
    BY <2>2
  <2> QED BY <1>8, <1>9, <2>1
<1>12. /\ mem' \in [Ranks -> [Lanes -> Tags]] /\ mem'[r][l] = v
       /\ (\A m \in Lanes : m # l => mem'[r][m] = mem[r][m])
       /\ down'[r] = g
       /\ \A q \in Ranks \ {r} : mem'[q] = mem[q] /\ down'[q] = down[q]
  BY <1>1, <1>2, <1>4, <1>10, <1>11 DEF TypeOK
<1>13. \A q \in Ranks \ {r} : Same(q)
  BY <1>2, <1>12 DEF Same
<1>14. /\ PeersNow(r)' = PeersNow(r) /\ Calls(r)' = Calls(r)
       /\ (Begun(r)' <=> Begun(r)) /\ (Past(r)' <=> Past(r)) /\ (Within(r)' <=> Within(r))
       /\ (Sending(r)' <=> Sending(r)) /\ (Receiving(r)' <=> Receiving(r))
       /\ \A i : ChunkOf(r, i)' = ChunkOf(r, i)
       /\ \A i : Reads(r, i)' = Reads(r, i)
       /\ \A c, x : (Beyond(r, c, x)' <=> Beyond(r, c, x)) /\ (In(r, c, x)' <=> In(r, c, x))
       /\ \A c, o : Agreed(c, o)' <=> Agreed(c, o)
  BY <1>1, <1>2, Stays
<1>15. /\ Ranks' = Ranks /\ \A q : Calls(q)' = Calls(q)
       /\ \A i : Window(r, i)' <=> Window(r, i)
       /\ \A c, x, i : Copying(op[r], c, x, r, i, 0)' = Copying(op[r], c, x, r, i, 0)
       /\ Fetched(r)' = Fetched(r)
  BY <1>2, <1>14, GroupFixed DEF Calls, Window, Fetched, Flows
<1>16. \A i \in Nat : i % BUFFERS_PER_RANK \in Lanes
  BY <1>1, <1>3, AtWork, LanesAre
\* The copy is of the only chunk of the two that the slot is for.
<1>17. ASSUME NEW i \in Nat, at[r].acked <= i, Window(r, i), i % BUFFERS_PER_RANK = l
       PROVE  i = h
  <2>1. i < at[r].acked + BUFFERS_PER_RANK /\ h < at[r].acked + BUFFERS_PER_RANK
    BY <1>6, <1>17 DEF Window
  <2>2. ~(i < h) /\ ~(h < i)
    <3>1. i < h => h < i + BUFFERS_PER_RANK
      BY <1>7, <1>17, <2>1 DEF BUFFERS_PER_RANK
    <3>2. h < i => i < h + BUFFERS_PER_RANK
      BY <1>7, <1>17, <2>1 DEF BUFFERS_PER_RANK
    <3> QED BY <1>7, <1>9, <1>17, <3>1, <3>2, TwoSlots
  <2> QED BY <1>7, <2>2
<1>18. Agreement(r)' /\ Counters(r)' /\ Uploads(r)'
  <2>1. Agreement(r)'
    BY <1>1, <1>2, <1>14, <1>15 DEF Agreement
  <2>4. /\ op'[r] = op[r] /\ pc'[r] = pc[r] /\ at'[r] = at[r] /\ up'[r] = up[r] /\ got'[r] = got[r]
        /\ Counters(r) /\ Uploads(r)
    BY <1>1, <1>2
  <2>2. Counters(r)'
    BY <1>14, <1>15, <2>4 DEF Counters
  <2>3. Uploads(r)'
    BY <1>14, <1>15, <2>4 DEF Uploads
  <2> QED BY <2>1, <2>2, <2>3
<1>19. Slots(r)'
  <2>1. ASSUME NEW j \in DOMAIN g
        PROVE  \E i \in at[r].chunk .. op[r].count - 1 :
                 /\ Window(r, i) /\ (pc[r] = "ready" => i # at[r].chunk)
                 /\ g[j] = Copying(op[r], Calls(r), at[r].exchange, r, i, 0)
    <3>1. PICK k \in DOMAIN down[r] : g[j] = down[r][k]
      BY <1>4, <1>5
    <3> QED BY <1>1, <1>3, <3>1 DEF Slots
  <2>2. ASSUME NEW i \in at[r].acked .. op[r].count - 1, Window(r, i)
        PROVE  \/ i >= at[r].chunk /\ \E j \in DOMAIN g : g[j].lane = i % BUFFERS_PER_RANK
               \/ mem'[r][i % BUFFERS_PER_RANK] = ChunkOf(r, i)
    <3>1. i \in Nat /\ at[r].acked <= i
      BY <1>7
    <3>2. CASE i % BUFFERS_PER_RANK = l
      BY <1>9, <1>12, <1>17, <2>2, <3>1, <3>2
    <3>3. CASE i % BUFFERS_PER_RANK # l
      <4>1. mem'[r][i % BUFFERS_PER_RANK] = mem[r][i % BUFFERS_PER_RANK]
        BY <1>12, <1>16, <3>1, <3>3
      <4>2. ASSUME NEW j \in DOMAIN f, f[j].lane = i % BUFFERS_PER_RANK
            PROVE  \E k \in DOMAIN g : g[k].lane = i % BUFFERS_PER_RANK
        <5>1. j # 1
          BY <1>8, <1>9, <3>3, <4>2
        <5> QED BY <1>5, <4>2, <5>1
      <4> QED BY <1>1, <1>3, <1>4, <2>2, <4>1, <4>2 DEF Slots
    <3> QED BY <3>2, <3>3
  <2>3. op'[r] = op[r] /\ pc'[r] = pc[r] /\ at'[r] = at[r] /\ down'[r] = g
    BY <1>2, <1>12
  <2> QED BY <1>3, <1>14, <1>15, <2>1, <2>2, <2>3 DEF Slots
<1>20. ASSUME NEW i \in Nat, Whole(r, i)
       PROVE  Whole(r, i)'
  <2>1. i % BUFFERS_PER_RANK # l /\ \A j \in DOMAIN g : g[j].lane # i % BUFFERS_PER_RANK
    BY <1>4, <1>5, <1>8, <1>9, <1>20 DEF Whole
  <2>2. mem'[r][i % BUFFERS_PER_RANK] = mem[r][i % BUFFERS_PER_RANK]
    BY <1>12, <1>16, <2>1
  <2> QED BY <1>12, <1>14, <1>20, <2>1, <2>2 DEF Whole
<1>21. ASSUME NEW q \in Ranks, NEW i \in Nat
       PROVE  /\ Told(op[r], Calls(r), r, q, i) => Told(op[r], Calls(r), r, q, i)'
              /\ Freed(op[r], Calls(r), q, r, i) => Freed(op[r], Calls(r), q, r, i)'
              /\ Known(op[r], Calls(r), q, r, i)' => Known(op[r], Calls(r), q, r, i)
              /\ Acknowledged(op[r], Calls(r), r, q, i)' => Acknowledged(op[r], Calls(r), r, q, i)
  <2>1. /\ Outward(op[r], r, q)' = Outward(op[r], r, q) /\ Inward(op[r], q, r)' = Inward(op[r], q, r)
        /\ Place(op[r], r, q)' = Place(op[r], r, q) /\ Place(op[r], q, r)' = Place(op[r], q, r)
    BY <1>2, GroupFixed
  <2>2. Told(op[r], Calls(r), r, q, i) => Told(op[r], Calls(r), r, q, i)'
    BY <1>2, <1>14, <1>20, <2>1 DEF Told
  <2>3. Freed(op[r], Calls(r), q, r, i) => Freed(op[r], Calls(r), q, r, i)'
    BY <1>2, <1>14, <2>1 DEF Freed
  <2>6. \A pl : HeardFrom(r, pl)' <=> HeardFrom(r, pl)
    BY <1>2 DEF HeardFrom
  <2>4. Known(op[r], Calls(r), q, r, i)' => Known(op[r], Calls(r), q, r, i)
    BY <1>2, <1>14, <2>1, <2>6 DEF Known
  <2>5. Acknowledged(op[r], Calls(r), r, q, i)' => Acknowledged(op[r], Calls(r), r, q, i)
    BY <1>2, <1>14, <2>1, <2>6 DEF Acknowledged
  <2> QED BY <2>2, <2>3, <2>4, <2>5
<1>22. Goes(r) /\ Learns(r)
  <2>1. \A i \in 0 .. op[r].count - 1 : i \in Nat
    BY <1>7
  <2> QED BY <1>2, <1>13, <1>21, <2>1 DEF Goes, Learns
<1>23. Handshake'
  BY <1>2, <1>14, <1>21, <1>22, HandshakeKept
<1>24. TypeOK'
  <2>1. down' \in [Ranks -> Seq([lane : Lanes, tag : Tags, after : Nat, writes : BOOLEAN])]
    BY <1>1, <1>2, <1>4, <1>5 DEF TypeOK
  <2> QED BY <1>1, <1>2, <1>12, <2>1, GroupFixed DEF TypeOK
<1> QED BY <1>2, <1>3, <1>18, <1>19, <1>22, <1>23, <1>24, SharedStep

\* A copy out of the peers' slots is over.
LEMMA UploadedKeeps ==
  ASSUME IInv, Shared, NEW r \in Ranks, Uploaded(r)
  PROVE  IInv'
<1>1. /\ TypeOK /\ Turns /\ Handshake /\ (\A q \in Ranks : Agreement(q)) /\ LeaseOutlivesCopies
      /\ Counters(r) /\ Slots(r) /\ Uploads(r)
  BY DEF IInv, SharedInv
<1>2. /\ group' = group /\ op' = op /\ asked' = asked /\ broken' = broken /\ dead' = dead /\ faults' = faults
      /\ posted' = posted /\ pc' = pc /\ mem' = mem /\ down' = down /\ chan' = chan /\ waiting' = waiting
      /\ up[r] # <<>> /\ up' = [up EXCEPT ![r] = Tail(up[r])]
      /\ at' = [at EXCEPT ![r].uploaded = @ + 1]
  BY DEF Uploaded, Group, Control
<1>3. Within(r) /\ Receiving(r) /\ pc[r] \notin {"idle", "metadata"}
  BY <1>1, <1>2 DEF Uploads, LeaseOutlivesCopies
<1>4. PICK f, g, k : f = up[r] /\ g = Tail(up[r]) /\ k = at[r].uploaded
  OBVIOUS
<1>5. /\ f \in Seq(SUBSET [rank : Ranks, lane : Lanes, tag : Tags]) /\ Len(f) \in Nat \ {0}
      /\ g \in Seq(SUBSET [rank : Ranks, lane : Lanes, tag : Tags]) /\ Len(g) = Len(f) - 1
  <2>1. f \in Seq(SUBSET [rank : Ranks, lane : Lanes, tag : Tags]) /\ f # <<>> /\ g = Tail(f)
    BY <1>1, <1>2, <1>4 DEF TypeOK
  <2> QED BY <2>1, EmptySeq, HeadTailProperties, LenProperties
<1>27. /\ Head(f) = f[1] /\ 1 \in DOMAIN f /\ Len(f) \in Nat \ {0} /\ Len(g) = Len(f) - 1
       /\ \A j \in DOMAIN g : j \in Nat /\ j + 1 \in DOMAIN f /\ g[j] = f[j + 1]
  <2>1. f \in Seq(SUBSET [rank : Ranks, lane : Lanes, tag : Tags]) /\ f # <<>> /\ g = Tail(f)
    BY <1>1, <1>2, <1>4 DEF TypeOK
  <2> QED BY <2>1, EmptySeq, HeadTailProperties, LenProperties
<1>6. /\ at[r].chunk \in Nat /\ at[r].acked \in Nat /\ op[r].count \in Nat /\ k \in Nat
  BY <1>3, <1>4, AtWork
<1>7. /\ Len(f) = at[r].chunk - k /\ \A j \in DOMAIN f : f[j] = Reads(r, k + j - 1)
  BY <1>1, <1>3, <1>4 DEF Uploads
<1>8. Head(f) = Reads(r, k) /\ k < at[r].chunk
  <2>1. k + 1 - 1 = k
    BY <1>6
  <2> QED BY <1>6, <1>7, <1>27, <2>1
<1>9. k < op[r].count /\ at[r].acked <= k /\ (pc[r] = "free" => at[r].acked < k)
  BY <1>1, <1>3, <1>4, <1>6, <1>8 DEF Counters
<1>10. PICK c, o, x, n : c = Calls(r) /\ o = op[r] /\ x = at[r].exchange /\ n = op[r].count
  OBVIOUS
<1>11. PICK F : F = {Chunk(c, PeersNow(r)[p][2], Addressee(o, r), k) : p \in DOMAIN PeersNow(r)}
  OBVIOUS
<1>12. {Content(u.rank, u.lane) : u \in Head(f)} = F
  <2>1. ASSUME NEW p \in DOMAIN PeersNow(r)
        PROVE  Content(PeersNow(r)[p][2], k % BUFFERS_PER_RANK) = Chunk(c, PeersNow(r)[p][2], Addressee(o, r), k)
    BY <1>3, <1>4, <1>6, <1>8, <1>10, ReadsWhole
  <2> DEFINE R(p) == [rank |-> PeersNow(r)[p][2], lane |-> k % BUFFERS_PER_RANK,
                      tag |-> Chunk(c, PeersNow(r)[p][2], Addressee(o, r), k)]
             G(p) == Chunk(c, PeersNow(r)[p][2], Addressee(o, r), k)
  <2>2. Head(f) = {R(p) : p \in DOMAIN PeersNow(r)}
    BY <1>8, <1>10 DEF Reads
  <2>3. \A p \in DOMAIN PeersNow(r) : Content(R(p).rank, R(p).lane) = G(p)
    BY <2>1
  <2>4. F = {G(p) : p \in DOMAIN PeersNow(r)}
    BY <1>11
  <2> HIDE DEF R, G
  <2> QED BY <2>2, <2>3, <2>4
<1>13. got' = [got EXCEPT ![r] = got[r] \cup F]
  BY <1>4, <1>12 DEF Uploaded
<1>14. /\ at'[r] = [at[r] EXCEPT !.uploaded = k + 1]
       /\ at'[r].exchange = at[r].exchange /\ at'[r].chunk = at[r].chunk /\ at'[r].acked = at[r].acked
       /\ at'[r].uploaded = k + 1 /\ at'[r].peer = at[r].peer
       /\ up'[r] = g /\ got'[r] = got[r] \cup F
       /\ \A q \in Ranks \ {r} : at'[q] = at[q] /\ up'[q] = up[q] /\ got'[q] = got[q]
  BY <1>1, <1>2, <1>4, <1>13 DEF TypeOK
<1>15. \A q \in Ranks \ {r} : Same(q)
  BY <1>2, <1>14 DEF Same
<1>16. /\ PeersNow(r)' = PeersNow(r) /\ Calls(r)' = Calls(r)
       /\ (Begun(r)' <=> Begun(r)) /\ (Past(r)' <=> Past(r)) /\ (Within(r)' <=> Within(r))
       /\ (Sending(r)' <=> Sending(r)) /\ (Receiving(r)' <=> Receiving(r))
       /\ \A i : ChunkOf(r, i)' = ChunkOf(r, i)
       /\ \A i : Reads(r, i)' = Reads(r, i)
       /\ \A d, y : (Beyond(r, d, y)' <=> Beyond(r, d, y)) /\ (In(r, d, y)' <=> In(r, d, y))
       /\ \A d, p : Agreed(d, p)' <=> Agreed(d, p)
  BY <1>1, <1>2, <1>14, Stays
<1>17. /\ Ranks' = Ranks /\ \A q : Calls(q)' = Calls(q)
       /\ \A i : Window(r, i)' <=> Window(r, i)
       /\ \A d, y, i : Copying(op[r], d, y, r, i, 0)' = Copying(op[r], d, y, r, i, 0)
       /\ \A i : Whole(r, i)' <=> Whole(r, i)
  BY <1>2, <1>14, <1>16, GroupFixed DEF Calls, Window, Whole
<1>18. Agreement(r)'
  BY <1>1, <1>2, <1>14, <1>16, <1>17 DEF Agreement
<1>19. Counters(r)'
  <2>1. /\ op'[r] = op[r] /\ pc'[r] = pc[r] /\ Counters(r) /\ at[r].peer = at'[r].peer
    BY <1>1, <1>2, <1>14
  <2>2. /\ at'[r].chunk = at[r].chunk /\ at'[r].acked = at[r].acked /\ at'[r].uploaded = k + 1
        /\ k + 1 <= at[r].chunk /\ at[r].acked <= k + 1 /\ (pc[r] = "free" => at[r].acked < k + 1)
    BY <1>6, <1>8, <1>9, <1>14
  <2> QED BY <1>3, <1>16, <1>17, <2>1, <2>2 DEF Counters
<1>20. Slots(r)'
  <2>1. /\ op'[r] = op[r] /\ pc'[r] = pc[r] /\ down'[r] = down[r] /\ mem'[r] = mem[r] /\ Slots(r)
        /\ at'[r].chunk = at[r].chunk /\ at'[r].acked = at[r].acked /\ at'[r].exchange = at[r].exchange
    BY <1>1, <1>2, <1>14
  <2> QED BY <1>16, <1>17, <2>1 DEF Slots
<1>21. Fetched(r)' = Fetched(r) \cup F
  <2> DEFINE A(b) == {f2 \in Ranks \X (0 .. n - 1) :
              /\ Flows(o, f2[1], r)
              /\ \/ Inward(o, f2[1], r) < x
                 \/ Inward(o, f2[1], r) = x /\ f2[2] < b}
  <2>1. Fetched(r) = {Chunk(c, z[1], Addressee(o, r), z[2]) : z \in A(k)}
    BY <1>4, <1>10 DEF Fetched
  <2>2. Fetched(r)' = {Chunk(c, z[1], Addressee(o, r), z[2]) : z \in A(k + 1)}
    BY <1>2, <1>10, <1>14, <1>16, <1>17, GroupFixed DEF Fetched, Flows
  <2>3. \A s \in Ranks : Flows(o, s, r) /\ Inward(o, s, r) = x <=> \E p \in DOMAIN PeersNow(r) : PeersNow(r)[p][2] = s
    <3>1. \A s \in Ranks : Flows(o, s, r) => Place(o, s, r) \in DOMAIN Exchanges(o, r)[Inward(o, s, r)]
      BY <1>1, <1>3, <1>10, AtWork, Meetings
    <3>2. PeersNow(r) = Exchanges(o, r)[x]
      BY <1>10 DEF PeersNow
    <3> QED BY <1>3, <1>10, <3>1, <3>2, AtWork
  <2>4. \A p \in DOMAIN PeersNow(r) : PeersNow(r)[p][2] \in Ranks
    BY <1>3, AtWork
  <2>5. F = {Chunk(c, s, Addressee(o, r), k) : s \in {s \in Ranks : Flows(o, s, r) /\ Inward(o, s, r) = x}}
    BY <1>11, <2>3, <2>4
  <2>6. k \in 0 .. n - 1
    BY <1>6, <1>9, <1>10
  <2>7. A(k + 1) = A(k) \cup {<<s, k>> : s \in {s \in Ranks : Flows(o, s, r) /\ Inward(o, s, r) = x}}
    BY <1>6, <1>10, <2>6
  <2>8. PICK B, S : B = A(k) /\ S = {s \in Ranks : Flows(o, s, r) /\ Inward(o, s, r) = x}
    OBVIOUS
  <2>9. PICK C : C = {<<s, k>> : s \in S}
    OBVIOUS
  <2>10. A(k + 1) = B \cup C
    BY <2>7, <2>8, <2>9
  <2>11. {Chunk(c, z[1], Addressee(o, r), z[2]) : z \in C} = F
    <3>1. \A s \in S : <<s, k>>[1] = s /\ <<s, k>>[2] = k
      OBVIOUS
    <3>2. F = {Chunk(c, s, Addressee(o, r), k) : s \in S}
      BY <2>5, <2>8
    <3>3. {Chunk(c, z[1], Addressee(o, r), z[2]) : z \in C} = {Chunk(c, <<s, k>>[1], Addressee(o, r), <<s, k>>[2]) : s \in S}
      BY <2>9
    <3> QED BY <3>1, <3>2, <3>3
  <2> HIDE DEF A
  <2>12. Fetched(r)' = {Chunk(c, z[1], Addressee(o, r), z[2]) : z \in B \cup C}
    BY <2>2, <2>10
  <2>13. Fetched(r) = {Chunk(c, z[1], Addressee(o, r), z[2]) : z \in B}
    BY <2>1, <2>8
  <2> QED BY <2>11, <2>12, <2>13
<1>22. Uploads(r)'
  <2>1. Len(g) = at[r].chunk - (k + 1)
    <3>1. Len(g) = Len(f) - 1 /\ Len(f) = at[r].chunk - k
      BY <1>7, <1>27
    <3> QED BY <1>6, <3>1
  <2>2. ASSUME NEW j \in DOMAIN g
        PROVE  g[j] = Reads(r, (k + 1) + j - 1)
    <3>1. k + (j + 1) - 1 = (k + 1) + j - 1
      BY <1>6, <1>27
    <3> QED BY <1>7, <1>27, <3>1
  <2>3. pc[r] \in {"metadata", "chunk", "ready", "free", "drain"} => got'[r] = Fetched(r)'
    BY <1>1, <1>14, <1>21 DEF Uploads
  <2> QED BY <1>2, <1>3, <1>14, <1>16, <2>1, <2>2, <2>3 DEF Uploads
<1>23. ASSUME NEW q \in Ranks, NEW i \in Nat
       PROVE  /\ Told(op[r], Calls(r), r, q, i) => Told(op[r], Calls(r), r, q, i)'
              /\ Freed(op[r], Calls(r), q, r, i) => Freed(op[r], Calls(r), q, r, i)'
              /\ Known(op[r], Calls(r), q, r, i)' => Known(op[r], Calls(r), q, r, i)
              /\ Acknowledged(op[r], Calls(r), r, q, i)' => Acknowledged(op[r], Calls(r), r, q, i)
  <2>1. /\ Outward(op[r], r, q)' = Outward(op[r], r, q) /\ Inward(op[r], q, r)' = Inward(op[r], q, r)
        /\ Place(op[r], r, q)' = Place(op[r], r, q) /\ Place(op[r], q, r)' = Place(op[r], q, r)
    BY <1>2, GroupFixed
  <2>2. Told(op[r], Calls(r), r, q, i) => Told(op[r], Calls(r), r, q, i)'
    <3>1. pc'[r] = pc[r] /\ at'[r].chunk = at[r].chunk /\ at'[r].peer = at[r].peer
      BY <1>2, <1>14
    <3> QED BY <1>16, <1>17, <2>1, <3>1 DEF Told
  <2>3. Freed(op[r], Calls(r), q, r, i) => Freed(op[r], Calls(r), q, r, i)'
    <3>1. at[r].uploaded > i => at'[r].uploaded > i
      BY <1>4, <1>6, <1>14
    <3> QED BY <1>2, <1>14, <1>16, <2>1, <3>1 DEF Freed
  <2>6. \A pl : HeardFrom(r, pl)' <=> HeardFrom(r, pl)
    BY <1>2, <1>14 DEF HeardFrom
  <2>4. Known(op[r], Calls(r), q, r, i)' => Known(op[r], Calls(r), q, r, i)
    BY <1>2, <1>14, <1>16, <2>1, <2>6 DEF Known
  <2>5. Acknowledged(op[r], Calls(r), r, q, i)' => Acknowledged(op[r], Calls(r), r, q, i)
    BY <1>2, <1>14, <1>16, <2>1, <2>6 DEF Acknowledged
  <2> QED BY <2>2, <2>3, <2>4, <2>5
<1>24. Goes(r) /\ Learns(r)
  <2>1. \A i \in 0 .. op[r].count - 1 : i \in Nat
    BY <1>6
  <2> QED BY <1>2, <1>15, <1>23, <2>1 DEF Goes, Learns
<1>25. Handshake'
  BY <1>2, <1>16, <1>23, <1>24, HandshakeKept
<1>26. TypeOK'
  <2>1. F \subseteq Tags
    <3>1. \A p \in DOMAIN PeersNow(r) : PeersNow(r)[p][2] \in Int
      BY <1>1, <1>3, AtWork, Sizes
    <3>2. c \in Int /\ Addressee(o, r) \in Int
      BY <1>1, <1>3, <1>10, AtWork, Sizes DEF Addressee, All
    <3> QED BY <1>1, <1>6, <1>11, <3>1, <3>2, ChunkType
  <2>2. got' \in [Ranks -> SUBSET Tags]
    BY <1>1, <1>13, <2>1 DEF TypeOK
  <2>3. up' \in [Ranks -> Seq(SUBSET [rank : Ranks, lane : Lanes, tag : Tags])]
    BY <1>1, <1>2, <1>4, <1>5 DEF TypeOK
  <2>4. at' \in [Ranks -> [exchange : Nat, chunk : Nat, acked : Nat, peer : Nat \ {0}, uploaded : Nat]]
    <3>1. at[r] \in [exchange : Nat, chunk : Nat, acked : Nat, peer : Nat \ {0}, uploaded : Nat]
      BY <1>1 DEF TypeOK
    <3>2. [at[r] EXCEPT !.uploaded = k + 1] \in [exchange : Nat, chunk : Nat, acked : Nat, peer : Nat \ {0}, uploaded : Nat]
      BY <1>6, <3>1
    <3>3. at' = [at EXCEPT ![r] = [at[r] EXCEPT !.uploaded = k + 1]]
      BY <1>2, <1>4
    <3> QED BY <1>1, <3>2, <3>3 DEF TypeOK
  <2> QED BY <1>1, <1>2, <2>2, <2>3, <2>4, GroupFixed DEF TypeOK
<1> QED BY <1>2, <1>3, <1>18, <1>19, <1>20, <1>22, <1>24, <1>25, <1>26, SharedStep

\* A step that changes nothing.
LEMMA SharedStutters ==
  ASSUME IInv, Shared, UNCHANGED vars
  PROVE  IInv'
<1>1. /\ TypeOK /\ Turns /\ Handshake /\ LeaseOutlivesCopies
      /\ \A q \in Ranks : Agreement(q) /\ Counters(q) /\ Slots(q) /\ Uploads(q)
  BY DEF IInv, SharedInv
<1>2. /\ group' = group /\ op' = op /\ asked' = asked /\ broken' = broken /\ dead' = dead /\ faults' = faults
      /\ posted' = posted /\ pc' = pc /\ at' = at /\ mem' = mem /\ down' = down /\ up' = up /\ got' = got
      /\ chan' = chan /\ waiting' = waiting
  BY DEF vars
<1>3. \A q : Same(q)
  BY <1>2 DEF Same
<1>4. PICK r \in Ranks : TRUE
  BY <1>1, Sizes
<1>5. \A q \in Ranks : \A o, c, e, i :
        /\ Told(o, c, q, e, i)' <=> Told(o, c, q, e, i)
        /\ Acknowledged(o, c, q, e, i)' <=> Acknowledged(o, c, q, e, i)
        /\ Known(o, c, e, q, i)' <=> Known(o, c, e, q, i)
        /\ Freed(o, c, e, q, i)' <=> Freed(o, c, e, q, i)
  BY <1>2, <1>3, SameHandshake
<1>6. /\ Calls(r)' = Calls(r)
      /\ (Begun(r)' <=> Begun(r)) /\ (Past(r)' <=> Past(r)) /\ (Within(r)' <=> Within(r))
      /\ Counters(r)' /\ Slots(r)' /\ Uploads(r)'
  BY <1>1, <1>2, <1>3, SameLocal
<1>7. Goes(r) /\ Learns(r)
  BY <1>2, <1>3, <1>5, <1>6 DEF Goes, Learns
<1>8. Handshake'
  BY <1>2, <1>5, <1>6, <1>7, HandshakeKept
<1>9. Ranks' = Ranks /\ (\A q : Calls(q)' = Calls(q)) /\ \A c, o : Agreed(c, o)' <=> Agreed(c, o)
  BY <1>2, GroupFixed DEF Calls, Agreed
<1>10. Agreement(r)'
  BY <1>1, <1>2, <1>6, <1>9 DEF Agreement
<1>11. TypeOK'
  BY <1>1, <1>2, GroupFixed DEF TypeOK
<1>12. pc'[r] \in {"idle", "metadata"} => down'[r] = <<>> /\ up'[r] = <<>>
  BY <1>1, <1>2 DEF LeaseOutlivesCopies
<1> QED BY <1>2, <1>6, <1>7, <1>8, <1>10, <1>11, <1>12, SharedStep

\* The wait for the receive ends with the number of another chunk.
LEMMA ConfusionKeeps ==
  ASSUME IInv, Shared, NEW r \in Ranks, Hear(r),
         Head(chan[Pair(r, at[r].peer, Tag(r))[2]][r][Tag(r)]) # Sequence(r)
  PROVE  IInv'
<1>1. TypeOK /\ (\A q \in Ranks : Agreement(q)) /\ Counters(r)
  BY DEF IInv, SharedInv
<1>2. PICK t, p, a : t = Tag(r) /\ p = at[r].peer /\ a = Pair(r, p, t)[2]
  OBVIOUS
<1>3. /\ group' = group /\ op' = op /\ asked' = asked /\ dead' = dead /\ faults' = faults
      /\ posted' = posted /\ mem' = mem /\ down' = down /\ up' = up /\ got' = got /\ at' = at
      /\ pc' = [pc EXCEPT ![r] = "failed"] /\ waiting' = [waiting EXCEPT ![r] = FALSE]
      /\ broken' = [broken EXCEPT ![r] = @ \/ TRUE]
      /\ pc[r] \in {"ready", "free"} /\ chan[a][r][t] # <<>>
      /\ chan' = Put(chan, a, r, t, Tail(chan[a][r][t]))
  BY <1>2 DEF Hear, Streams, Put, Goto
<1>4. /\ pc'[r] = "failed" /\ broken'[r] = TRUE
      /\ \A q \in Ranks \ {r} : pc'[q] = pc[q] /\ broken'[q] = broken[q] /\ waiting'[q] = waiting[q]
  BY <1>1, <1>3 DEF TypeOK
<1>5. \A q \in Ranks \ {r} : Same(q)
  BY <1>3, <1>4 DEF Same
<1>6. Within(r)
  BY <1>1, <1>3 DEF Agreement
<1>7. a \in Ranks \cup {None} /\ t \in {0, 1}
  <2>1. p \in DOMAIN PeersNow(r)
    BY <1>1, <1>2, <1>3, <1>6 DEF Counters
  <2>2. PeersNow(r)[p][1] \in Ranks \cup {None} /\ PeersNow(r)[p][2] \in Ranks \cup {None}
    BY <1>6, <2>1, AtWork
  <2> QED BY <1>2, <2>2 DEF Pair, Tag
<1>8. /\ chan' \in [Ranks -> [Ranks -> [{0, 1} -> Seq(Nat)]]]
      /\ a \in Ranks => chan'[a][r][t] = Tail(chan[a][r][t])
      /\ \A s, d \in Ranks, u \in {0, 1} : ~(s = a /\ d = r /\ u = t) => chan'[s][d][u] = chan[s][d][u]
  BY <1>3, <1>7, TakesSignal
<1>9. \A s, d \in Ranks, u \in {0, 1} :
        \/ chan'[s][d][u] = chan[s][d][u]
        \/ d = r /\ chan[s][r][u] # <<>> /\ chan'[s][r][u] = Tail(chan[s][r][u])
  BY <1>3, <1>8
<1>10. TypeOK'
  <2>1. /\ pc' \in [Ranks -> {"idle", "metadata", "chunk", "ready", "free", "gloo", "drain", "failed"}]
        /\ waiting' \in [Ranks -> BOOLEAN] /\ broken' \in [Ranks -> BOOLEAN]
    BY <1>1, <1>3 DEF TypeOK
  <2> QED BY <1>1, <1>3, <1>8, <2>1, GroupFixed DEF TypeOK
<1> QED BY <1>3, <1>4, <1>5, <1>9, <1>10, StopKeeps

\* A wait times out.
LEMMA TimeOutKeeps ==
  ASSUME IInv, Shared, NEW r \in Ranks, TimeOut(r)
  PROVE  IInv'
<1>1. TypeOK /\ (\A q \in Ranks : Agreement(q)) /\ LeaseOutlivesCopies
  BY DEF IInv, SharedInv
<1>2. /\ group' = group /\ op' = op /\ asked' = asked
      /\ posted' = posted /\ mem' = mem /\ down' = down /\ up' = up /\ got' = got /\ at' = at
      /\ chan' = chan /\ waiting' = waiting
      /\ pc' = [pc EXCEPT ![r] = IF pc[r] = "metadata" THEN "idle" ELSE "failed"]
      /\ dead' = [dead EXCEPT ![r] = TRUE] /\ broken' = [broken EXCEPT ![r] = @ \/ pc[r] \in {"ready", "free"}]
      /\ pc[r] \in {"metadata", "ready", "free", "gloo"} /\ faults' \in {faults, faults + 1}
  BY DEF TimeOut, Control, Streams, Goto
<1>3. /\ pc'[r] = (IF pc[r] = "metadata" THEN "idle" ELSE "failed") /\ dead'[r] = TRUE
      /\ \A q \in Ranks \ {r} : pc'[q] = pc[q] /\ dead'[q] = dead[q] /\ broken'[q] = broken[q]
  BY <1>1, <1>2 DEF TypeOK
<1>4. \A q \in Ranks \ {r} : Same(q)
  BY <1>2, <1>3 DEF Same
<1>5. pc[r] # "gloo"
  BY <1>1 DEF Agreement
<1>6. TypeOK'
  <2>1. pc' \in [Ranks -> {"idle", "metadata", "chunk", "ready", "free", "gloo", "drain", "failed"}]
    BY <1>1, <1>2 DEF TypeOK
  <2>2. dead' \in [Ranks -> BOOLEAN] /\ broken' \in [Ranks -> BOOLEAN] /\ faults' \in Nat
    BY <1>1, <1>2 DEF TypeOK
  <2> QED BY <1>1, <1>2, <2>1, <2>2, GroupFixed DEF TypeOK
<1>7. pc'[r] = "idle" => down[r] = <<>> /\ up[r] = <<>>
  BY <1>1, <1>2, <1>3 DEF LeaseOutlivesCopies
<1> QED BY <1>2, <1>3, <1>4, <1>5, <1>6, <1>7, StopKeeps

\* The context is shut down.
LEMMA ShutdownKeeps ==
  ASSUME IInv, Shared, NEW r \in Ranks, Shutdown(r)
  PROVE  IInv'
<1>1. TypeOK /\ (\A q \in Ranks : Agreement(q)) /\ LeaseOutlivesCopies
  BY DEF IInv, SharedInv
<1>2. /\ group' = group /\ op' = op /\ asked' = asked /\ broken' = broken /\ pc' = pc
      /\ posted' = posted /\ mem' = mem /\ down' = down /\ up' = up /\ got' = got /\ at' = at
      /\ chan' = chan /\ waiting' = waiting
      /\ dead' = [dead EXCEPT ![r] = TRUE] /\ pc[r] = "idle" /\ faults' = faults + 1
  BY DEF Shutdown, Control, Streams
<1>3. /\ dead'[r] = TRUE
      /\ \A q \in Ranks \ {r} : dead'[q] = dead[q]
  BY <1>1, <1>2 DEF TypeOK
<1>4. \A q \in Ranks \ {r} : Same(q)
  BY <1>2, <1>3 DEF Same
<1>5. TypeOK'
  <2>1. dead' \in [Ranks -> BOOLEAN] /\ faults' \in Nat
    BY <1>1, <1>2 DEF TypeOK
  <2> QED BY <1>1, <1>2, <2>1, GroupFixed DEF TypeOK
<1>6. down[r] = <<>> /\ up[r] = <<>>
  BY <1>1, <1>2 DEF LeaseOutlivesCopies
<1> QED BY <1>2, <1>3, <1>4, <1>5, <1>6, StopKeeps

\* The streams are synchronized and the call ends, or the metadata were not the same.
LEMMA EndKeeps ==
  ASSUME IInv, Shared, NEW r \in Ranks,
         \/ Return(r)
         \/ Metadata(r) /\ ~(\A s \in Ranks : asked[s][Calls(r)] = op[r])
  PROVE  IInv'
<1>1. TypeOK /\ (\A q \in Ranks : Agreement(q)) /\ LeaseOutlivesCopies
  BY DEF IInv, SharedInv
<1>2. /\ group' = group /\ op' = op /\ asked' = asked /\ broken' = broken /\ dead' = dead /\ faults' = faults
      /\ posted' = posted /\ mem' = mem /\ down' = down /\ up' = up /\ got' = got /\ at' = at
      /\ chan' = chan /\ waiting' = waiting
      /\ pc' = [pc EXCEPT ![r] = "idle"] /\ pc[r] \in {"drain", "failed", "metadata"}
  BY DEF Return, Metadata, Group, Control, Streams, Goto
<1>3. /\ pc'[r] = "idle"
      /\ \A q \in Ranks \ {r} : pc'[q] = pc[q]
  BY <1>1, <1>2 DEF TypeOK
<1>4. \A q \in Ranks \ {r} : Same(q)
  BY <1>2, <1>3 DEF Same
<1>5. TypeOK'
  <2>1. pc' \in [Ranks -> {"idle", "metadata", "chunk", "ready", "free", "gloo", "drain", "failed"}]
    BY <1>1, <1>2 DEF TypeOK
  <2> QED BY <1>1, <1>2, <2>1, GroupFixed DEF TypeOK
<1>6. down[r] = <<>> /\ up[r] = <<>>
  BY <1>1 DEF LeaseOutlivesCopies, Return, Metadata
<1>7. CASE Return(r)
  <2>1. pc[r] \in {"drain", "failed"}
    BY <1>7 DEF Return
  <2> QED BY <1>2, <1>3, <1>4, <1>5, <1>6, <2>1, StopKeeps
<1>8. CASE Metadata(r) /\ ~(\A s \in Ranks : asked[s][Calls(r)] = op[r])
  <2>1. /\ pc[r] = "metadata" /\ (\A q \in Ranks : Calls(q) >= Calls(r)) /\ ~Agreed(Calls(r), op[r])
    BY <1>8 DEF Metadata, Agreed
  <2> QED BY <1>2, <1>3, <1>4, <1>5, <1>6, <2>1, StopKeeps
<1> QED BY <1>7, <1>8

\* The wait for the send ends.
LEMMA HeardKeeps ==
  ASSUME IInv, Shared, NEW r \in Ranks, Heard(r)
  PROVE  IInv'
<1>1. TypeOK /\ Agreement(r) /\ Counters(r) /\ pc[r] \in {"ready", "free"} /\ ~waiting[r]
  BY DEF IInv, SharedInv, Heard
<1>2. Within(r)
  BY <1>1 DEF Agreement
<1>3. /\ at[r].peer \in Nat \ {0} /\ Len(PeersNow(r)) \in Nat \ {0} /\ DOMAIN PeersNow(r) = 1 .. Len(PeersNow(r))
  BY <1>2, AtWork
<1>4. pc[r] = "ready" => at[r].chunk < op[r].count
  BY <1>1, <1>2 DEF Counters
<1>5. CASE at[r].peer < Len(PeersNow(r))
  <2>1. /\ Post(r, at[r].peer + 1, Tag(r), Sequence(r)) /\ at' = [at EXCEPT ![r].peer = @ + 1]
        /\ pc' = pc /\ UNCHANGED <<down, up, Group, posted, mem, got>>
    BY <1>5 DEF Heard
  <2>2. PICK p : p = at[r].peer + 1
    OBVIOUS
  <2>3. p \in DOMAIN PeersNow(r) /\ at' = [at EXCEPT ![r].peer = p] /\ UNCHANGED <<Group, posted, Streams>>
    BY <1>3, <1>5, <2>1, <2>2 DEF Streams
  <2>4. pc' = [pc EXCEPT ![r] = pc[r]]
    BY <1>1, <2>1 DEF TypeOK
  <2>5. CASE pc[r] = "ready"
    <3>1. Post(r, p, 0, at[r].chunk)
      BY <2>1, <2>2, <2>5 DEF Tag, Sequence
    <3> QED BY <1>1, <1>2, <1>4, <2>2, <2>3, <2>4, <2>5, <3>1, TellsKeeps
  <2>6. CASE pc[r] = "free"
    <3>1. Post(r, p, 1, at[r].acked)
      BY <2>1, <2>2, <2>6 DEF Tag, Sequence
    <3> QED BY <1>1, <1>2, <2>2, <2>3, <2>4, <2>6, <3>1, FreesKeeps
  <2> QED BY <1>1, <2>5, <2>6
<1>6. CASE ~(at[r].peer < Len(PeersNow(r)))
  <2>1. at[r].peer >= Len(PeersNow(r))
    BY <1>3, <1>6
  <2>2. CASE pc[r] = "ready"
    <3>1. /\ Upload(r) /\ pc' = [pc EXCEPT ![r] = "chunk"] /\ at' = [at EXCEPT ![r].chunk = @ + 1]
          /\ UNCHANGED <<Group, posted, mem, got, down, chan, waiting>>
      BY <1>6, <2>2 DEF Heard, Goto
    <3> QED BY <1>1, <1>2, <2>1, <2>2, <3>1, UploadKeeps
  <2>3. CASE pc[r] = "free"
    <3>1. /\ pc' = [pc EXCEPT ![r] = "chunk"] /\ at' = [at EXCEPT ![r].acked = @ + 1]
          /\ IF at[r].chunk = op[r].count THEN UNCHANGED down
             ELSE Download(op[r], Calls(r), at[r].exchange, r, at[r].chunk, 0)
          /\ UNCHANGED <<Group, posted, mem, got, up, chan, waiting>>
      BY <1>6, <2>3 DEF Heard, Goto
    <3> QED BY <1>1, <1>2, <2>1, <2>3, <3>1, DownloadKeeps
  <2> QED BY <1>1, <2>2, <2>3
<1> QED BY <1>5, <1>6

\* Whatever a rank does through shared slots.
LEMMA SharedKeeps ==
  ASSUME IInv, Shared, NEW r \in Ranks,
         \/ Collective(r) \/ Thread(r) \/ Heard(r) \/ Downloaded(r) \/ Uploaded(r) \/ TimeOut(r) \/ Shutdown(r)
  PROVE  IInv'
<1>1. TypeOK /\ Turns /\ Agreement(r) /\ Counters(r)
  BY DEF IInv, SharedInv
<1>2. CASE Collective(r)
  <2>1. PICK w \in Ops : Call(r, w)
    BY <1>2 DEF Collective, AllReduce, AllGather, Broadcast, Scatter, Ops
  <2> QED BY <2>1, CallKeeps
<1>3. CASE Metadata(r)
  <2>1. CASE \A s \in Ranks : asked[s][Calls(r)] = op[r]
    <3>1. Calls(r) >= 1 /\ pc[r] = "metadata"
      BY <1>1, <1>3 DEF Metadata, Turns
    <3>2. Agreed(Calls(r), op[r]) /\ StartExchange(r, op[r], Calls(r), 1)
          /\ UNCHANGED <<Group, Control, mem, up, got>>
      BY <1>3, <2>1, <3>1 DEF Metadata, Agreed
    <3>3. 1 \in Nat
      OBVIOUS
    <3> QED BY <3>1, <3>2, <3>3, BeginKeeps
  <2>2. CASE ~(\A s \in Ranks : asked[s][Calls(r)] = op[r])
    BY <1>3, <2>2, EndKeeps
  <2> QED BY <2>1, <2>2
<1>4. CASE Publish(r)
  <2>1. pc[r] = "chunk"
    BY <1>4 DEF Publish, MayGoOn
  <2>2. Within(r)
    BY <1>1, <2>1 DEF Agreement
  <2>3. 1 \in DOMAIN PeersNow(r) /\ at[r].chunk \in Nat /\ at[r].acked \in Nat
    BY <2>2, AtWork
  <2>4. Window(r, at[r].chunk)
    BY <1>4, <2>3 DEF Publish, Window, BUFFERS_PER_RANK
  <2>5. /\ Filled(r) /\ at[r].chunk < op[r].count /\ Post(r, 1, 0, at[r].chunk)
        /\ pc' = [pc EXCEPT ![r] = "ready"] /\ at' = [at EXCEPT ![r].peer = 1]
        /\ UNCHANGED <<Group, posted, Streams>>
    BY <1>4 DEF Publish, Goto
  <2> QED BY <2>1, <2>2, <2>3, <2>4, <2>5, TellsKeeps
<1>5. CASE Release(r)
  <2>1. pc[r] = "chunk"
    BY <1>5 DEF Release, MayGoOn
  <2>2. Within(r)
    BY <1>1, <2>1 DEF Agreement
  <2>3. 1 \in DOMAIN PeersNow(r) /\ at[r].chunk \in Nat /\ at[r].acked \in Nat
    BY <2>2, AtWork
  <2>4. at[r].chunk = op[r].count \/ ~Window(r, at[r].chunk)
    BY <1>5, <2>3 DEF Release, Window, BUFFERS_PER_RANK
  <2>5. /\ at[r].acked < at[r].chunk /\ Post(r, 1, 1, at[r].acked)
        /\ Receiving(r) => at[r].uploaded > at[r].acked
        /\ pc' = [pc EXCEPT ![r] = "free"] /\ at' = [at EXCEPT ![r].peer = 1]
        /\ UNCHANGED <<Group, posted, Streams>>
    BY <1>5 DEF Release, Goto
  <2> QED BY <2>1, <2>2, <2>3, <2>4, <2>5, FreesKeeps
<1>6. CASE Hear(r)
  BY <1>6, HearKeeps, ConfusionKeeps
<1>7. CASE NextExchange(r)
  <2>1. /\ MayGoOn(r) /\ at[r].acked = op[r].count
        /\ StartExchange(r, op[r], Calls(r), at[r].exchange + 1)
        /\ UNCHANGED <<Group, Control, mem, up, got>>
    BY <1>7 DEF NextExchange
  <2>2. at[r].exchange + 1 \in Nat
    BY <1>1 DEF TypeOK
  <2> QED BY <2>1, <2>2, BeginKeeps
<1>8. CASE Issue(r) \/ Gather(r) \/ LastChunk(r)
  BY <1>1, <1>8 DEF Issue, Gather, LastChunk, Shared, Agreement
<1>9. CASE Return(r)
  BY <1>9, EndKeeps
<1> QED BY <1>2, <1>3, <1>4, <1>5, <1>6, <1>7, <1>8, <1>9, HeardKeeps, DownloadedKeeps, UploadedKeeps,
           TimeOutKeeps, ShutdownKeeps DEF Thread

\* What is read is right, and all of it is there in the end.
LEMMA SharedRight ==
  ASSUME IInv, Shared
  PROVE  ChunksRight
<1>1. TypeOK /\ Turns /\ \A r \in Ranks : Agreement(r) /\ Counters(r) /\ Uploads(r)
  BY DEF IInv, SharedInv
<1>2. ASSUME NEW r \in Ranks, NEW j \in DOMAIN up[r], NEW u \in up[r][j]
      PROVE  Content(u.rank, u.lane) = u.tag
  <2>1. Within(r) /\ Receiving(r)
    BY <1>1, <1>2, EmptySeq DEF Uploads
  <2>2. up[r] \in Seq(SUBSET [rank : Ranks, lane : Lanes, tag : Tags])
    BY <1>1 DEF TypeOK
  <2>3. j \in 1 .. Len(up[r]) /\ Len(up[r]) \in Nat
    BY <2>2, LenProperties
  <2>4. Len(up[r]) = at[r].chunk - at[r].uploaded /\ up[r][j] = Reads(r, at[r].uploaded + j - 1)
    BY <1>1, <2>1 DEF Uploads
  <2>5. PICK i : i = at[r].uploaded + j - 1
    OBVIOUS
  <2>6. i \in Nat /\ at[r].uploaded <= i /\ i < at[r].chunk
    <3>1. at[r].chunk \in Nat /\ at[r].uploaded \in Nat
      BY <2>1, AtWork
    <3> QED BY <2>3, <2>4, <2>5, <3>1
  <2>7. PICK p \in DOMAIN PeersNow(r) :
          u = [rank |-> PeersNow(r)[p][2], lane |-> i % BUFFERS_PER_RANK,
               tag |-> Chunk(Calls(r), PeersNow(r)[p][2], Addressee(op[r], r), i)]
    BY <1>2, <2>4, <2>5 DEF Reads
  <2> QED BY <2>1, <2>6, <2>7, ReadsWhole
<1>3. ASSUME NEW r \in Ranks, pc[r] = "drain"
      PROVE  got[r] = Expected(op[r], Calls(r), r)
  <2>1. Begun(r) /\ Past(r) /\ Agreed(Calls(r), op[r]) /\ got[r] = Fetched(r)
    BY <1>1, <1>3 DEF Agreement, Uploads
  <2>2. PICK o, c, n : o = op[r] /\ c = Calls(r) /\ n = op[r].count
    OBVIOUS
  <2>3. o \in Ops
    <3>1. c >= 1 /\ o = asked[r][c] /\ asked[r] \in Seq(Ops)
      BY <1>1, <2>1, <2>2 DEF Turns, TypeOK, Agreed
    <3> QED BY <2>2, <3>1 DEF Calls
  <2>4. \A s \in Ranks : Flows(o, s, r) => Inward(o, s, r) < at[r].exchange
    <3>1. at[r].exchange = Len(Exchanges(o, r)) + 1 /\ Len(Exchanges(o, r)) \in Nat
      BY <1>1, <2>1, <2>2, <2>3, Meetings DEF Past
    <3>2. \A s \in Ranks : Flows(o, s, r) => Inward(o, s, r) \in 1 .. Len(Exchanges(o, r))
      BY <1>1, <2>3, Meetings
    <3> QED BY <3>1, <3>2
  <2>5. Fetched(r) = {Chunk(c, f[1], Addressee(o, r), f[2]) : f \in {f \in Ranks \X (0 .. n - 1) : Flows(o, f[1], r)}}
    BY <2>2, <2>4 DEF Fetched
  <2>10. PICK X, Y : X = {s \in Ranks : Flows(o, s, r)} /\ Y = 0 .. n - 1
    OBVIOUS
  <2>11. {f \in Ranks \X (0 .. n - 1) : Flows(o, f[1], r)} = X \X Y
    BY <2>10
  <2>12. Fetched(r) = {Chunk(c, s, Addressee(o, r), i) : s \in X, i \in Y}
    <3>1. PICK a, Z : a = Addressee(o, r) /\ Z = {f \in Ranks \X (0 .. n - 1) : Flows(o, f[1], r)}
      OBVIOUS
    <3>2. Fetched(r) = {Chunk(c, f[1], a, f[2]) : f \in Z}
      BY <2>5, <3>1
    <3>3. Fetched(r) = {Chunk(c, f[1], a, f[2]) : f \in X \X Y}
      BY <2>11, <3>1, <3>2
    <3>5. ASSUME NEW s \in X, NEW i \in Y
          PROVE  Chunk(c, s, a, i) \in Fetched(r)
      <4>1. PICK f : f = <<s, i>>
        OBVIOUS
      <4>2. f \in X \X Y /\ f[1] = s /\ f[2] = i
        BY <4>1
      <4> QED BY <3>3, <4>2
    <3>6. \A f \in X \X Y : f[1] \in X /\ f[2] \in Y
      OBVIOUS
    <3>7. \A t \in Fetched(r) : t \in {Chunk(c, s, a, i) : s \in X, i \in Y}
      BY <3>3, <3>6
    <3>8. \A t \in {Chunk(c, s, a, i) : s \in X, i \in Y} : t \in Fetched(r)
      BY <3>5
    <3>4. Fetched(r) = {Chunk(c, s, a, i) : s \in X, i \in Y}
      BY <3>7, <3>8
    <3> QED BY <3>1, <3>4
  <2>6. /\ o.kind \in {"allreduce", "allgather", "broadcast", "scatter"}
        /\ o.kind \in {"broadcast", "scatter"} => o.root = Root
        /\ Root \in Ranks /\ o.count = n
    BY <1>1, <2>2, <2>3, Fields, Sizes
  <2>7. CASE o.kind = "allreduce"
    <3>1. \A s \in Ranks : Flows(o, s, r) <=> s # r
      BY <2>7 DEF Flows
    <3>2. Addressee(o, r) = All /\ Expected(o, c, r) = {Chunk(c, s, All, i) : s \in Ranks \ {r}, i \in 0 .. n - 1}
      BY <2>6, <2>7 DEF Addressee, Expected, Shared
    <3>4. X = Ranks \ {r}
      BY <2>10, <3>1
    <3>3. Fetched(r) = {Chunk(c, s, All, i) : s \in Ranks \ {r}, i \in 0 .. n - 1}
      BY <2>10, <2>12, <3>2, <3>4
    <3> QED BY <2>1, <2>2, <3>2, <3>3
  <2>8. CASE o.kind = "allgather"
    <3>1. \A s \in Ranks : Flows(o, s, r) <=> s # r
      BY <2>8 DEF Flows
    <3>2. Addressee(o, r) = r /\ Expected(o, c, r) = {Chunk(c, s, r, i) : s \in Ranks \ {r}, i \in 0 .. n - 1}
      BY <2>6, <2>8 DEF Addressee, Expected, Shared
    <3>4. X = Ranks \ {r}
      BY <2>10, <3>1
    <3>3. Fetched(r) = {Chunk(c, s, r, i) : s \in Ranks \ {r}, i \in 0 .. n - 1}
      BY <2>10, <2>12, <3>2, <3>4
    <3> QED BY <2>1, <2>2, <3>2, <3>3
  <2>9. CASE o.kind \in {"broadcast", "scatter"}
    <3>1. \A s \in Ranks : Flows(o, s, r) <=> s = Root /\ r # Root
      BY <2>6, <2>9 DEF Flows
    <3>2. /\ Addressee(o, r) = r
          /\ Expected(o, c, r) = IF r = Root THEN {} ELSE {Chunk(c, Root, r, i) : i \in 0 .. n - 1}
      BY <2>6, <2>9 DEF Addressee, Expected, Shared
    <3>3. Fetched(r) = IF r = Root THEN {} ELSE {Chunk(c, Root, r, i) : i \in 0 .. n - 1}
      <4>1. X = IF r = Root THEN {} ELSE {Root}
        BY <2>6, <2>10, <3>1
      <4> QED BY <2>10, <2>12, <3>2, <4>1
    <3> QED BY <2>1, <2>2, <3>2, <3>3
  <2> QED BY <2>6, <2>7, <2>8, <2>9
<1> QED BY <1>2, <1>3 DEF ChunksRight, ReadsItsChunk, Delivered

-----------------------------------------------------------------------------
(* Through Gloo *)

\* What a step that does not begin a call leaves alone.
LEMMA GlooFixed ==
  ASSUME group' = group, NEW r, op'[r] = op[r], asked'[r] = asked[r]
  PROVE  /\ Calls(r)' = Calls(r) /\ Deep(r)' = Deep(r) /\ Chunks(r)' = Chunks(r) /\ All' = All
         /\ \A i : Behind(r, i)' = Behind(r, i) /\ Result(r, i)' = Result(r, i)
         /\ \A o, c, x, i, n : Copying(o, c, x, r, i, n)' = Copying(o, c, x, r, i, n)
         /\ \A o, x : Sends(o, x, r)' = Sends(o, x, r)
<1>1. /\ Calls(r)' = Calls(r) /\ Deep(r)' = Deep(r) /\ Chunks(r)' = Chunks(r) /\ All' = All
      /\ \A o, c, x, i, n : Copying(o, c, x, r, i, n)' = Copying(o, c, x, r, i, n)
      /\ \A o, x : Sends(o, x, r)' = Sends(o, x, r)
  BY GroupFixed DEF Calls, Deep, Chunks
<1>2. \A i : Behind(r, i)' = Behind(r, i)
  BY <1>1 DEF Behind
<1>3. \A i : Result(r, i)' = Result(r, i)
  BY <1>1 DEF Result
<1> QED BY <1>1, <1>2, <1>3

\* The rank's own books are of its own state.
LEMMA SameBooks ==
  ASSUME group' = group, NEW q, Same(q)
  PROVE  /\ Regions(q) => Regions(q)'
         /\ \A base : Given(base, q) => Given(base, q)'
         /\ \A base : Sent(base, q) => Sent(base, q)'
<1>1. /\ op'[q] = op[q] /\ asked'[q] = asked[q] /\ pc'[q] = pc[q] /\ at'[q] = at[q]
      /\ down'[q] = down[q] /\ up'[q] = up[q] /\ mem'[q] = mem[q] /\ got'[q] = got[q]
      /\ dead'[q] = dead[q] /\ posted'[q] = posted[q]
  BY DEF Same
<1>2. /\ Calls(q)' = Calls(q) /\ Deep(q)' = Deep(q) /\ Chunks(q)' = Chunks(q) /\ All' = All
      /\ \A i : Behind(q, i)' = Behind(q, i) /\ Result(q, i)' = Result(q, i)
      /\ \A o, c, x, i, n : Copying(o, c, x, q, i, n)' = Copying(o, c, x, q, i, n)
      /\ \A o, x : Sends(o, x, q)' = Sends(o, x, q)
  BY <1>1, GlooFixed
<1>3. /\ Issued(q) => Issued(q)'
  BY <1>1, <1>2 DEF Issued
<1>4. Queued(q) => Queued(q)'
  BY <1>1, <1>2 DEF Queued, Ahead
<1>5. Loaded(q) => Loaded(q)'
  BY <1>1, <1>2 DEF Loaded, Ahead
<1>6. Results(q) => Results(q)'
  BY <1>1, <1>2 DEF Results
<1>7. Returned(q) => Returned(q)'
  BY <1>1, <1>2 DEF Returned
<1>8. Regions(q) => Regions(q)'
  BY <1>1, <1>2, <1>3, <1>4, <1>5, <1>6, <1>7 DEF Regions
<1>9. \A base : Given(base, q) => Given(base, q)'
  BY <1>1, <1>2 DEF Given
<1>10. \A base : Sent(base, q) => Sent(base, q)'
  BY <1>1, <1>2 DEF Sent
<1> QED BY <1>8, <1>9, <1>10

\* A step of rank r that begins no call.
LEMMA GlooStep ==
  ASSUME IInv, ~Shared, group' = group, asked' = asked, op' = op, NEW r \in Ranks,
         \A q \in Ranks \ {r} : Same(q), TypeOK',
         pc[r] # "idle" \/ pc'[r] = "idle",
         pc'[r] \in {"idle", "metadata"} => down'[r] = <<>> /\ up'[r] = <<>>,
         Regions(r)',
         \A base \in Seq(Nat) : Bases(base) /\ Given(base, r) /\ Sent(base, r) => Given(base, r)' /\ Sent(base, r)'
  PROVE  IInv'
<1>1. /\ TypeOK /\ Turns /\ LeaseOutlivesCopies /\ (\A q \in Ranks : Regions(q)) /\ Compatible /\ History
  BY DEF IInv, GlooInv
<1>2. /\ Ranks' = Ranks /\ (\A q : Calls(q)' = Calls(q)) /\ (Shared' <=> Shared)
  BY GroupFixed DEF Calls
<1>3. \A q \in Ranks : Regions(q)'
  BY <1>1, SameBooks
<1>4. Turns'
  BY <1>1, <1>2 DEF Turns, Same
<1>5. LeaseOutlivesCopies'
  BY <1>1, <1>2 DEF LeaseOutlivesCopies, Same
<1>6. Compatible'
  BY <1>1, <1>2 DEF Compatible
<1>7. History'
  <2>1. PICK base \in Seq(Nat) : Bases(base) /\ Posts(base)
    BY <1>1 DEF History
  <2>2. Bases(base)'
    BY <1>2, <2>1 DEF Bases
  <2>3. \A q \in Ranks : Given(base, q)' /\ Sent(base, q)'
    BY <1>2, <2>1, SameBooks DEF Posts
  <2>4. Posts(base)'
    BY <1>2, <2>3 DEF Posts
  <2> QED BY <2>1, <2>2, <2>4 DEF History
<1> QED BY <1>1, <1>2, <1>3, <1>4, <1>5, <1>6, <1>7 DEF IInv, GlooInv

\* A rank at work, in its own words.
LEMMA AtGloo ==
  ASSUME IInv, ~Shared, NEW r \in Ranks,
         pc[r] # "idle" \/ down[r] # <<>> \/ up[r] # <<>>
  PROVE  /\ group.transport = "gloo" /\ Calls(r) \in Nat \ {0} /\ op[r] \in Ops /\ op[r] = asked[r][Calls(r)]
         /\ op[r].count \in Nat \ {0} /\ Deep(r) \in Nat \ {0}
         /\ at[r].chunk \in Nat /\ at[r].uploaded \in Nat
         /\ Issued(r) /\ Queued(r) /\ Loaded(r) /\ Results(r) /\ Returned(r)
         /\ \A i \in Nat : i % Deep(r) \in Lanes /\ Lane(r, i) = i % Deep(r)
         /\ \A i \in Chunks(r) : i \in Nat
<1>1. /\ TypeOK /\ Turns /\ LeaseOutlivesCopies /\ Regions(r)
  BY DEF IInv, GlooInv
<1>2. pc[r] # "idle"
  BY <1>1 DEF LeaseOutlivesCopies
<1>3. asked[r] \in Seq(Ops) /\ Calls(r) >= 1 /\ op[r] = asked[r][Calls(r)]
  BY <1>1, <1>2 DEF Turns, TypeOK
<1>4. Calls(r) \in Nat \ {0} /\ op[r] \in Ops
  BY <1>3 DEF Calls
<1>5. at[r] \in [exchange : Nat, chunk : Nat, acked : Nat, peer : Nat \ {0}, uploaded : Nat]
  BY <1>1 DEF TypeOK
<1>6. at[r].chunk \in Nat /\ at[r].uploaded \in Nat
  BY <1>5
<1>7. op[r].count \in Nat \ {0}
  BY <1>4, Fields
<1>8. Deep(r) \in Nat \ {0} /\ \A i \in Nat : i % Deep(r) \in Lanes
  BY <1>1, <1>4, LanesAre DEF Deep
<1>9. group.transport = "gloo"
  BY <1>1, Sizes DEF Shared
<1>10. \A i \in Chunks(r) : i \in Nat
  BY <1>7 DEF Chunks
<1> QED BY <1>1, <1>3, <1>4, <1>6, <1>7, <1>8, <1>9, <1>10 DEF Regions, Lane, Deep

\* Two chunks that are close are in different regions.
LEMMA CloseApart ==
  ASSUME NEW n \in Nat \ {0}, NEW a \in Nat, NEW b \in Nat, a < b + n, b < a + n, a # b
  PROVE  a % n # b % n
<1>1. a < b \/ b < a
  OBVIOUS
<1>2. ASSUME a < b, a % n = b % n PROVE FALSE
  <2>1. b >= a + n
    BY <1>2, RegionsApart
  <2> QED BY <2>1
<1>3. ASSUME b < a, a % n = b % n PROVE FALSE
  <2>1. a >= b + n
    BY <1>3, RegionsApart
  <2> QED BY <2>1
<1> QED BY <1>1, <1>2, <1>3

\* A copy that is queued, and what it waits for.
LEMMA QueuedCopy ==
  ASSUME IInv, ~Shared, NEW r \in Ranks, NEW j \in DOMAIN down[r]
  PROVE  \E i \in Chunks(r) :
           /\ Ahead(r, i) /\ (pc[r] = "gloo" => i # at[r].chunk)
           /\ down[r][j] = Copying(op[r], Calls(r), 1, r, i, Behind(r, i))
           /\ down[r][j].lane = i % Deep(r) /\ down[r][j].tag = Chunk(Calls(r), r, All, i)
           /\ down[r][j].writes <=> Sends(op[r], 1, r)
           /\ down[r][j].after <= at[r].uploaded => i < at[r].uploaded + Deep(r)
<1>1. down[r] # <<>> /\ TypeOK
  BY DEF IInv
<1>2. PICK i \in Chunks(r) :
        /\ Ahead(r, i) /\ (pc[r] = "gloo" => i # at[r].chunk)
        /\ down[r][j] = Copying(op[r], Calls(r), 1, r, i, Behind(r, i))
  BY <1>1, AtGloo DEF Queued
<1>3. i \in Nat /\ Deep(r) \in Nat \ {0} /\ at[r].uploaded \in Nat /\ group.transport = "gloo" /\ op[r] \in Ops
      /\ Calls(r) \in Nat
  BY <1>1, AtGloo
<1>4. PICK n : n = Behind(r, i)
  OBVIOUS
<1>5. n \in Nat /\ (n <= at[r].uploaded => i < at[r].uploaded + Deep(r))
  BY <1>3, <1>4 DEF Behind
<1>6. /\ down[r][j].lane = i % Deep(r) /\ down[r][j].tag = Source(op[r], Calls(r), 1, r, i)
      /\ down[r][j].after = n /\ (down[r][j].writes <=> Sends(op[r], 1, r))
  <2>1. PICK o, c : o = op[r] /\ c = Calls(r)
    OBVIOUS
  <2>2. o \in Ops /\ c \in Nat /\ down[r][j] = Copying(o, c, 1, r, i, n)
    BY <1>2, <1>3, <1>4, <2>1
  <2>3. /\ Copying(o, c, 1, r, i, n).lane = i % Buffers(o, r)
        /\ Copying(o, c, 1, r, i, n).tag = Source(o, c, 1, r, i)
        /\ Copying(o, c, 1, r, i, n).after = n
        /\ Copying(o, c, 1, r, i, n).writes <=> Sends(o, 1, r)
    BY DEF Copying
  <2> QED BY <2>1, <2>2, <2>3 DEF Deep
<1>7. Source(op[r], Calls(r), 1, r, i) = Chunk(Calls(r), r, All, i)
  BY <1>3 DEF Source
<1> QED BY <1>2, <1>5, <1>6, <1>7

\* No copy that may run is into a region whose result is still to be copied out.
LEMMA ResultStays ==
  ASSUME IInv, ~Shared, NEW r \in Ranks, NEW i \in Chunks(r), at[r].uploaded <= i, i < at[r].chunk,
         pc[r] # "idle"
  PROVE  /\ \A j \in DOMAIN down[r] : down[r][j].after <= at[r].uploaded => down[r][j].lane # i % Deep(r)
         /\ Content(r, i % Deep(r)) = Chunk(Calls(r), All, r, i)
<1>1. /\ i \in Nat /\ Deep(r) \in Nat \ {0} /\ at[r].uploaded \in Nat /\ at[r].chunk \in Nat /\ Results(r)
      /\ op[r].count \in Nat
  BY AtGloo
<1>2. ASSUME NEW j \in DOMAIN down[r], down[r][j].after <= at[r].uploaded
      PROVE  down[r][j].lane # i % Deep(r)
  <2>1. PICK k \in Chunks(r) :
          /\ Ahead(r, k)
          /\ down[r][j].lane = k % Deep(r)
          /\ down[r][j].after <= at[r].uploaded => k < at[r].uploaded + Deep(r)
    BY QueuedCopy
  <2>5. k \in Nat
    BY AtGloo
  <2>2. k \in Nat /\ at[r].chunk <= k /\ k < at[r].uploaded + Deep(r)
    BY <1>2, <2>1, <2>5 DEF Ahead
  <2>3. i < k /\ k < i + Deep(r) /\ i < k + Deep(r)
    BY <1>1, <2>2
  <2>4. k % Deep(r) # i % Deep(r)
    BY <1>1, <2>2, <2>3, CloseApart
  <2> QED BY <2>1, <2>4
<1>3. mem[r][i % Deep(r)] = Chunk(Calls(r), All, r, i)
  BY <1>1 DEF Results
<1>4. ASSUME NEW j \in DOMAIN down[r], MayRun(r, j)
      PROVE  down[r][j].after <= at[r].uploaded
  <2>1. down[r] \in Seq([lane : Lanes, tag : Tags, after : Nat, writes : BOOLEAN])
    BY DEF IInv, TypeOK
  <2>2. j \in 1 .. j
    BY <2>1, LenProperties
  <2> QED BY <1>4, <2>2 DEF MayRun
<1> QED BY <1>2, <1>3, <1>4 DEF Content

\* A step that issues nothing leaves the books of what was issued as they are.
LEMMA BooksStay ==
  ASSUME group' = group, asked' = asked, op' = op, posted' = posted, NEW r,
         at'[r].chunk = at[r].chunk, pc'[r] = pc[r], dead'[r] = dead[r], NEW base
  PROVE  (Given(base, r) => Given(base, r)') /\ (Sent(base, r) => Sent(base, r)')
<1>1. Calls(r)' = Calls(r) /\ All' = All /\ \A o, x : Sends(o, x, r)' = Sends(o, x, r)
  BY GlooFixed
<1>2. Given(base, r) => Given(base, r)'
  BY <1>1 DEF Given
<1>3. Sent(base, r) => Sent(base, r)'
  BY <1>1 DEF Sent
<1> QED BY <1>2, <1>3

\* A copy into a region is done.
LEMMA GlooDownloaded ==
  ASSUME IInv, ~Shared, NEW r \in Ranks, Downloaded(r)
  PROVE  IInv'
<1>1. TypeOK /\ LeaseOutlivesCopies /\ Regions(r)
  BY DEF IInv, GlooInv
<1>2. /\ group' = group /\ op' = op /\ asked' = asked /\ broken' = broken /\ dead' = dead /\ faults' = faults
      /\ posted' = posted /\ pc' = pc /\ at' = at /\ up' = up /\ got' = got /\ chan' = chan /\ waiting' = waiting
      /\ down[r] # <<>> /\ down' = [down EXCEPT ![r] = Tail(down[r])] /\ MayRun(r, 1)
  BY DEF Downloaded, Group, Control
<1>3. pc[r] \notin {"idle", "metadata"}
  BY <1>1, <1>2 DEF LeaseOutlivesCopies
<1>4. PICK f, g : f = down[r] /\ g = Tail(down[r])
  OBVIOUS
<1>5. /\ f \in Seq([lane : Lanes, tag : Tags, after : Nat, writes : BOOLEAN])
      /\ g \in Seq([lane : Lanes, tag : Tags, after : Nat, writes : BOOLEAN])
      /\ Head(f) = f[1] /\ 1 \in DOMAIN f
      /\ \A j \in DOMAIN g : j + 1 \in DOMAIN f /\ g[j] = f[j + 1]
      /\ \A j \in DOMAIN f : j # 1 => j - 1 \in DOMAIN g /\ g[j - 1] = f[j]
  <2>1. f \in Seq([lane : Lanes, tag : Tags, after : Nat, writes : BOOLEAN]) /\ f # <<>> /\ g = Tail(f)
    BY <1>1, <1>2, <1>4 DEF TypeOK
  <2> QED BY <2>1, EmptySeq, HeadTailProperties, LenProperties
<1>6. f[1].after <= at[r].uploaded
  BY <1>2, <1>4 DEF MayRun
<1>7. PICK h \in Chunks(r) :
        /\ Ahead(r, h)
        /\ f[1].lane = h % Deep(r) /\ f[1].tag = Chunk(Calls(r), r, All, h)
        /\ f[1].writes <=> Sends(op[r], 1, r)
        /\ h < at[r].uploaded + Deep(r)
  BY <1>4, <1>5, <1>6, QueuedCopy
<1>8. /\ Calls(r) \in Nat \ {0} /\ Deep(r) \in Nat \ {0} /\ at[r].chunk \in Nat /\ at[r].uploaded \in Nat
      /\ Issued(r) /\ Queued(r) /\ Loaded(r) /\ Results(r) /\ Returned(r)
  BY <1>3, AtGloo
<1>9. \A i \in Chunks(r) : i \in Nat /\ i % Deep(r) \in Lanes
  BY <1>3, AtGloo
<1>10. PICK l, v : l = h % Deep(r) /\ v = Chunk(Calls(r), r, All, h)
  OBVIOUS
<1>11. l \in Lanes /\ v \in Tags
  <2>1. Calls(r) \in Int /\ r \in Int /\ All \in Int /\ h \in Int
    BY <1>1, <1>8, <1>9, Sizes DEF All
  <2> QED BY <1>1, <1>9, <1>10, <2>1, ChunkType
<1>12. mem' = IF Sends(op[r], 1, r) THEN [mem EXCEPT ![r][l] = v] ELSE mem
  BY <1>4, <1>5, <1>7, <1>10 DEF Downloaded
<1>13. /\ mem' \in [Ranks -> [Lanes -> Tags]] /\ (Sends(op[r], 1, r) => mem'[r][l] = v)
       /\ \A m \in Lanes : m # l => mem'[r][m] = mem[r][m]
       /\ down'[r] = g
       /\ \A q \in Ranks \ {r} : mem'[q] = mem[q] /\ down'[q] = down[q]
  <2>1. /\ mem' \in [Ranks -> [Lanes -> Tags]] /\ (Sends(op[r], 1, r) => mem'[r][l] = v)
        /\ \A m \in Lanes : m # l => mem'[r][m] = mem[r][m]
        /\ \A q \in Ranks \ {r} : mem'[q] = mem[q]
    BY <1>1, <1>11, <1>12 DEF TypeOK
  <2> QED BY <1>1, <1>2, <1>4, <2>1 DEF TypeOK
<1>14. \A q \in Ranks \ {r} : Same(q)
  BY <1>2, <1>13 DEF Same
<1>15. /\ Calls(r)' = Calls(r) /\ Deep(r)' = Deep(r) /\ Chunks(r)' = Chunks(r) /\ All' = All
       /\ \A i : Behind(r, i)' = Behind(r, i) /\ Result(r, i)' = Result(r, i)
       /\ \A o, c, x, i, n : Copying(o, c, x, r, i, n)' = Copying(o, c, x, r, i, n)
       /\ \A o, x : Sends(o, x, r)' = Sends(o, x, r)
  BY <1>2, GlooFixed
<1>16. /\ op'[r] = op[r] /\ pc'[r] = pc[r] /\ at'[r] = at[r] /\ up'[r] = up[r] /\ got'[r] = got[r]
  BY <1>2
<1>17. Issued(r)' /\ Returned(r)'
  BY <1>8, <1>15, <1>16 DEF Issued, Returned
<1>18. Queued(r)'
  <2>1. ASSUME NEW j \in DOMAIN g
        PROVE  \E i \in Chunks(r) :
                 /\ Ahead(r, i) /\ (pc[r] = "gloo" => i # at[r].chunk)
                 /\ g[j] = Copying(op[r], Calls(r), 1, r, i, Behind(r, i))
    <3>1. PICK k \in DOMAIN down[r] : g[j] = down[r][k]
      BY <1>4, <1>5
    <3> QED BY <1>8, <3>1 DEF Queued
  <2> QED BY <1>13, <1>15, <1>16, <2>1 DEF Queued, Ahead
<1>19. Loaded(r)'
  <2>1. ASSUME NEW i \in Chunks(r), Ahead(r, i)
        PROVE  \/ \E j \in DOMAIN g : g[j].lane = i % Deep(r)
               \/ /\ i < at[r].uploaded + Deep(r)
                  /\ Sends(op[r], 1, r) => mem'[r][i % Deep(r)] = Chunk(Calls(r), r, All, i)
    <3>1. CASE i % Deep(r) = l
      <4>1. i \in Nat /\ h \in Nat /\ i < h + Deep(r) /\ h < i + Deep(r)
        BY <1>7, <1>8, <1>9, <2>1 DEF Ahead
      <4>2. i = h
        BY <1>8, <1>10, <3>1, <4>1, CloseApart
      <4> QED BY <1>7, <1>10, <1>13, <4>2
    <3>2. CASE i % Deep(r) # l
      <4>1. mem'[r][i % Deep(r)] = mem[r][i % Deep(r)]
        BY <1>9, <1>13, <3>2
      <4>2. ASSUME NEW j \in DOMAIN f, f[j].lane = i % Deep(r)
            PROVE  \E k \in DOMAIN g : g[k].lane = i % Deep(r)
        <5>1. j # 1
          BY <1>7, <1>10, <3>2, <4>2
        <5> QED BY <1>5, <4>2, <5>1
      <4> QED BY <1>4, <1>8, <2>1, <4>1, <4>2 DEF Loaded
    <3> QED BY <3>1, <3>2
  <2> QED BY <1>13, <1>15, <1>16, <2>1 DEF Loaded, Ahead
<1>20. Results(r)'
  <2>1. ASSUME NEW i \in Chunks(r), at[r].uploaded <= i, i < at[r].chunk
        PROVE  mem'[r][i % Deep(r)] = Chunk(Calls(r), All, r, i)
    <3>1. f[1].lane # i % Deep(r)
      BY <1>3, <1>4, <1>5, <1>6, <2>1, ResultStays
    <3>2. mem'[r][i % Deep(r)] = mem[r][i % Deep(r)]
      BY <1>7, <1>9, <1>10, <1>13, <3>1
    <3> QED BY <1>8, <2>1, <3>2 DEF Results
  <2> QED BY <1>15, <1>16, <2>1 DEF Results
<1>21. Regions(r)'
  BY <1>1, <1>16, <1>17, <1>18, <1>19, <1>20 DEF Regions
<1>22. TypeOK'
  <2>1. down' \in [Ranks -> Seq([lane : Lanes, tag : Tags, after : Nat, writes : BOOLEAN])]
    BY <1>1, <1>2, <1>4, <1>5 DEF TypeOK
  <2> QED BY <1>1, <1>2, <1>13, <2>1, GroupFixed DEF TypeOK
<1>23. \A base : Given(base, r) /\ Sent(base, r) => Given(base, r)' /\ Sent(base, r)'
  BY <1>2, <1>16, BooksStay
<1> QED BY <1>2, <1>3, <1>14, <1>16, <1>21, <1>22, <1>23, GlooStep

\* A result is copied out of its region.
LEMMA GlooUploaded ==
  ASSUME IInv, ~Shared, NEW r \in Ranks, Uploaded(r)
  PROVE  IInv'
<1>1. TypeOK /\ LeaseOutlivesCopies /\ Regions(r)
  BY DEF IInv, GlooInv
<1>2. /\ group' = group /\ op' = op /\ asked' = asked /\ broken' = broken /\ dead' = dead /\ faults' = faults
      /\ posted' = posted /\ pc' = pc /\ mem' = mem /\ down' = down /\ chan' = chan /\ waiting' = waiting
      /\ up[r] # <<>> /\ up' = [up EXCEPT ![r] = Tail(up[r])]
      /\ at' = [at EXCEPT ![r].uploaded = @ + 1]
  BY DEF Uploaded, Group, Control
<1>3. pc[r] \notin {"idle", "metadata"}
  BY <1>1, <1>2 DEF LeaseOutlivesCopies
<1>4. PICK f, g, k : f = up[r] /\ g = Tail(up[r]) /\ k = at[r].uploaded
  OBVIOUS
<1>5. /\ f \in Seq(SUBSET [rank : Ranks, lane : Lanes, tag : Tags]) /\ Len(f) \in Nat \ {0}
      /\ g \in Seq(SUBSET [rank : Ranks, lane : Lanes, tag : Tags]) /\ Len(g) = Len(f) - 1
  <2>1. f \in Seq(SUBSET [rank : Ranks, lane : Lanes, tag : Tags]) /\ f # <<>> /\ g = Tail(f)
    BY <1>1, <1>2, <1>4 DEF TypeOK
  <2> QED BY <2>1, EmptySeq, HeadTailProperties, LenProperties
<1>6. /\ Head(f) = f[1] /\ 1 \in DOMAIN f /\ Len(f) \in Nat \ {0} /\ Len(g) = Len(f) - 1
      /\ \A j \in DOMAIN g : j \in Nat /\ j + 1 \in DOMAIN f /\ g[j] = f[j + 1]
  <2>1. f \in Seq(SUBSET [rank : Ranks, lane : Lanes, tag : Tags]) /\ f # <<>> /\ g = Tail(f)
    BY <1>1, <1>2, <1>4 DEF TypeOK
  <2> QED BY <2>1, EmptySeq, HeadTailProperties, LenProperties
<1>7. /\ Calls(r) \in Nat \ {0} /\ Deep(r) \in Nat \ {0} /\ at[r].chunk \in Nat /\ k \in Nat
      /\ op[r].count \in Nat
      /\ Issued(r) /\ Queued(r) /\ Loaded(r) /\ Results(r) /\ Returned(r)
  BY <1>3, <1>4, AtGloo
<1>8. /\ Len(f) = at[r].chunk - k /\ \A j \in DOMAIN f : f[j] = Result(r, k + j - 1)
  BY <1>4, <1>7 DEF Returned
<1>9. Head(f) = Result(r, k) /\ k < at[r].chunk
  <2>1. k + 1 - 1 = k
    BY <1>7
  <2>2. f[1] = Result(r, k + 1 - 1)
    BY <1>6, <1>8
  <2>3. Len(f) = at[r].chunk - k /\ Len(f) \in Nat \ {0} /\ at[r].chunk \in Nat /\ k \in Nat
    BY <1>5, <1>7, <1>8
  <2>4. k < at[r].chunk
    BY <2>3
  <2> QED BY <1>6, <2>1, <2>2, <2>4
<1>10. k \in Chunks(r) /\ k + 1 <= at[r].chunk
  BY <1>7, <1>9 DEF Issued, Chunks
<1>11. PICK v : v = Chunk(Calls(r), All, r, k)
  OBVIOUS
<1>12. got' = [got EXCEPT ![r] = got[r] \cup {v}]
  <2>1. Content(r, k % Deep(r)) = v
    BY <1>3, <1>4, <1>7, <1>9, <1>10, <1>11, ResultStays
  <2>2. PICK u : u = [rank |-> r, lane |-> k % Deep(r), tag |-> v]
    OBVIOUS
  <2>3. Head(f) = {u} /\ Content(u.rank, u.lane) = v
    BY <1>9, <1>11, <2>1, <2>2 DEF Result
  <2>4. {Content(w.rank, w.lane) : w \in Head(f)} = {v}
    BY <2>3
  <2> QED BY <1>4, <2>4 DEF Uploaded
<1>13. /\ at'[r].exchange = at[r].exchange /\ at'[r].chunk = at[r].chunk /\ at'[r].uploaded = k + 1
       /\ up'[r] = g /\ got'[r] = got[r] \cup {v}
       /\ \A q \in Ranks \ {r} : at'[q] = at[q] /\ up'[q] = up[q] /\ got'[q] = got[q]
  BY <1>1, <1>2, <1>4, <1>12 DEF TypeOK
<1>14. \A q \in Ranks \ {r} : Same(q)
  BY <1>2, <1>13 DEF Same
<1>15. /\ Calls(r)' = Calls(r) /\ Deep(r)' = Deep(r) /\ Chunks(r)' = Chunks(r) /\ All' = All
       /\ \A i : Behind(r, i)' = Behind(r, i) /\ Result(r, i)' = Result(r, i)
       /\ \A o, c, x, i, n : Copying(o, c, x, r, i, n)' = Copying(o, c, x, r, i, n)
       /\ \A o, x : Sends(o, x, r)' = Sends(o, x, r)
  BY <1>2, GlooFixed
<1>16. /\ op'[r] = op[r] /\ pc'[r] = pc[r] /\ down'[r] = down[r] /\ mem'[r] = mem[r] /\ dead'[r] = dead[r]
  BY <1>2
<1>17. Issued(r)'
  <2>1. /\ at[r].exchange = 1 /\ k <= at[r].chunk /\ at[r].chunk <= k + Deep(r) /\ at[r].chunk <= op[r].count
        /\ (pc[r] = "gloo" => at[r].chunk < op[r].count) /\ (pc[r] = "drain" => at[r].chunk = op[r].count)
    BY <1>4, <1>7 DEF Issued
  <2>2. at[r].chunk <= (k + 1) + Deep(r)
    BY <1>7, <2>1
  <2> QED BY <1>10, <1>13, <1>15, <1>16, <2>1, <2>2 DEF Issued
<1>18. Queued(r)'
  BY <1>7, <1>13, <1>15, <1>16 DEF Queued, Ahead
<1>19. Loaded(r)'
  <2>1. ASSUME NEW i \in Chunks(r), Ahead(r, i)
        PROVE  \/ \E j \in DOMAIN down[r] : down[r][j].lane = i % Deep(r)
               \/ /\ i < (k + 1) + Deep(r)
                  /\ Sends(op[r], 1, r) => mem[r][i % Deep(r)] = Chunk(Calls(r), r, All, i)
    <3>1. \/ \E j \in DOMAIN down[r] : down[r][j].lane = i % Deep(r)
          \/ /\ i < k + Deep(r)
             /\ Sends(op[r], 1, r) => mem[r][i % Deep(r)] = Chunk(Calls(r), r, All, i)
      BY <1>4, <1>7, <2>1 DEF Loaded
    <3>2. i < k + Deep(r) => i < (k + 1) + Deep(r)
      BY <1>7 DEF Chunks
    <3> QED BY <3>1, <3>2
  <2> QED BY <1>13, <1>15, <1>16, <2>1 DEF Loaded, Ahead
<1>20. Results(r)'
  <2>1. ASSUME NEW i \in Chunks(r), k + 1 <= i
        PROVE  k <= i
    BY <1>7, <2>1 DEF Chunks
  <2> QED BY <1>4, <1>7, <1>13, <1>15, <1>16, <2>1 DEF Results
<1>21. Returned(r)'
  <2>1. Len(g) = at[r].chunk - (k + 1)
    <3>1. Len(g) = Len(f) - 1 /\ Len(f) = at[r].chunk - k /\ at[r].chunk \in Nat /\ k \in Nat /\ Len(f) \in Nat
      BY <1>5, <1>7, <1>8
    <3> QED BY <3>1
  <2>2. ASSUME NEW j \in DOMAIN g
        PROVE  g[j] = Result(r, (k + 1) + j - 1)
    <3>1. k + (j + 1) - 1 = (k + 1) + j - 1
      BY <1>6, <1>7
    <3> QED BY <1>6, <1>8, <3>1
  <2>3. ASSUME pc[r] \in {"chunk", "gloo", "drain"}
        PROVE  got'[r] = {Chunk(Calls(r), All, r, i) : i \in 0 .. (k + 1) - 1}
    <3>1. got[r] = {Chunk(Calls(r), All, r, i) : i \in 0 .. k - 1}
      BY <1>4, <1>7, <2>3 DEF Returned
    <3>2. 0 .. (k + 1) - 1 = (0 .. k - 1) \cup {k}
      BY <1>7
    <3> QED BY <1>11, <1>13, <3>1, <3>2
  <2> QED BY <1>13, <1>15, <1>16, <2>1, <2>2, <2>3 DEF Returned
<1>22. Regions(r)'
  BY <1>1, <1>16, <1>17, <1>18, <1>19, <1>20, <1>21 DEF Regions
<1>23. TypeOK'
  <2>1. v \in Tags
    <3>1. Calls(r) \in Int /\ r \in Int /\ All \in Int /\ k \in Int
      BY <1>1, <1>7, Sizes DEF All
    <3> QED BY <1>1, <1>11, <3>1, ChunkType
  <2>2. got' \in [Ranks -> SUBSET Tags]
    BY <1>1, <1>12, <2>1 DEF TypeOK
  <2>3. up' \in [Ranks -> Seq(SUBSET [rank : Ranks, lane : Lanes, tag : Tags])]
    BY <1>1, <1>2, <1>4, <1>5 DEF TypeOK
  <2>4. at' \in [Ranks -> [exchange : Nat, chunk : Nat, acked : Nat, peer : Nat \ {0}, uploaded : Nat]]
    <3>1. at[r] \in [exchange : Nat, chunk : Nat, acked : Nat, peer : Nat \ {0}, uploaded : Nat]
      BY <1>1 DEF TypeOK
    <3>2. [at[r] EXCEPT !.uploaded = k + 1] \in [exchange : Nat, chunk : Nat, acked : Nat, peer : Nat \ {0}, uploaded : Nat]
      BY <1>7, <3>1
    <3>3. at' = [at EXCEPT ![r] = [at[r] EXCEPT !.uploaded = k + 1]]
      BY <1>2, <1>4
    <3> QED BY <1>1, <3>2, <3>3 DEF TypeOK
  <2> QED BY <1>1, <1>2, <2>2, <2>3, <2>4, GroupFixed DEF TypeOK
<1>24. \A base : Given(base, r) /\ Sent(base, r) => Given(base, r)' /\ Sent(base, r)'
  BY <1>2, <1>13, <1>16, BooksStay
<1> QED BY <1>2, <1>3, <1>14, <1>16, <1>22, <1>23, <1>24, GlooStep

\* A chunk is given to the collective.
LEMMA GlooIssue ==
  ASSUME IInv, ~Shared, NEW r \in Ranks, Issue(r)
  PROVE  IInv'
<1>1. TypeOK /\ LeaseOutlivesCopies /\ Regions(r)
  BY DEF IInv, GlooInv
<1>2. PICK t : t = Content(r, Lane(r, at[r].chunk))
  OBVIOUS
<1>3. /\ group' = group /\ op' = op /\ asked' = asked /\ broken' = broken /\ dead' = dead /\ faults' = faults
      /\ at' = at /\ mem' = mem /\ down' = down /\ up' = up /\ got' = got /\ chan' = chan /\ waiting' = waiting
      /\ posted' = [posted EXCEPT ![r] = Append(posted[r], t)] /\ pc' = [pc EXCEPT ![r] = "gloo"]
      /\ pc[r] = "chunk" /\ at[r].chunk < op[r].count /\ Filled(r)
  BY <1>2 DEF Issue, MayGoOn, Group, Streams, Goto
<1>4. /\ Calls(r) \in Nat \ {0} /\ Deep(r) \in Nat \ {0} /\ at[r].chunk \in Nat /\ op[r].count \in Nat \ {0}
      /\ Issued(r) /\ Queued(r) /\ Loaded(r) /\ Results(r) /\ Returned(r) /\ op[r] = asked[r][Calls(r)]
  BY <1>3, AtGloo
<1>5. \A i \in Nat : i % Deep(r) \in Lanes /\ Lane(r, i) = i % Deep(r)
  BY <1>3, AtGloo
<1>6. PICK k, l : k = at[r].chunk /\ l = k % Deep(r)
  OBVIOUS
<1>7. k \in Nat /\ k \in Chunks(r) /\ Ahead(r, k) /\ Lane(r, k) = l /\ l \in Lanes
  <2>1. k \in Nat /\ Lane(r, k) = l /\ l \in Lanes
    BY <1>4, <1>5, <1>6
  <2>2. k < op[r].count /\ op[r].count \in Nat /\ Deep(r) \in Nat \ {0}
    BY <1>3, <1>4, <1>6
  <2>3. k \in 0 .. op[r].count - 1
    BY <2>1, <2>2
  <2>4. k <= k /\ k < k + Deep(r)
    BY <2>1, <2>2
  <2> QED BY <1>6, <2>1, <2>3, <2>4 DEF Chunks, Ahead
\* The region of the chunk is filled.
<1>8. \A j \in DOMAIN down[r] : down[r][j].lane # l
  BY <1>3, <1>6, <1>7 DEF Filled
<1>9. t = mem[r][l]
  BY <1>2, <1>6, <1>7, <1>8 DEF Content
<1>10. Sends(op[r], 1, r) => t = Chunk(Calls(r), r, All, k)
  BY <1>4, <1>6, <1>7, <1>8, <1>9 DEF Loaded
<1>11. t \in Tags
  BY <1>1, <1>7, <1>9 DEF TypeOK
<1>12. /\ posted' \in [Ranks -> Seq(Tags)] /\ Len(posted[r]) \in Nat /\ Len(posted'[r]) = Len(posted[r]) + 1
       /\ \A p \in 1 .. Len(posted[r]) : posted'[r][p] = posted[r][p]
       /\ posted'[r][Len(posted[r]) + 1] = t
       /\ \A q \in Ranks \ {r} : posted'[q] = posted[q]
  <2>1. posted \in [Ranks -> Seq(Tags)] /\ posted[r] \in Seq(Tags)
    BY <1>1 DEF TypeOK
  <2>2. /\ Append(posted[r], t) \in Seq(Tags) /\ Len(Append(posted[r], t)) = Len(posted[r]) + 1
        /\ \A p \in 1 .. Len(posted[r]) : Append(posted[r], t)[p] = posted[r][p]
        /\ Append(posted[r], t)[Len(posted[r]) + 1] = t /\ Len(posted[r]) \in Nat
    BY <1>11, <2>1, AppendProperties, LenProperties
  <2>3. posted'[r] = Append(posted[r], t) /\ \A q \in Ranks \ {r} : posted'[q] = posted[q]
    BY <1>3, <2>1
  <2> QED BY <1>3, <2>1, <2>2, <2>3
<1>13. pc'[r] = "gloo" /\ \A q \in Ranks \ {r} : pc'[q] = pc[q]
  BY <1>1, <1>3 DEF TypeOK
<1>14. \A q \in Ranks \ {r} : Same(q)
  BY <1>3, <1>12, <1>13 DEF Same
<1>15. /\ Calls(r)' = Calls(r) /\ Deep(r)' = Deep(r) /\ Chunks(r)' = Chunks(r) /\ All' = All
       /\ \A i : Behind(r, i)' = Behind(r, i) /\ Result(r, i)' = Result(r, i)
       /\ \A o, c, x, i, n : Copying(o, c, x, r, i, n)' = Copying(o, c, x, r, i, n)
       /\ \A o, x : Sends(o, x, r)' = Sends(o, x, r)
  BY <1>3, GlooFixed
<1>16. /\ op'[r] = op[r] /\ at'[r] = at[r] /\ down'[r] = down[r] /\ mem'[r] = mem[r] /\ up'[r] = up[r]
       /\ got'[r] = got[r] /\ dead'[r] = dead[r] /\ asked'[r] = asked[r]
  BY <1>3
<1>17. Issued(r)'
  BY <1>3, <1>4, <1>13, <1>15, <1>16 DEF Issued
<1>18. Queued(r)'
  <2>1. ASSUME NEW j \in DOMAIN down[r]
        PROVE  \E i \in Chunks(r) : /\ Ahead(r, i) /\ i # at[r].chunk
                                   /\ down[r][j] = Copying(op[r], Calls(r), 1, r, i, Behind(r, i))
    <3>1. PICK i \in Chunks(r) :
            /\ Ahead(r, i)
            /\ down[r][j] = Copying(op[r], Calls(r), 1, r, i, Behind(r, i))
            /\ down[r][j].lane = i % Deep(r)
      BY QueuedCopy
    <3>2. i # at[r].chunk
      BY <1>6, <1>8, <3>1
    <3> QED BY <3>1, <3>2
  <2> QED BY <1>15, <1>16, <2>1 DEF Queued, Ahead
<1>19. Loaded(r)'
  BY <1>4, <1>15, <1>16 DEF Loaded, Ahead
<1>20. Results(r)'
  BY <1>4, <1>15, <1>16 DEF Results
<1>21. Returned(r)'
  BY <1>3, <1>4, <1>13, <1>15, <1>16 DEF Returned
<1>22. Regions(r)'
  BY <1>13, <1>17, <1>18, <1>19, <1>20, <1>21 DEF Regions
<1>23. TypeOK'
  <2>1. pc' \in [Ranks -> {"idle", "metadata", "chunk", "ready", "free", "gloo", "drain", "failed"}]
    BY <1>1, <1>3 DEF TypeOK
  <2> QED BY <1>1, <1>3, <1>12, <2>1, GroupFixed DEF TypeOK
<1>24. ASSUME NEW base \in Seq(Nat), Bases(base), Given(base, r), Sent(base, r)
       PROVE  Given(base, r)' /\ Sent(base, r)'
  <2>1. PICK c, n, b : c = Calls(r) /\ n = Len(posted[r]) /\ b = base[c]
    OBVIOUS
  <2>2. c \in DOMAIN base /\ b \in Nat
    <3>1. base \in [1 .. Len(base) -> Nat] /\ Len(base) \in Nat /\ c <= Len(base)
      BY <1>24, <2>1, LenProperties DEF Bases
    <3> QED BY <1>4, <2>1, <3>1
  <2>3. n = b + k
    BY <1>3, <1>4, <1>6, <1>24, <2>1 DEF Given
  <2>4. Given(base, r)'
    <3>1. Len(posted'[r]) = b + k + 1 /\ k < op[r].count
      BY <1>3, <1>6, <1>12, <2>1, <2>3
    <3> QED BY <1>4, <1>6, <1>13, <1>15, <1>16, <2>1, <2>2, <3>1 DEF Given
  <2>5. ASSUME NEW e \in 1 .. c, NEW i \in 0 .. asked[r][e].count - 1, NEW p, p = base[e] + i + 1,
               p <= n + 1, Sends(asked[r][e], 1, r)
        PROVE  posted'[r][p] = Chunk(e, r, All, i)
    <3>1. asked[r][e] \in Ops /\ asked[r][e].count \in Nat /\ e \in DOMAIN base /\ base[e] \in Nat /\ e \in Nat
      <4>1. asked[r] \in Seq(Ops) /\ e \in 1 .. Len(asked[r])
        BY <1>1, <2>1 DEF TypeOK, Calls
      <4>2. asked[r][e] \in Ops
        BY <4>1
      <4>3. base \in [1 .. Len(base) -> Nat] /\ Len(base) \in Nat /\ c <= Len(base)
        BY <1>24, <2>1, LenProperties DEF Bases
      <4>4. e \in DOMAIN base /\ base[e] \in Nat /\ e \in Nat
        BY <1>4, <2>1, <4>3
      <4> QED BY <4>2, <4>4, Fields
    <3>2. p \in Nat \ {0} /\ i \in Nat
      BY <2>5, <3>1
    <3>3. CASE p <= n
      <4>1. posted[r][p] = Chunk(e, r, All, i)
        BY <1>24, <2>1, <2>5, <3>3 DEF Sent
      <4> QED BY <1>12, <2>1, <3>2, <3>3, <4>1
    <3>4. CASE p = n + 1
      <4>1. base[e] + i = b + k
        <5>1. base[e] \in Nat /\ i \in Nat /\ b \in Nat /\ k \in Nat
          BY <1>7, <2>2, <3>1, <3>2
        <5>2. base[e] + i + 1 = (b + k) + 1
          BY <2>3, <2>5, <3>4
        <5> QED BY <5>1, <5>2
      <4>2. e = c
        <5>1. SUFFICES ASSUME e < c PROVE FALSE
          BY <1>4, <2>1, <3>1
        <5>2. b >= base[e] + asked[r][e].count
          <6>1. e <= c
            BY <1>4, <2>1, <3>1, <5>1
          <6>2. \A d, f \in DOMAIN base : d < f /\ d <= Calls(r) => base[f] >= base[d] + asked[r][d].count
            BY <1>24 DEF Bases
          <6> QED BY <2>1, <2>2, <3>1, <5>1, <6>1, <6>2
        <5>3. base[e] \in Nat /\ i \in Nat /\ b \in Nat /\ k \in Nat /\ asked[r][e].count \in Nat
              /\ i < asked[r][e].count
          BY <1>7, <2>2, <2>5, <3>1, <3>2
        <5> QED BY <4>1, <5>2, <5>3
      <4>3. i = k /\ asked[r][e] = op[r]
        <5>1. b + i = b + k /\ b \in Nat /\ i \in Nat /\ k \in Nat
          BY <1>7, <2>1, <2>2, <3>2, <4>1, <4>2
        <5>2. i = k
          BY <5>1
        <5> QED BY <1>4, <2>1, <4>2, <5>2
      <4> QED BY <1>10, <1>12, <2>1, <2>5, <3>4, <4>2, <4>3
    <3> QED BY <1>12, <2>1, <2>5, <3>2, <3>3, <3>4
  <2>6. Sent(base, r)'
    BY <1>12, <1>15, <1>16, <2>1, <2>5 DEF Sent
  <2> QED BY <2>4, <2>6
<1> QED BY <1>3, <1>13, <1>14, <1>22, <1>23, <1>24, GlooStep

\* The thread has given all its chunks to the collectives, or the call ends.
LEMMA GlooMoves ==
  ASSUME IInv, ~Shared, NEW r \in Ranks, LastChunk(r) \/ Return(r) \/ TimeOut(r) \/ Shutdown(r)
  PROVE  IInv'
<1>1. TypeOK /\ LeaseOutlivesCopies /\ Regions(r)
  BY DEF IInv, GlooInv
<1>2. PICK w : w = pc'[r]
  OBVIOUS
<1>3. /\ group' = group /\ op' = op /\ asked' = asked /\ posted' = posted
      /\ at' = at /\ mem' = mem /\ down' = down /\ up' = up /\ got' = got /\ chan' = chan /\ waiting' = waiting
      /\ pc' = [pc EXCEPT ![r] = w] /\ faults' \in {faults, faults + 1}
      /\ dead' \in {dead, [dead EXCEPT ![r] = TRUE]}
      /\ broken' \in {broken, [broken EXCEPT ![r] = @ \/ pc[r] \in {"ready", "free"}]}
      /\ \/ pc[r] = "chunk" /\ w = "drain" /\ at[r].chunk = op[r].count
         \/ pc[r] \in {"drain", "failed"} /\ w = "idle" /\ down[r] = <<>> /\ up[r] = <<>> /\ dead' = dead
         \/ pc[r] = "gloo" /\ w = "failed" /\ dead' = [dead EXCEPT ![r] = TRUE]
         \/ pc[r] = "idle" /\ w = "idle" /\ dead' = [dead EXCEPT ![r] = TRUE]
  <2>1. CASE LastChunk(r)
    BY <1>1, <1>2, <2>1 DEF LastChunk, MayGoOn, Group, Control, Streams, Goto, TypeOK
  <2>2. CASE Return(r)
    BY <1>1, <1>2, <2>2 DEF Return, Group, Control, Streams, Goto, TypeOK
  <2>3. CASE TimeOut(r)
    <3>1. pc[r] = "gloo"
      BY <1>1, <2>3 DEF TimeOut, Regions
    <3> QED BY <1>1, <1>2, <2>3, <3>1 DEF TimeOut, Control, Streams, Goto, TypeOK
  <2>4. CASE Shutdown(r)
    <3>1. pc' = pc /\ pc = [pc EXCEPT ![r] = pc[r]] /\ w = pc[r]
      BY <1>1, <1>2, <2>4 DEF Shutdown, TypeOK
    <3> QED BY <2>4, <3>1 DEF Shutdown, Control, Streams
  <2> QED BY <2>1, <2>2, <2>3, <2>4
<1>4. /\ \A q \in Ranks \ {r} : pc'[q] = pc[q] /\ dead'[q] = dead[q] /\ broken'[q] = broken[q]
      /\ dead'[r] = dead[r] \/ (dead'[r] = TRUE /\ w # "chunk")
      /\ w = "failed" => dead'[r] = TRUE
      /\ pc[r] = "idle" => dead'[r] = TRUE
  BY <1>1, <1>3 DEF TypeOK
<1>5. \A q \in Ranks \ {r} : Same(q)
  BY <1>3, <1>4 DEF Same
<1>6. /\ Calls(r)' = Calls(r) /\ Deep(r)' = Deep(r) /\ Chunks(r)' = Chunks(r) /\ All' = All
      /\ \A i : Behind(r, i)' = Behind(r, i) /\ Result(r, i)' = Result(r, i)
      /\ \A o, c, x, i, n : Copying(o, c, x, r, i, n)' = Copying(o, c, x, r, i, n)
      /\ \A o, x : Sends(o, x, r)' = Sends(o, x, r)
  BY <1>3, GlooFixed
<1>7. /\ op'[r] = op[r] /\ at'[r] = at[r] /\ down'[r] = down[r] /\ mem'[r] = mem[r] /\ up'[r] = up[r]
      /\ got'[r] = got[r] /\ asked'[r] = asked[r] /\ posted'[r] = posted[r]
  BY <1>3
<1>8. Calls(r) >= 1 => Issued(r)' /\ Queued(r)' /\ Loaded(r)' /\ Results(r)' /\ Returned(r)'
  <2>1. SUFFICES ASSUME Issued(r) /\ Queued(r) /\ Loaded(r) /\ Results(r) /\ Returned(r)
                 PROVE  Issued(r)' /\ Queued(r)' /\ Loaded(r)' /\ Results(r)' /\ Returned(r)'
    BY <1>1 DEF Regions
  <2>2. Issued(r)'
    BY <1>2, <1>3, <1>6, <1>7, <2>1 DEF Issued
  <2>3. Queued(r)'
    BY <1>2, <1>3, <1>6, <1>7, <2>1 DEF Queued, Ahead
  <2>4. Loaded(r)'
    BY <1>6, <1>7, <2>1 DEF Loaded, Ahead
  <2>5. Results(r)'
    BY <1>6, <1>7, <2>1 DEF Results
  <2>6. Returned(r)'
    BY <1>2, <1>3, <1>6, <1>7, <2>1 DEF Returned
  <2> QED BY <2>2, <2>3, <2>4, <2>5, <2>6
<1>9. Regions(r)'
  BY <1>2, <1>3, <1>6, <1>8 DEF Regions
<1>10. TypeOK'
  <2>1. pc' \in [Ranks -> {"idle", "metadata", "chunk", "ready", "free", "gloo", "drain", "failed"}]
    BY <1>1, <1>3 DEF TypeOK
  <2>2. dead' \in [Ranks -> BOOLEAN] /\ broken' \in [Ranks -> BOOLEAN] /\ faults' \in Nat
    <3>1. dead \in [Ranks -> BOOLEAN] /\ broken \in [Ranks -> BOOLEAN] /\ faults \in Nat
      BY <1>1 DEF TypeOK
    <3>2. dead' \in [Ranks -> BOOLEAN]
      BY <1>3, <3>1
    <3>3. (broken[r] \/ pc[r] \in {"ready", "free"}) \in BOOLEAN
      OBVIOUS
    <3>4. broken' \in [Ranks -> BOOLEAN]
      BY <1>3, <3>1, <3>3
    <3>5. faults' \in Nat
      BY <1>3, <3>1
    <3> QED BY <3>2, <3>4, <3>5
  <2> QED BY <1>1, <1>3, <2>1, <2>2, GroupFixed DEF TypeOK
<1>11. ASSUME NEW base \in Seq(Nat), Bases(base), Given(base, r), Sent(base, r)
       PROVE  Given(base, r)' /\ Sent(base, r)'
  <2>1. Sent(base, r)'
    BY <1>6, <1>7, <1>11 DEF Sent
  <2>2. Given(base, r)'
    <3>1. CASE Calls(r) = 0
      BY <1>6, <1>7, <1>11, <3>1 DEF Given
    <3>2. CASE Calls(r) >= 1
      <4>1. Issued(r)
        BY <1>1, <3>2 DEF Regions
      <4>2. w = "idle" /\ dead'[r] # TRUE => at[r].chunk = op[r].count
        <5>1. pc[r] = "failed" => dead[r]
          BY <1>11, <3>2 DEF Given
        <5>2. pc[r] = "drain" => at[r].chunk = op[r].count
          BY <4>1 DEF Issued
        <5>3. dead[r] \in BOOLEAN
          BY <1>1 DEF TypeOK
        <5> QED BY <1>3, <1>4, <5>1, <5>2, <5>3
      <4> QED BY <1>2, <1>3, <1>4, <1>6, <1>7, <1>11, <3>2, <4>2 DEF Given
    <3>3. Calls(r) \in Nat
      BY <1>1 DEF TypeOK, Calls
    <3> QED BY <3>1, <3>2, <3>3
  <2> QED BY <2>1, <2>2
<1>12. pc'[r] \in {"idle", "metadata"} => down'[r] = <<>> /\ up'[r] = <<>>
  BY <1>1, <1>2, <1>3 DEF LeaseOutlivesCopies
<1> QED BY <1>2, <1>3, <1>5, <1>9, <1>10, <1>11, <1>12, GlooStep

\* What each rank gave to the collective of a chunk is that chunk.
LEMMA GlooAgrees ==
  ASSUME IInv, ~Shared, NEW r \in Ranks, pc[r] = "gloo",
         NEW s \in Ranks, Len(posted[s]) >= Len(posted[r]), Sends(op[r], 1, s)
  PROVE  posted[s][Len(posted[r])] = Chunk(Calls(r), s, All, at[r].chunk)
<1>1. /\ TypeOK /\ Turns /\ Compatible /\ Regions(s)
  BY DEF IInv, GlooInv
<1>2. PICK base \in Seq(Nat) : Bases(base) /\ Posts(base)
  BY DEF IInv, GlooInv, History
<1>3. PICK c, i, b, k, m : c = Calls(r) /\ i = at[r].chunk /\ b = base[c] /\ k = Len(posted[r]) /\ m = Calls(s)
  OBVIOUS
<1>4. /\ c \in Nat \ {0} /\ i \in Nat /\ op[r] = asked[r][c] /\ op[r].count \in Nat \ {0} /\ i < op[r].count
  BY <1>3, AtGloo DEF Issued
<1>5. m \in Nat /\ Len(posted[s]) \in Nat /\ asked[s] \in Seq(Ops)
  <2>1. asked[s] \in Seq(Ops) /\ posted[s] \in Seq(Tags)
    BY <1>1 DEF TypeOK
  <2> QED BY <1>3, <2>1, LenProperties DEF Calls
<1>6. \A e \in Nat \ {0} : e <= c \/ e <= m => e \in DOMAIN base /\ base[e] \in Nat
  <2>1. base \in [1 .. Len(base) -> Nat] /\ Len(base) \in Nat /\ c <= Len(base) /\ m <= Len(base)
    BY <1>2, <1>3, LenProperties DEF Bases
  <2> QED BY <1>4, <1>5, <2>1
<1>7. b \in Nat /\ k = b + i + 1
  <2>1. b \in Nat
    BY <1>3, <1>4, <1>6
  <2>2. Given(base, r)
    BY <1>2 DEF Posts
  <2>3. k = b + i + 1
    BY <1>3, <1>4, <2>2 DEF Given
  <2> QED BY <2>1, <2>3
<1>8. m >= c
  <2>1. SUFFICES ASSUME m < c PROVE FALSE
    BY <1>4, <1>5
  <2>2. Given(base, s) /\ Len(posted[s]) >= k
    BY <1>2, <1>3 DEF Posts
  <2>3. CASE m = 0
    <3>1. Len(posted[s]) = 0
      BY <1>3, <2>2, <2>3, EmptySeq DEF Given
    <3> QED BY <1>4, <1>7, <2>2, <3>1
  <2>4. CASE m # 0
    <3>1. PICK z : z = asked[s][m]
      OBVIOUS
    <3>2. m >= 1 /\ m \in DOMAIN base /\ c \in DOMAIN base /\ base[m] \in Nat /\ z = op[s] /\ z \in Ops
      <4>1. m >= 1 /\ m \in Nat \ {0}
        BY <1>5, <2>4
      <4>2. z = op[s]
        BY <1>1, <1>3, <3>1, <4>1 DEF Turns
      <4>3. z \in Ops
        BY <1>3, <1>5, <3>1, <4>1 DEF Calls
      <4> QED BY <1>4, <1>6, <4>1, <4>2, <4>3
    <3>3. b >= base[m] + z.count
      <4>1. \A d, f \in DOMAIN base : d < f /\ d <= Calls(s) => base[f] >= base[d] + asked[s][d].count
        BY <1>2 DEF Bases
      <4>2. m <= Calls(s) /\ m < c
        BY <1>3, <1>5, <2>1
      <4>3. base[c] >= base[m] + asked[s][m].count
        BY <3>2, <4>1, <4>2
      <4> QED BY <1>3, <3>1, <4>3
    <3>4. PICK h : h = at[s].chunk
      OBVIOUS
    <3>5. h \in Nat /\ h <= z.count /\ z.count \in Nat
      <4>1. at[s] \in [exchange : Nat, chunk : Nat, acked : Nat, peer : Nat \ {0}, uploaded : Nat]
        BY <1>1 DEF TypeOK
      <4>2. Issued(s)
        BY <1>1, <1>3, <3>2 DEF Regions
      <4> QED BY <3>2, <3>4, <4>1, <4>2, Fields DEF Issued
    <3>6. Len(posted[s]) <= base[m] + h + (IF h < z.count THEN 1 ELSE 0)
      BY <1>3, <2>2, <3>2, <3>4 DEF Given
    <3>7. PICK x, y, e : x = Len(posted[s]) /\ y = base[m] /\ e = z.count
      OBVIOUS
    <3>8. /\ x \in Nat /\ y \in Nat /\ e \in Nat /\ h \in Nat /\ b \in Nat /\ i \in Nat
          /\ h <= e /\ b >= y + e /\ x >= b + i + 1
          /\ x <= y + h + (IF h < e THEN 1 ELSE 0)
      BY <1>4, <1>5, <1>7, <2>2, <3>2, <3>3, <3>5, <3>6, <3>7
    <3> QED BY <3>8
  <2> QED BY <2>3, <2>4
<1>9. asked[s][c] = op[r] /\ c \in 1 .. m
  BY <1>1, <1>3, <1>4, <1>5, <1>8 DEF Compatible
<1>10. i \in 0 .. asked[s][c].count - 1
  BY <1>4, <1>9
<1>11. base[c] + i + 1 = k /\ k <= Len(posted[s])
  BY <1>3, <1>7
<1>12. Sent(base, s)
  BY <1>2 DEF Posts
<1>13. posted[s][base[c] + i + 1] = Chunk(c, s, All, i)
  BY <1>3, <1>9, <1>10, <1>11, <1>12 DEF Sent
<1> QED BY <1>3, <1>11, <1>13

\* The collective of a chunk is done.
LEMMA GlooGather ==
  ASSUME IInv, ~Shared, NEW r \in Ranks, Gather(r)
  PROVE  IInv'
<1>1. TypeOK /\ LeaseOutlivesCopies /\ Regions(r)
  BY DEF IInv, GlooInv
<1>2. PICK i, b, n, c, v, f, g, w, o :
        /\ i = at[r].chunk /\ b = Deep(r) /\ n = op[r].count /\ c = Calls(r) /\ v = Chunk(c, All, r, i)
        /\ f = down[r] /\ g = up[r] /\ o = op[r] /\ w = Copying(o, c, 1, r, i + b, i + 1)
  OBVIOUS
<1>3. pc[r] = "gloo" /\ ~dead[r] /\ \A s \in Ranks : Len(posted[s]) >= Len(posted[r])
  BY DEF Gather
<1>4. /\ group.transport = "gloo" /\ c \in Nat \ {0} /\ b \in Nat \ {0} /\ i \in Nat /\ n \in Nat \ {0} /\ i < n
      /\ at[r].uploaded \in Nat /\ o \in Ops
      /\ Issued(r) /\ Queued(r) /\ Loaded(r) /\ Results(r) /\ Returned(r)
  BY <1>2, <1>3, AtGloo DEF Issued
<1>5. \A h \in Nat : h % b \in Lanes /\ Lane(r, h) = h % b
  BY <1>2, <1>3, AtGloo
<1>6. PICK l : l = i % b
  OBVIOUS
<1>7. l \in Lanes /\ Lane(r, i) = l
  BY <1>4, <1>5, <1>6
<1>8. \A s \in Ranks : Sends(op[r], 1, s) => posted[s][Len(posted[r])] = Chunk(Calls(r), s, All, at[r].chunk)
  BY <1>3, GlooAgrees
<1>9. /\ group' = group /\ op' = op /\ asked' = asked /\ broken' = broken /\ dead' = dead /\ faults' = faults
      /\ posted' = posted /\ got' = got /\ chan' = chan /\ waiting' = waiting
      /\ mem' = [mem EXCEPT ![r][l] = v]
      /\ pc' = [pc EXCEPT ![r] = "chunk"] /\ at' = [at EXCEPT ![r].chunk = i + 1]
  BY <1>2, <1>7, <1>8 DEF Gather, Group, Control, Goto
<1>10. up' = [up EXCEPT ![r] = Append(g, Result(r, i))]
  BY <1>2, <1>6, <1>7 DEF Gather, Result
<1>11. down' = [down EXCEPT ![r] = IF i + b >= n THEN f ELSE Append(f, w)]
  <2>1. down' = IF i + b >= n THEN down ELSE [down EXCEPT ![r] = Append(f, w)]
    BY <1>2, <1>4 DEF Gather, Download, Downloads, Deep
  <2> QED BY <1>1, <1>2, <2>1 DEF TypeOK
<1>12. v \in Tags
  <2>1. c \in Int /\ r \in Int /\ All \in Int /\ i \in Int
    BY <1>1, <1>4, Sizes DEF All
  <2> QED BY <1>1, <1>2, <2>1, ChunkType
<1>13. /\ mem' \in [Ranks -> [Lanes -> Tags]] /\ mem'[r][l] = v /\ \A m \in Lanes : m # l => mem'[r][m] = mem[r][m]
       /\ \A q \in Ranks \ {r} : mem'[q] = mem[q]
  BY <1>1, <1>7, <1>9, <1>12 DEF TypeOK
<1>14. /\ at'[r].exchange = at[r].exchange /\ at'[r].chunk = i + 1 /\ at'[r].uploaded = at[r].uploaded
       /\ pc'[r] = "chunk" /\ op'[r] = o /\ got'[r] = got[r] /\ dead'[r] = dead[r] /\ posted'[r] = posted[r]
       /\ asked'[r] = asked[r]
       /\ \A q \in Ranks \ {r} : at'[q] = at[q] /\ pc'[q] = pc[q]
  BY <1>1, <1>2, <1>9 DEF TypeOK
<1>15. PICK d, u : d = down'[r] /\ u = up'[r]
  OBVIOUS
<1>16. /\ d = (IF i + b >= n THEN f ELSE Append(f, w)) /\ u = Append(g, Result(r, i))
       /\ \A q \in Ranks \ {r} : down'[q] = down[q] /\ up'[q] = up[q]
  BY <1>1, <1>10, <1>11, <1>15 DEF TypeOK
<1>17. \A q \in Ranks \ {r} : Same(q)
  BY <1>9, <1>13, <1>14, <1>16 DEF Same
<1>18. /\ Calls(r)' = c /\ Deep(r)' = b /\ Chunks(r)' = Chunks(r) /\ All' = All
       /\ \A h : Behind(r, h)' = Behind(r, h) /\ Result(r, h)' = Result(r, h)
       /\ \A a, e, x, h, y : Copying(a, e, x, r, h, y)' = Copying(a, e, x, r, h, y)
       /\ \A a, x : Sends(a, x, r)' = Sends(a, x, r)
  BY <1>2, <1>9, GlooFixed
\* The copy into the region behind this one.
<1>19. /\ w \in [lane : Lanes, tag : Tags, after : Nat, writes : BOOLEAN] /\ w.lane = (i + b) % b
       /\ w = Copying(o, c, 1, r, i + b, Behind(r, i + b))
  <2>1. i + b \in Nat /\ i + 1 \in Nat /\ c \in Nat
    BY <1>4
  <2>2. w \in [lane : Lanes, tag : Tags, after : Nat, writes : BOOLEAN]
    BY <1>1, <1>2, <1>4, <2>1, CopyingType
  <2>3. Behind(r, i + b) = i + 1
    BY <1>2, <1>4 DEF Behind
  <2>4. w.lane = (i + b) % b
    BY <1>2 DEF Copying, Deep
  <2> QED BY <1>2, <2>2, <2>3, <2>4
<1>20. /\ d \in Seq([lane : Lanes, tag : Tags, after : Nat, writes : BOOLEAN])
       /\ \A j \in DOMAIN f : j \in DOMAIN d /\ d[j] = f[j]
       /\ \A j \in DOMAIN d : j \in DOMAIN f \/ (i + b < n /\ d[j] = w)
       /\ i + b < n => \E j \in DOMAIN d : d[j] = w
  <2>1. PICK T : T = [lane : Lanes, tag : Tags, after : Nat, writes : BOOLEAN]
    OBVIOUS
  <2>2. f \in Seq(T) /\ w \in T
    BY <1>1, <1>2, <1>19, <2>1 DEF TypeOK
  <2>3. CASE i + b >= n
    BY <1>4, <1>16, <2>1, <2>2, <2>3
  <2>4. CASE ~(i + b >= n)
    <3>1. d = Append(f, w) /\ i + b < n
      BY <1>4, <1>16, <2>4
    <3>2. /\ d \in Seq(T) /\ Len(d) = Len(f) + 1 /\ (\A j \in 1 .. Len(f) : d[j] = f[j]) /\ d[Len(f) + 1] = w
          /\ DOMAIN f = 1 .. Len(f) /\ DOMAIN d = 1 .. Len(d) /\ Len(f) \in Nat
      BY <2>2, <3>1, AppendProperties, LenProperties
    <3>3. Len(f) + 1 \in DOMAIN d
      BY <3>2
    <3>4. \A j \in DOMAIN d : j \in DOMAIN f \/ j = Len(f) + 1
      BY <3>2
    <3>5. \A j \in DOMAIN f : j \in DOMAIN d
      BY <3>2
    <3> QED BY <2>1, <3>1, <3>2, <3>3, <3>4, <3>5
  <2> QED BY <2>3, <2>4
<1>21. i + 1 <= at[r].uploaded + b
  <2>1. Ahead(r, i) /\ i \in Chunks(r)
    BY <1>2, <1>4 DEF Ahead, Chunks
  <2>2. ASSUME NEW j \in DOMAIN down[r], down[r][j].lane = i % Deep(r) PROVE FALSE
    <3>1. PICK h \in Chunks(r) : Ahead(r, h) /\ h # at[r].chunk /\ down[r][j].lane = h % Deep(r)
      BY <1>3, QueuedCopy
    <3>2. h \in Nat
      BY <1>3, AtGloo
    <3>3. h # i /\ h < i + b /\ i < h + b
      BY <1>2, <1>4, <3>1, <3>2 DEF Ahead
    <3>4. h % b # i % b
      BY <1>4, <3>2, <3>3, CloseApart
    <3> QED BY <1>2, <2>2, <3>1, <3>4
  <2>3. i < at[r].uploaded + b
    BY <1>2, <1>4, <2>1, <2>2 DEF Loaded
  <2> QED BY <1>4, <2>3
<1>22. Issued(r)'
  <2>1. at[r].exchange = 1 /\ at[r].uploaded <= i
    BY <1>2, <1>4 DEF Issued
  <2>2. at[r].uploaded <= i + 1 /\ i + 1 <= n
    BY <1>4, <2>1
  <2>3. op'[r].count = n
    BY <1>2, <1>14
  <2> QED BY <1>14, <1>18, <1>21, <2>1, <2>2, <2>3 DEF Issued
<1>23. \A h : Ahead(r, h)' <=> i + 1 <= h /\ h < (i + 1) + b
  BY <1>14, <1>18 DEF Ahead
<1>24. \A h \in Chunks(r) : h \in Nat /\ h < n
  BY <1>2, <1>4 DEF Chunks
<1>25. Queued(r)'
  <2>1. ASSUME NEW j \in DOMAIN d
        PROVE  \E h \in Chunks(r) : /\ i + 1 <= h /\ h < (i + 1) + b
                                   /\ d[j] = Copying(o, c, 1, r, h, Behind(r, h))
    <3>1. CASE j \in DOMAIN f
      <4>1. PICK h \in Chunks(r) : /\ Ahead(r, h) /\ h # at[r].chunk
                                   /\ f[j] = Copying(o, c, 1, r, h, Behind(r, h))
        BY <1>2, <1>3, <1>4, <3>1 DEF Queued
      <4>2. i + 1 <= h /\ h < (i + 1) + b
        BY <1>2, <1>4, <1>24, <4>1 DEF Ahead
      <4> QED BY <1>20, <3>1, <4>1, <4>2
    <3>2. CASE i + b < n /\ d[j] = w
      <4>1. i + b \in Chunks(r) /\ i + 1 <= i + b /\ i + b < (i + 1) + b
        BY <1>2, <1>4, <3>2 DEF Chunks
      <4> QED BY <1>19, <3>2, <4>1
    <3> QED BY <1>20, <3>1, <3>2
  <2> QED BY <1>14, <1>15, <1>18, <1>23, <2>1 DEF Queued
<1>26. Loaded(r)'
  <2>1. ASSUME NEW h \in Chunks(r), i + 1 <= h, h < (i + 1) + b
        PROVE  \/ \E j \in DOMAIN d : d[j].lane = h % b
               \/ /\ h < at[r].uploaded + b
                  /\ Sends(o, 1, r) => mem'[r][h % b] = Chunk(c, r, All, h)
    <3>1. CASE h = i + b
      BY <1>19, <1>20, <1>24, <2>1, <3>1
    <3>2. CASE h # i + b
      <4>1. h \in Nat /\ i < h /\ h < i + b /\ i < h + b
        BY <1>4, <1>24, <2>1, <3>2
      <4>2. Ahead(r, h)
        BY <1>2, <1>4, <4>1 DEF Ahead
      <4>6. h \in Nat /\ i \in Nat /\ b \in Nat \ {0} /\ h < i + b /\ i < h + b /\ h # i
        BY <1>4, <4>1
      <4>7. h % b # i % b
        BY <4>6, CloseApart
      <4>3. h % b # l
        BY <1>6, <4>7
      <4>4. mem'[r][h % b] = mem[r][h % b]
        BY <1>5, <1>13, <4>1, <4>3
      <4>5. \/ \E j \in DOMAIN f : f[j].lane = h % b
            \/ /\ h < at[r].uploaded + b
               /\ Sends(o, 1, r) => mem[r][h % b] = Chunk(c, r, All, h)
        BY <1>2, <1>4, <4>2 DEF Loaded
      <4> QED BY <1>20, <4>4, <4>5
    <3> QED BY <3>1, <3>2
  <2> QED BY <1>14, <1>15, <1>18, <1>23, <2>1 DEF Loaded
<1>27. Results(r)'
  <2>1. ASSUME NEW h \in Chunks(r), at[r].uploaded <= h, h < i + 1
        PROVE  mem'[r][h % b] = Chunk(c, All, r, h)
    <3>1. CASE h = i
      BY <1>2, <1>6, <1>13, <3>1
    <3>2. CASE h # i
      <4>1. h \in Nat /\ h < i /\ i < h + b
        BY <1>4, <1>21, <1>24, <2>1, <3>2
      <4>2. h \in Nat /\ i \in Nat /\ b \in Nat \ {0} /\ h < i + b /\ i < h + b /\ h # i
        BY <1>4, <3>2, <4>1
      <4>5. h % b # i % b
        BY <4>2, CloseApart
      <4>3. h % b # l
        BY <1>6, <4>5
      <4>4. mem'[r][h % b] = mem[r][h % b]
        BY <1>5, <1>13, <4>1, <4>3
      <4> QED BY <1>2, <1>4, <2>1, <4>1, <4>4 DEF Results
    <3> QED BY <3>1, <3>2
  <2> QED BY <1>14, <1>18, <2>1 DEF Results
<1>28. Result(r, i) \in SUBSET [rank : Ranks, lane : Lanes, tag : Tags]
  <2>1. [rank |-> r, lane |-> l, tag |-> v] \in [rank : Ranks, lane : Lanes, tag : Tags]
    BY <1>7, <1>12
  <2> QED BY <1>2, <1>6, <2>1 DEF Result
<1>29. /\ u \in Seq(SUBSET [rank : Ranks, lane : Lanes, tag : Tags]) /\ Len(u) = Len(g) + 1 /\ Len(g) \in Nat
       /\ (\A j \in 1 .. Len(g) : u[j] = g[j]) /\ u[Len(g) + 1] = Result(r, i)
       /\ DOMAIN u = 1 .. Len(g) + 1 /\ DOMAIN g = 1 .. Len(g)
  <2>1. PICK T : T = SUBSET [rank : Ranks, lane : Lanes, tag : Tags]
    OBVIOUS
  <2>2. g \in Seq(T) /\ Result(r, i) \in T
    BY <1>1, <1>2, <1>28, <2>1 DEF TypeOK
  <2>3. /\ u \in Seq(T) /\ Len(u) = Len(g) + 1 /\ Len(g) \in Nat
        /\ (\A j \in 1 .. Len(g) : u[j] = g[j]) /\ u[Len(g) + 1] = Result(r, i)
        /\ DOMAIN u = 1 .. Len(u) /\ DOMAIN g = 1 .. Len(g)
    BY <1>16, <2>2, AppendProperties, LenProperties
  <2> QED BY <2>1, <2>3
<1>30. Returned(r)'
  <2>1. Len(g) = i - at[r].uploaded /\ \A j \in DOMAIN g : g[j] = Result(r, at[r].uploaded + j - 1)
    BY <1>2, <1>4 DEF Returned
  <2>2. Len(u) = (i + 1) - at[r].uploaded /\ at[r].uploaded + (Len(g) + 1) - 1 = i
    <3>1. Len(u) = Len(g) + 1 /\ Len(g) = i - at[r].uploaded /\ i \in Nat /\ at[r].uploaded \in Nat /\ Len(g) \in Nat
      BY <1>4, <1>29, <2>1
    <3> QED BY <3>1
  <2>3. ASSUME NEW j \in DOMAIN u
        PROVE  u[j] = Result(r, at[r].uploaded + j - 1)
    <3>1. CASE j = Len(g) + 1
      BY <1>29, <2>2, <3>1
    <3>2. CASE j # Len(g) + 1
      <4>1. j \in 1 .. Len(g)
        BY <1>29, <3>2
      <4> QED BY <1>29, <2>1, <4>1
    <3> QED BY <3>1, <3>2
  <2>4. got[r] = {Chunk(c, All, r, h) : h \in 0 .. at[r].uploaded - 1}
    BY <1>2, <1>3, <1>4 DEF Returned
  <2> QED BY <1>14, <1>15, <1>18, <2>2, <2>3, <2>4 DEF Returned
<1>31. Regions(r)'
  BY <1>14, <1>22, <1>25, <1>26, <1>27, <1>30 DEF Regions
<1>32. TypeOK'
  <2>1. pc' \in [Ranks -> {"idle", "metadata", "chunk", "ready", "free", "gloo", "drain", "failed"}]
    BY <1>1, <1>9 DEF TypeOK
  <2>2. at' \in [Ranks -> [exchange : Nat, chunk : Nat, acked : Nat, peer : Nat \ {0}, uploaded : Nat]]
    <3>1. at[r] \in [exchange : Nat, chunk : Nat, acked : Nat, peer : Nat \ {0}, uploaded : Nat]
      BY <1>1 DEF TypeOK
    <3>2. [at[r] EXCEPT !.chunk = i + 1] \in [exchange : Nat, chunk : Nat, acked : Nat, peer : Nat \ {0}, uploaded : Nat]
      BY <1>4, <3>1
    <3>3. at' = [at EXCEPT ![r] = [at[r] EXCEPT !.chunk = i + 1]]
      BY <1>9
    <3> QED BY <1>1, <3>2, <3>3 DEF TypeOK
  <2>3. down' \in [Ranks -> Seq([lane : Lanes, tag : Tags, after : Nat, writes : BOOLEAN])]
    <3>1. down' = [down EXCEPT ![r] = d]
      BY <1>11, <1>16
    <3> QED BY <1>1, <1>20, <3>1 DEF TypeOK
  <2>4. up' \in [Ranks -> Seq(SUBSET [rank : Ranks, lane : Lanes, tag : Tags])]
    <3>1. up' = [up EXCEPT ![r] = u]
      BY <1>10, <1>16
    <3> QED BY <1>1, <1>29, <3>1 DEF TypeOK
  <2> QED BY <1>1, <1>9, <1>13, <2>1, <2>2, <2>3, <2>4, GroupFixed DEF TypeOK
<1>33. ASSUME NEW base \in Seq(Nat), Bases(base), Given(base, r), Sent(base, r)
       PROVE  Given(base, r)' /\ Sent(base, r)'
  <2>1. Sent(base, r)'
    BY <1>2, <1>14, <1>18, <1>33 DEF Sent
  <2>2. PICK y : y = base[c]
    OBVIOUS
  <2>3. y \in Nat
    <3>1. base \in [1 .. Len(base) -> Nat] /\ Len(base) \in Nat /\ c <= Len(base)
      BY <1>2, <1>33, LenProperties DEF Bases
    <3> QED BY <1>4, <2>2, <3>1
  <2>4. Len(posted[r]) = y + i + 1
    BY <1>2, <1>3, <1>4, <1>33, <2>2 DEF Given
  <2>5. /\ Len(posted[r]) = y + (i + 1)
        /\ Len(posted[r]) <= y + (i + 1) + (IF i + 1 < n THEN 1 ELSE 0)
    BY <1>4, <2>3, <2>4
  <2>6. c # 0 /\ op'[r].count = n
    BY <1>2, <1>4, <1>14
  <2>7. Len(posted[r]) >= y + (i + 1)
    BY <1>4, <2>3, <2>5
  <2>8. Given(base, r)'
    BY <1>14, <1>18, <2>2, <2>5, <2>6, <2>7 DEF Given
  <2> QED BY <2>1, <2>8
<1> QED BY <1>3, <1>9, <1>14, <1>17, <1>31, <1>32, <1>33, GlooStep

\* A rank begins a call.
LEMMA GlooCall ==
  ASSUME IInv, ~Shared, NEW r \in Ranks, NEW w \in Ops, Call(r, w)
  PROVE  IInv'
<1>1. /\ TypeOK /\ Turns /\ LeaseOutlivesCopies /\ (\A q \in Ranks : Regions(q)) /\ Compatible /\ History
  BY DEF IInv, GlooInv
<1>2. group.transport = "gloo"
  BY <1>1, Sizes DEF Shared
<1>3. PICK c, b, n : c = Calls(r) + 1 /\ b = Buffers(w, r) /\ n = w.count
  OBVIOUS
<1>4. PICK f : f = [k \in 1 .. Min({b, n}) |-> Copying(w, c, 1, r, k - 1, 0)]
  OBVIOUS
<1>5. PICK a : a = [exchange |-> 1, chunk |-> 0, acked |-> 0, peer |-> 1, uploaded |-> 0]
  OBVIOUS
<1>6. /\ group' = group /\ broken' = broken /\ dead' = dead /\ faults' = faults /\ waiting' = waiting
      /\ posted' = posted /\ mem' = mem /\ up' = up /\ chan' = chan
      /\ asked' = [asked EXCEPT ![r] = Append(@, w)] /\ op' = [op EXCEPT ![r] = w]
      /\ got' = [got EXCEPT ![r] = {}] /\ pc' = [pc EXCEPT ![r] = "chunk"]
      /\ at' = [at EXCEPT ![r] = a] /\ down' = [down EXCEPT ![r] = f]
      /\ pc[r] = "idle" /\ ~dead[r] /\ \A s \in Ranks : Calls(s) > Calls(r) => asked[s][Calls(r) + 1] = w
  BY <1>2, <1>3, <1>4, <1>5 DEF Call, StartExchange, Downloads, Control, Goto
<1>7. asked \in [Ranks -> Seq(Ops)] /\ c \in Nat \ {0} /\ Calls(r) = c - 1 /\ \A q \in Ranks : Calls(q) \in Nat
  <2>1. asked \in [Ranks -> Seq(Ops)]
    BY <1>1 DEF TypeOK
  <2>2. \A q \in Ranks : Calls(q) \in Nat
    BY <2>1 DEF Calls
  <2> QED BY <1>3, <2>1, <2>2
<1>8. /\ pc'[r] = "chunk" /\ op'[r] = w /\ got'[r] = {} /\ at'[r] = a /\ down'[r] = f /\ up'[r] = up[r]
      /\ asked'[r] = Append(asked[r], w) /\ mem'[r] = mem[r] /\ posted'[r] = posted[r] /\ dead'[r] = dead[r]
      /\ \A q \in Ranks \ {r} : /\ pc'[q] = pc[q] /\ op'[q] = op[q] /\ got'[q] = got[q] /\ at'[q] = at[q]
                                /\ asked'[q] = asked[q] /\ down'[q] = down[q]
  BY <1>1, <1>6 DEF TypeOK
<1>9. \A q \in Ranks \ {r} : Same(q)
  BY <1>6, <1>8 DEF Same
<1>10. /\ Ranks' = Ranks /\ (Shared' <=> Shared) /\ Calls(r)' = c /\ All' = All
       /\ \A q \in Ranks \ {r} : Calls(q)' = Calls(q)
       /\ \A k \in 1 .. c - 1 : asked'[r][k] = asked[r][k]
       /\ asked'[r][c] = w
  <2>1. /\ Len(Append(asked[r], w)) = Calls(r) + 1 /\ (\A k \in 1 .. Calls(r) : Append(asked[r], w)[k] = asked[r][k])
        /\ Append(asked[r], w)[Calls(r) + 1] = w
    BY <1>7, AppendProperties DEF Calls
  <2> QED BY <1>3, <1>6, <1>7, <1>8, <2>1, GroupFixed DEF Calls
<1>11. /\ b \in Nat \ {0} /\ n \in Nat \ {0} /\ Min({b, n}) \in Nat
       /\ \A i \in Nat : i < Min({b, n}) <=> i < b /\ i < n
  <2>1. b \in Nat \ {0} /\ n \in Nat \ {0}
    BY <1>1, <1>3, LanesAre, Fields
  <2> QED BY <2>1, FirstChunks
<1>12. /\ Deep(r)' = b /\ (\A i \in Nat : i < b => Behind(r, i)' = 0)
       /\ \A o, d, x, i, k : Copying(o, d, x, r, i, k)' = Copying(o, d, x, r, i, k)
       /\ \A o, x : Sends(o, x, r)' = Sends(o, x, r)
       /\ Chunks(r)' = 0 .. n - 1
  <2>1. Deep(r)' = b
    BY <1>3, <1>6, <1>8, GroupFixed DEF Deep
  <2> QED BY <1>3, <1>6, <1>8, <2>1, GroupFixed DEF Behind, Chunks
<1>13. /\ DOMAIN f = 1 .. Min({b, n}) /\ \A k \in DOMAIN f : f[k] = Copying(w, c, 1, r, k - 1, 0)
       /\ f \in Seq([lane : Lanes, tag : Tags, after : Nat, writes : BOOLEAN])
  <2>1. DOMAIN f = 1 .. Min({b, n}) /\ \A k \in DOMAIN f : f[k] = Copying(w, c, 1, r, k - 1, 0)
    BY <1>4
  <2>2. PICK T : T = [lane : Lanes, tag : Tags, after : Nat, writes : BOOLEAN]
    OBVIOUS
  <2>3. ASSUME NEW k \in 1 .. Min({b, n})
        PROVE  Copying(w, c, 1, r, k - 1, 0) \in T
    <3>1. PICK i : i = k - 1
      OBVIOUS
    <3>2. i \in Nat /\ c \in Nat /\ 0 \in Nat
      BY <1>7, <1>11, <3>1
    <3>3. Copying(w, c, 1, r, i, 0) \in [lane : Lanes, tag : Tags, after : Nat, writes : BOOLEAN]
      BY <1>1, <1>2, <3>2, CopyingType
    <3> QED BY <2>2, <3>1, <3>3
  <2>4. f \in Seq(T)
    <3>1. PICK m : m = Min({b, n})
      OBVIOUS
    <3>2. m \in Nat
      BY <1>11, <3>1
    <3>3. f = [k \in 1 .. m |-> f[k]] /\ \A k \in 1 .. m : f[k] \in T
      BY <1>4, <2>1, <2>3, <3>1
    <3>4. f \in [1 .. m -> T]
      BY <3>3
    <3> QED BY <3>2, <3>4
  <2> QED BY <2>1, <2>2, <2>4
<1>14. down[r] = <<>> /\ up[r] = <<>>
  BY <1>1, <1>6 DEF LeaseOutlivesCopies
<1>15. Issued(r)'
  BY <1>5, <1>8, <1>11, <1>3, <1>12 DEF Issued
<1>16. \A i : Ahead(r, i)' <=> 0 <= i /\ i < 0 + b
  BY <1>5, <1>8, <1>12 DEF Ahead
<1>17. Queued(r)'
  <2>1. ASSUME NEW k \in DOMAIN f
        PROVE  \E i \in 0 .. n - 1 : 0 <= i /\ i < 0 + b /\ f[k] = Copying(w, c, 1, r, i, Behind(r, i)')
    <3>1. PICK i : i = k - 1
      OBVIOUS
    <3>2. i \in Nat /\ i < b /\ i < n
      <4>1. PICK m : m = Min({b, n})
        OBVIOUS
      <4>2. k \in 1 .. m /\ m \in Nat
        BY <1>11, <1>13, <4>1
      <4>3. i \in Nat /\ i < m
        BY <3>1, <4>2
      <4> QED BY <1>11, <4>1, <4>3
    <3>3. f[k] = Copying(w, c, 1, r, i, Behind(r, i)')
      BY <1>12, <1>13, <3>1, <3>2
    <3>4. i \in 0 .. n - 1 /\ 0 <= i /\ i < 0 + b
      BY <1>11, <3>2
    <3> QED BY <3>3, <3>4
  <2> QED BY <1>5, <1>8, <1>10, <1>12, <1>16, <2>1 DEF Queued
<1>18. Loaded(r)'
  <2>1. ASSUME NEW i \in 0 .. n - 1, i < 0 + b
        PROVE  \E j \in DOMAIN f : f[j].lane = i % b
    <3>1. i \in Nat /\ i < b /\ i < n
      BY <1>11, <2>1
    <3>2. PICK j : j = i + 1
      OBVIOUS
    <3>3. j \in DOMAIN f /\ j - 1 = i
      <4>1. PICK m : m = Min({b, n})
        OBVIOUS
      <4>2. i < m /\ m \in Nat
        BY <1>11, <3>1, <4>1
      <4>3. j \in 1 .. m /\ j - 1 = i
        BY <3>1, <3>2, <4>2
      <4> QED BY <1>13, <4>1, <4>3
    <3>4. f[j] = Copying(w, c, 1, r, i, 0)
      BY <1>13, <3>3
    <3>5. f[j].lane = i % b
      BY <1>3, <3>4 DEF Copying
    <3> QED BY <3>3, <3>5
  <2> QED BY <1>8, <1>12, <1>16, <2>1 DEF Loaded
<1>19. Results(r)'
  <2>1. \A i \in 0 .. n - 1 : ~(i < 0)
    BY <1>11
  <2> QED BY <1>5, <1>8, <1>12, <2>1 DEF Results
<1>20. Returned(r)'
  <2>1. up'[r] = <<>> /\ Len(<<>>) = 0 /\ 0 - 0 = 0 /\ 0 .. 0 - 1 = {}
    BY <1>8, <1>14
  <2>2. \A j : j \notin DOMAIN up'[r]
    BY <2>1
  <2> QED BY <1>5, <1>8, <2>1, <2>2 DEF Returned
<1>21. \A q \in Ranks : Regions(q)'
  <2>1. Regions(r)'
    BY <1>8, <1>15, <1>17, <1>18, <1>19, <1>20 DEF Regions
  <2>2. \A q \in Ranks \ {r} : Regions(q)'
    BY <1>1, <1>6, <1>9, SameBooks
  <2> QED BY <2>1, <2>2
<1>22. Turns'
  <2>1. op'[r] = asked'[r][c] /\ c >= 1
    BY <1>7, <1>8, <1>10
  <2>2. \A q \in Ranks \ {r} : op'[q] = op[q] /\ pc'[q] = pc[q] /\ asked'[q] = asked[q]
    BY <1>8
  <2> QED BY <1>1, <1>10, <2>1, <2>2 DEF Turns
<1>23. LeaseOutlivesCopies'
  BY <1>1, <1>6, <1>8, <1>10 DEF LeaseOutlivesCopies
\* The calls of the ranks agree still.
<1>24. \A q \in Ranks, e \in Nat \ {0} : e <= Calls(q)' =>
         \/ e <= Calls(q) /\ asked'[q][e] = asked[q][e]
         \/ q = r /\ e = c /\ asked'[q][e] = w
  <2>1. ASSUME NEW e \in Nat \ {0}, e <= c
        PROVE  (e <= Calls(r) /\ asked'[r][e] = asked[r][e]) \/ (e = c /\ asked'[r][e] = w)
    <3>1. e = c \/ e \in 1 .. c - 1
      BY <1>7, <2>1
    <3> QED BY <1>7, <1>10, <3>1
  <2>2. ASSUME NEW q \in Ranks \ {r}
        PROVE  asked'[q] = asked[q] /\ Calls(q)' = Calls(q)
    BY <1>8, <1>10
  <2> QED BY <1>10, <2>1, <2>2
<1>25. ASSUME NEW q \in Ranks, c <= Calls(q)
       PROVE  asked[q][c] = w
  <2>1. Calls(q) > Calls(r)
    BY <1>7, <1>25
  <2> QED BY <1>3, <1>6, <2>1
<1>26. Compatible'
  <2>1. SUFFICES ASSUME NEW q \in Ranks, NEW s \in Ranks, NEW e \in Nat \ {0}, e <= Calls(q)', e <= Calls(s)'
                 PROVE  asked'[q][e] = asked'[s][e]
    BY <1>10 DEF Compatible
  <2>2. (e <= Calls(q) /\ asked'[q][e] = asked[q][e]) \/ (q = r /\ e = c /\ asked'[q][e] = w)
    BY <1>24, <2>1
  <2>3. (e <= Calls(s) /\ asked'[s][e] = asked[s][e]) \/ (s = r /\ e = c /\ asked'[s][e] = w)
    BY <1>24, <2>1
  <2>4. CASE e # c
    BY <1>1, <2>2, <2>3, <2>4 DEF Compatible
  <2>5. CASE e = c
    <3>1. ~(c <= Calls(r))
      BY <1>7
    <3>2. \A z \in Ranks : c <= Calls(z) => asked[z][c] = w
      BY <1>25, <3>1
    <3> QED BY <2>2, <2>3, <2>5, <3>2
  <2> QED BY <2>4, <2>5
<1>27. TypeOK'
  <2>1. /\ op' \in [Ranks -> Ops \cup {NoOp}] /\ got' \in [Ranks -> SUBSET Tags]
        /\ pc' \in [Ranks -> {"idle", "metadata", "chunk", "ready", "free", "gloo", "drain", "failed"}]
    BY <1>1, <1>6 DEF TypeOK
  <2>2. asked' \in [Ranks -> Seq(Ops)]
    <3>1. Append(asked[r], w) \in Seq(Ops)
      BY <1>7, AppendProperties
    <3> QED BY <1>6, <1>7, <3>1
  <2>3. at' \in [Ranks -> [exchange : Nat, chunk : Nat, acked : Nat, peer : Nat \ {0}, uploaded : Nat]]
    <3>1. a \in [exchange : Nat, chunk : Nat, acked : Nat, peer : Nat \ {0}, uploaded : Nat]
      BY <1>5
    <3> QED BY <1>1, <1>6, <3>1 DEF TypeOK
  <2>4. down' \in [Ranks -> Seq([lane : Lanes, tag : Tags, after : Nat, writes : BOOLEAN])]
    BY <1>1, <1>6, <1>13 DEF TypeOK
  <2> QED BY <1>1, <1>6, <2>1, <2>2, <2>3, <2>4, GroupFixed DEF TypeOK
\* The rank is where the others were when they began this call, or the first to begin it.
<1>28. PICK base \in Seq(Nat) : Bases(base) /\ Posts(base)
  BY <1>1 DEF History
<1>29. /\ base \in [1 .. Len(base) -> Nat] /\ DOMAIN base = 1 .. Len(base) /\ Len(base) \in Nat
       /\ c - 1 <= Len(base) /\ \A q \in Ranks : Calls(q) <= Len(base)
  BY <1>7, <1>28, LenProperties DEF Bases
<1>30. ASSUME NEW new \in Seq(Nat), c \in DOMAIN new,
              \A e \in DOMAIN base : new[e] = base[e],
              Bases(new)', Len(posted[r]) = new[c]
       PROVE  History'
  <2>1. ASSUME NEW q \in Ranks, NEW e \in 1 .. Calls(q)
        PROVE  new[e] = base[e]
    <3>1. e \in 1 .. Len(base)
      BY <1>7, <1>29, <2>1
    <3> QED BY <1>29, <1>30, <3>1
  <2>2. ASSUME NEW q \in Ranks \ {r}
        PROVE  Given(new, q)' /\ Sent(new, q)'
    <3>1. Given(base, q) /\ Sent(base, q)
      BY <1>28 DEF Posts
    <3>2. Calls(q) >= 1 => new[Calls(q)] = base[Calls(q)]
      <4>1. Calls(q) \in Nat
        BY <1>7
      <4>2. Calls(q) >= 1 => Calls(q) \in 1 .. Calls(q)
        BY <4>1
      <4> QED BY <2>1, <4>2
    <3>3. Given(new, q)
      BY <3>1, <3>2 DEF Given
    <3>4. Sent(new, q)
      BY <2>1, <3>1 DEF Sent
    <3> QED BY <1>6, <1>9, <3>3, <3>4, SameBooks
  <2>3. Given(new, r)'
    <3>1. /\ c # 0 /\ at'[r].chunk = 0 /\ pc'[r] = "chunk" /\ op'[r].count > 0 /\ Len(posted'[r]) = new[c]
          /\ new[c] \in Nat
      <4>1. c # 0 /\ at'[r].chunk = 0 /\ pc'[r] = "chunk" /\ op'[r].count > 0
        BY <1>3, <1>5, <1>7, <1>8, <1>11
      <4>2. new[c] \in Nat
        BY <1>30, LenProperties
      <4> QED BY <1>8, <1>30, <4>1, <4>2
    <3> QED BY <1>10, <3>1 DEF Given
  <2>4. Sent(new, r)'
    <3>1. \A e \in 1 .. c : Sends(asked[r][e], 1, r)' <=>
            asked'[r][e].kind \in {"allgather", "allreduce"} \/ r = asked'[r][e].root
      BY <1>2, <1>6 DEF Sends
    <3>2. ASSUME NEW e \in 1 .. c, NEW i \in 0 .. asked'[r][e].count - 1,
                 new[e] + i + 1 <= Len(posted[r]), Sends(asked[r][e], 1, r)'
          PROVE  posted[r][new[e] + i + 1] = Chunk(e, r, All, i)
      <4>1. e # c
        <5>1. SUFFICES ASSUME e = c PROVE FALSE
          OBVIOUS
        <5>2. asked'[r][e].count = n
          BY <1>3, <1>10, <5>1
        <5>3. i \in Nat /\ new[c] \in Nat
          BY <1>11, <1>30, <3>2, <5>2, LenProperties
        <5> QED BY <1>30, <3>2, <5>1, <5>3
      <4>2. e \in 1 .. Calls(r) /\ asked'[r][e] = asked[r][e]
        BY <1>7, <1>10, <3>2, <4>1
      <4>3. new[e] = base[e]
        BY <2>1, <4>2
      <4>4. Sent(base, r)
        BY <1>28 DEF Posts
      <4>5. Sends(asked[r][e], 1, r)
        BY <1>2, <3>1, <3>2, <4>2 DEF Sends
      <4> QED BY <3>2, <4>2, <4>3, <4>4, <4>5 DEF Sent
    <3>3. Calls(r)' = c /\ posted'[r] = posted[r] /\ All' = All
      BY <1>8, <1>10
    <3> QED BY <3>2, <3>3 DEF Sent
  <2>5. Posts(new)'
    BY <1>10, <2>2, <2>3, <2>4 DEF Posts
  <2> QED BY <1>30, <2>5 DEF History
<1>31. Len(posted[r]) = IF c = 1 THEN 0 ELSE base[c - 1] + asked[r][c - 1].count
  <2>1. Given(base, r)
    BY <1>28 DEF Posts
  <2>2. CASE c = 1
    BY <1>7, <2>1, <2>2, EmptySeq DEF Given
  <2>3. CASE c # 1
    <3>1. Calls(r) >= 1 /\ op[r] = asked[r][c - 1] /\ c - 1 \in DOMAIN base
      BY <1>1, <1>7, <1>29, <2>3 DEF Turns
    <3>2. at[r].chunk = op[r].count
      BY <1>6, <2>1, <3>1 DEF Given
    <3>3. op[r].count \in Nat /\ base[c - 1] \in Nat
      <4>1. asked[r][c - 1] \in Ops
        BY <1>7, <3>1 DEF Calls
      <4> QED BY <1>29, <3>1, <4>1, Fields
    <3>4. /\ Len(posted[r]) >= base[c - 1] + op[r].count /\ Len(posted[r]) <= base[c - 1] + op[r].count + 0
      BY <1>7, <2>1, <3>1, <3>2, <3>3 DEF Given
    <3>5. Len(posted[r]) \in Nat
      BY <1>1, LenProperties DEF TypeOK
    <3>6. PICK x, y, z : x = Len(posted[r]) /\ y = base[c - 1] /\ z = op[r].count
      OBVIOUS
    <3>7. x \in Nat /\ y \in Nat /\ z \in Nat /\ x >= y + z /\ x <= y + z + 0
      BY <3>3, <3>4, <3>5, <3>6
    <3>8. x = y + z
      BY <3>7
    <3> QED BY <2>3, <3>1, <3>6, <3>8
  <2> QED BY <2>2, <2>3
<1>32. ASSUME c <= Len(base) PROVE History'
  <2>1. c \in DOMAIN base /\ 1 \in DOMAIN base
    BY <1>7, <1>29, <1>32
  <2>2. Len(posted[r]) = base[c]
    <3>1. CASE c = 1
      BY <1>28, <1>29, <1>31, <2>1, <3>1 DEF Bases
    <3>2. CASE c # 1
      <4>1. c - 1 \in DOMAIN base /\ (c - 1) + 1 = c /\ c - 1 <= Calls(r)
        BY <1>7, <1>29, <3>2
      <4>2. \A e \in DOMAIN base, q \in Ranks : e + 1 \in DOMAIN base /\ e <= Calls(q) =>
              base[e + 1] = base[e] + asked[q][e].count
        BY <1>28 DEF Bases
      <4>3. base[c] = base[c - 1] + asked[r][c - 1].count
        BY <2>1, <4>1, <4>2
      <4> QED BY <1>31, <3>2, <4>3
    <3> QED BY <3>1, <3>2
  <2>3. \A e \in DOMAIN base, q \in Ranks : e <= Calls(q)' =>
          \E s \in Ranks : (e <= Calls(s) /\ asked'[q][e] = asked[s][e]) \/ (q = r /\ e = c /\ asked'[q][e] = w)
    BY <1>24, <1>29
  <2>4. Bases(base)'
    <3>1. \A q \in Ranks : Calls(q)' <= Len(base)
      BY <1>10, <1>28, <1>32 DEF Bases
    <3>2. ASSUME NEW e \in DOMAIN base, NEW d \in DOMAIN base, NEW q \in Ranks, e < d, e <= Calls(q)'
          PROVE  base[d] >= base[e] + asked'[q][e].count /\ (d = e + 1 => base[d] = base[e] + asked'[q][e].count)
      <4>1. PICK s \in Ranks : e <= Calls(s) /\ asked'[q][e] = asked[s][e]
        <5>1. CASE e <= Calls(q) /\ asked'[q][e] = asked[q][e]
          BY <5>1
        <5>2. CASE q = r /\ e = c /\ asked'[q][e] = w
          <6>1. PICK s \in Ranks : d <= Calls(s)
            BY <1>28 DEF Bases
          <6>2. c <= Calls(s)
            BY <1>7, <1>29, <3>2, <5>2, <6>1
          <6> QED BY <1>25, <5>2, <6>2
        <5> QED BY <1>24, <1>29, <3>2, <5>1, <5>2
      <4> QED BY <1>28, <3>2, <4>1 DEF Bases
    <3>3. \A e \in DOMAIN base : \E q \in Ranks : e <= Calls(q)'
      <4>1. ASSUME NEW e \in DOMAIN base
            PROVE  \E q \in Ranks : e <= Calls(q)'
        <5>1. PICK q \in Ranks : e <= Calls(q)
          BY <1>28 DEF Bases
        <5>2. CASE q = r
          BY <1>7, <1>10, <1>29, <5>1, <5>2
        <5>3. CASE q # r
          BY <1>10, <5>1, <5>3
        <5> QED BY <5>2, <5>3
      <4> QED BY <4>1
    <3>4. ASSUME NEW e \in DOMAIN base, NEW q \in Ranks, e + 1 \in DOMAIN base, e <= Calls(q)'
          PROVE  base[e + 1] = base[e] + asked'[q][e].count
      <4>1. e < e + 1
        BY <1>29
      <4> QED BY <3>2, <3>4, <4>1
    <3>5. Len(base) >= 1 => base[1] = 0
      BY <1>28 DEF Bases
    <3> QED BY <1>10, <3>1, <3>2, <3>3, <3>4, <3>5 DEF Bases
  <2> QED BY <1>28, <1>30, <2>1, <2>2, <2>4
<1>33. ASSUME ~(c <= Len(base)) PROVE History'
  <2>1. c = Len(base) + 1
    BY <1>7, <1>29, <1>33
  <2>2. PICK v : v = Len(posted[r])
    OBVIOUS
  <2>3. v \in Nat
    BY <1>1, <2>2, LenProperties DEF TypeOK
  <2>4. PICK new : new = Append(base, v)
    OBVIOUS
  <2>5. /\ new \in Seq(Nat) /\ Len(new) = c /\ DOMAIN new = 1 .. c /\ new[c] = v
        /\ \A e \in DOMAIN base : e \in DOMAIN new /\ new[e] = base[e]
        /\ \A e \in DOMAIN new : e = c \/ e \in DOMAIN base
    <3>1. /\ new \in Seq(Nat) /\ Len(new) = Len(base) + 1 /\ (\A e \in 1 .. Len(base) : new[e] = base[e])
          /\ new[Len(base) + 1] = v
      BY <1>28, <2>3, <2>4, AppendProperties
    <3>2. DOMAIN new = 1 .. Len(new) /\ DOMAIN base = 1 .. Len(base)
      BY <1>28, <3>1, LenProperties
    <3> QED BY <1>29, <2>1, <3>1, <3>2
  <2>6. Bases(new)'
    <3>1. \A q \in Ranks : Calls(q)' <= c
      <4>1. \A q \in Ranks : Calls(q) <= Len(base)
        BY <1>28 DEF Bases
      <4>2. ASSUME NEW q \in Ranks \ {r}
            PROVE  Calls(q)' <= c
        <5>1. Calls(q) <= Len(base) /\ Calls(q) \in Nat /\ Calls(q)' = Calls(q)
          BY <1>7, <1>10, <4>1
        <5> QED BY <1>29, <2>1, <5>1
      <4>3. Calls(r)' <= c
        BY <1>7, <1>10
      <4> QED BY <4>2, <4>3
    <3>2. ASSUME NEW e \in DOMAIN base, NEW q \in Ranks, e <= Calls(q)'
          PROVE  e <= Calls(q) /\ asked'[q][e] = asked[q][e] /\ asked[q][e].count \in Nat
      <4>1. e \in Nat \ {0} /\ e # c
        BY <1>29, <2>1
      <4>2. e <= Calls(q) /\ asked'[q][e] = asked[q][e]
        BY <1>24, <3>2, <4>1
      <4>3. asked[q] \in Seq(Ops) /\ e \in 1 .. Len(asked[q])
        BY <1>7, <4>1, <4>2 DEF Calls
      <4>4. asked[q][e] \in Ops
        BY <4>3
      <4> QED BY <4>2, <4>4, Fields
    <3>3. ASSUME NEW e \in DOMAIN base, NEW q \in Ranks, e <= Calls(q)'
          PROVE  v >= base[e] + asked'[q][e].count /\ (c = e + 1 => v = base[e] + asked'[q][e].count)
      <4>1. c # 1 /\ c - 1 \in DOMAIN base /\ c - 1 <= Calls(r) /\ c - 1 \in Nat \ {0}
        BY <1>7, <1>29, <2>1
      <4>2. v = base[c - 1] + asked[r][c - 1].count
        BY <1>31, <2>2, <4>1
      <4>3. e <= Calls(q) /\ asked'[q][e] = asked[q][e] /\ asked[q][e].count \in Nat
        BY <3>2, <3>3
      <4>4. CASE e = c - 1
        <5>1. asked[q][e] = asked[r][c - 1]
          BY <1>1, <4>1, <4>3, <4>4 DEF Compatible
        <5>2. base[e] \in Nat
          BY <1>29
        <5> QED BY <4>2, <4>3, <4>4, <5>1, <5>2
      <4>5. CASE e # c - 1
        <5>1. e < c - 1 /\ c # e + 1
          BY <1>7, <1>29, <2>1, <4>5
        <5>2. base[c - 1] >= base[e] + asked[q][e].count
          <6>1. \A d, g \in DOMAIN base : d < g /\ d <= Calls(q) => base[g] >= base[d] + asked[q][d].count
            BY <1>28 DEF Bases
          <6> QED BY <4>1, <4>3, <5>1, <6>1
        <5>3. asked[r][c - 1].count \in Nat
          <6>1. asked[r] \in Seq(Ops) /\ c - 1 \in 1 .. Len(asked[r])
            BY <1>7, <4>1 DEF Calls
          <6>2. asked[r][c - 1] \in Ops
            BY <6>1
          <6> QED BY <6>2, Fields
        <5>4. base[e] \in Nat /\ base[c - 1] \in Nat
          BY <1>29, <4>1
        <5>5. PICK x, y, z, h : x = base[e] /\ y = base[c - 1] /\ z = asked[q][e].count /\ h = asked[r][c - 1].count
          OBVIOUS
        <5>6. x \in Nat /\ y \in Nat /\ z \in Nat /\ h \in Nat /\ v = y + h /\ y >= x + z
          BY <4>2, <4>3, <5>2, <5>3, <5>4, <5>5
        <5>7. v >= x + z
          BY <5>6
        <5> QED BY <4>3, <5>1, <5>5, <5>7
      <4> QED BY <4>4, <4>5
    <3>4. ASSUME NEW e \in DOMAIN new, NEW d \in DOMAIN new, NEW q \in Ranks, e < d, e <= Calls(q)'
          PROVE  new[d] >= new[e] + asked'[q][e].count /\ (d = e + 1 => new[d] = new[e] + asked'[q][e].count)
      <4>1. e \in DOMAIN base
        BY <1>7, <2>1, <2>5, <1>29, <3>4
      <4>2. CASE d = c
        BY <2>5, <3>3, <3>4, <4>1, <4>2
      <4>3. CASE d \in DOMAIN base
        <5>1. e <= Calls(q) /\ asked'[q][e] = asked[q][e]
          BY <3>2, <3>4, <4>1
        <5>2. base[d] >= base[e] + asked[q][e].count /\ (d = e + 1 => base[d] = base[e] + asked[q][e].count)
          BY <1>28, <3>4, <4>1, <4>3, <5>1 DEF Bases
        <5> QED BY <2>5, <4>1, <4>3, <5>1, <5>2
      <4> QED BY <2>5, <4>2, <4>3
    <3>5. ASSUME NEW e \in DOMAIN new
          PROVE  \E q \in Ranks : e <= Calls(q)'
      <4>1. CASE e = c
        BY <1>7, <1>10, <4>1
      <4>2. CASE e \in DOMAIN base
        <5>1. PICK q \in Ranks : e <= Calls(q)
          BY <1>28, <4>2 DEF Bases
        <5>2. CASE q = r
          BY <1>7, <1>10, <1>29, <4>2, <5>1, <5>2
        <5>3. CASE q # r
          BY <1>10, <5>1, <5>3
        <5> QED BY <5>2, <5>3
      <4> QED BY <2>5, <4>1, <4>2
    <3>6. ASSUME NEW e \in DOMAIN new, NEW q \in Ranks, e + 1 \in DOMAIN new, e <= Calls(q)'
          PROVE  new[e + 1] = new[e] + asked'[q][e].count
      <4>1. e < e + 1
        BY <1>7, <2>5
      <4> QED BY <3>4, <3>6, <4>1
    <3>7. new[1] = 0
      <4>1. CASE c = 1
        BY <1>31, <2>2, <2>5, <4>1
      <4>2. CASE c # 1
        <5>1. 1 \in DOMAIN base /\ Len(base) >= 1
          BY <1>7, <1>29, <2>1, <4>2
        <5> QED BY <1>28, <2>5, <5>1 DEF Bases
      <4> QED BY <4>1, <4>2
    <3>8. \A q \in Ranks : Calls(q)' <= Len(new)
      BY <2>5, <3>1
    <3> QED BY <1>10, <3>4, <3>5, <3>6, <3>7, <3>8 DEF Bases
  <2>7. c \in DOMAIN new
    BY <1>7, <2>5
  <2>8. Len(posted[r]) = new[c] /\ new \in Seq(Nat) /\ \A e \in DOMAIN base : new[e] = base[e]
    BY <2>2, <2>5
  <2> QED BY <1>30, <2>6, <2>7, <2>8
<1> QED BY <1>10, <1>21, <1>22, <1>23, <1>26, <1>27, <1>32, <1>33 DEF IInv, GlooInv

\* Whatever a rank does through Gloo.
LEMMA GlooKeeps ==
  ASSUME IInv, ~Shared, NEW r \in Ranks,
         \/ Collective(r) \/ Thread(r) \/ Heard(r) \/ Downloaded(r) \/ Uploaded(r) \/ TimeOut(r) \/ Shutdown(r)
  PROVE  IInv'
<1>1. Regions(r) /\ group.transport # "shared"
  BY DEF IInv, GlooInv, Shared
<1>2. CASE Collective(r)
  <2>1. PICK w \in Ops : Call(r, w)
    BY <1>2 DEF Collective, AllReduce, AllGather, Broadcast, Scatter, Ops
  <2> QED BY <2>1, GlooCall
\* What only slots have: signals, and the exchanges they are for.
<1>3. CASE Metadata(r) \/ Publish(r) \/ Release(r) \/ Hear(r) \/ NextExchange(r) \/ Heard(r)
  BY <1>1, <1>3 DEF Metadata, Publish, Release, Hear, NextExchange, Heard, Regions
<1> QED BY <1>2, <1>3, GlooIssue, GlooGather, GlooMoves, GlooDownloaded, GlooUploaded DEF Thread

\* A step that changes nothing keeps the invariant.
LEMMA GlooStutters ==
  ASSUME IInv, ~Shared, UNCHANGED vars
  PROVE  IInv'
<1>1. TypeOK /\ LeaseOutlivesCopies /\ \A q \in Ranks : Regions(q)
  BY DEF IInv, GlooInv
<1>2. /\ group' = group /\ op' = op /\ asked' = asked /\ broken' = broken /\ dead' = dead /\ faults' = faults
      /\ posted' = posted /\ pc' = pc /\ at' = at /\ mem' = mem /\ down' = down /\ up' = up /\ got' = got
      /\ chan' = chan /\ waiting' = waiting
  BY DEF vars
<1>3. \A q : Same(q)
  BY <1>2 DEF Same
<1>4. PICK r \in Ranks : TRUE
  BY <1>1, Sizes
<1>5. Regions(r)' /\ \A base : Given(base, r) /\ Sent(base, r) => Given(base, r)' /\ Sent(base, r)'
  BY <1>1, <1>2, <1>3, SameBooks
<1>6. TypeOK'
  BY <1>1, <1>2, GroupFixed DEF TypeOK
<1>7. pc'[r] \in {"idle", "metadata"} => down'[r] = <<>> /\ up'[r] = <<>>
  BY <1>1, <1>2 DEF LeaseOutlivesCopies
<1> QED BY <1>2, <1>3, <1>5, <1>6, <1>7, GlooStep

\* In the regions, what is queued to be copied out is what is there.
LEMMA GlooRight ==
  ASSUME IInv, ~Shared
  PROVE  ChunksRight
<1>1. TypeOK
  BY DEF IInv
<1>2. ASSUME NEW r \in Ranks, NEW j \in DOMAIN up[r], NEW u \in up[r][j]
      PROVE  Content(u.rank, u.lane) = u.tag
  <2>1. up[r] # <<>>
    BY <1>2
  <2>2. pc[r] # "idle"
    BY <2>1 DEF IInv, LeaseOutlivesCopies
  <2>3. /\ Returned(r) /\ Issued(r) /\ op[r].count \in Nat /\ at[r].chunk \in Nat /\ at[r].uploaded \in Nat
    BY <2>2, AtGloo
  <2>4. up[r] \in Seq(SUBSET [rank : Ranks, lane : Lanes, tag : Tags])
    BY <1>1 DEF TypeOK
  <2>5. j \in 1 .. Len(up[r]) /\ Len(up[r]) = at[r].chunk - at[r].uploaded
    BY <2>3, <2>4, LenProperties DEF Returned
  <2>6. PICK i : i = at[r].uploaded + j - 1
    OBVIOUS
  <2>7. i \in Chunks(r) /\ at[r].uploaded <= i /\ i < at[r].chunk
    <3>1. at[r].chunk <= op[r].count
      BY <2>3 DEF Issued
    <3>2. i \in Nat /\ at[r].uploaded <= i /\ i < at[r].chunk
      BY <2>3, <2>5, <2>6
    <3> QED BY <2>3, <3>1, <3>2 DEF Chunks
  <2>8. u = [rank |-> r, lane |-> i % Deep(r), tag |-> Chunk(Calls(r), All, r, i)]
    BY <1>2, <2>3, <2>6 DEF Returned, Result
  <2>9. Content(r, i % Deep(r)) = Chunk(Calls(r), All, r, i)
    BY <2>2, <2>7, ResultStays
  <2> QED BY <2>8, <2>9
<1>3. ASSUME NEW r \in Ranks, pc[r] = "drain", up[r] = <<>>
      PROVE  got[r] = Expected(op[r], Calls(r), r)
  <2>1. /\ Returned(r) /\ Issued(r) /\ op[r].count \in Nat /\ at[r].chunk \in Nat /\ at[r].uploaded \in Nat
        /\ group.transport = "gloo"
    BY <1>3, AtGloo
  <2>2. at[r].chunk = op[r].count
    BY <1>3, <2>1 DEF Issued
  <2>3. at[r].chunk - at[r].uploaded = 0
    BY <1>3, <2>1, EmptySeq DEF Returned
  <2>4. at[r].uploaded = op[r].count
    BY <2>1, <2>2, <2>3
  <2>5. got[r] = {Chunk(Calls(r), All, r, i) : i \in 0 .. op[r].count - 1}
    BY <1>3, <2>1, <2>4 DEF Returned
  <2> QED BY <2>1, <2>5 DEF Expected
<1> QED BY <1>2, <1>3 DEF ChunksRight, ReadsItsChunk, Delivered

-----------------------------------------------------------------------------
(* The theorems *)

\* Before any call the invariant holds.
LEMMA InitHolds ==
  ASSUME Init
  PROVE  IInv
<1>1. /\ group \in Groups
      /\ op = [r \in Ranks |-> NoOp] /\ pc = [r \in Ranks |-> "idle"]
      /\ at = [r \in Ranks |-> [exchange |-> 0, chunk |-> 0, acked |-> 0, peer |-> 1, uploaded |-> 0]]
      /\ waiting = [r \in Ranks |-> FALSE]
      /\ asked = [r \in Ranks |-> <<>>] /\ posted = [r \in Ranks |-> <<>>]
      /\ chan = [s \in Ranks |-> [d \in Ranks |-> [tag \in {0, 1} |-> <<>>]]]
      /\ mem = [r \in Ranks |-> [l \in Lanes |-> Torn]]
      /\ down = [r \in Ranks |-> <<>>] /\ up = [r \in Ranks |-> <<>>] /\ got = [r \in Ranks |-> {}]
      /\ broken = [r \in Ranks |-> FALSE] /\ dead = [r \in Ranks |-> FALSE] /\ faults = 0
  BY DEF Init
<1>2. TypeOK
  <2>1. asked \in [Ranks -> Seq(Ops)] /\ posted \in [Ranks -> Seq(Tags)]
    BY <1>1, EmptySeq
  <2>2. chan \in [Ranks -> [Ranks -> [{0, 1} -> Seq(Nat)]]]
    <3>1. <<>> \in Seq(Nat)
      OBVIOUS
    <3>2. [tag \in {0, 1} |-> <<>>] \in [{0, 1} -> Seq(Nat)]
      BY <3>1
    <3> QED BY <1>1, <3>2
  <2>3. /\ down \in [Ranks -> Seq([lane : Lanes, tag : Tags, after : Nat, writes : BOOLEAN])]
        /\ up \in [Ranks -> Seq(SUBSET [rank : Ranks, lane : Lanes, tag : Tags])]
    BY <1>1, EmptySeq
  <2>4. mem \in [Ranks -> [Lanes -> Tags]] /\ got \in [Ranks -> SUBSET Tags]
    BY <1>1 DEF Tags
  <2>5. /\ at \in [Ranks -> [exchange : Nat, chunk : Nat, acked : Nat, peer : Nat \ {0}, uploaded : Nat]]
        /\ op \in [Ranks -> Ops \cup {NoOp}]
        /\ pc \in [Ranks -> {"idle", "metadata", "chunk", "ready", "free", "gloo", "drain", "failed"}]
        /\ waiting \in [Ranks -> BOOLEAN] /\ broken \in [Ranks -> BOOLEAN] /\ dead \in [Ranks -> BOOLEAN]
        /\ faults \in Nat
    BY <1>1
  <2> QED BY <1>1, <2>1, <2>2, <2>3, <2>4, <2>5 DEF TypeOK
<1>3. \A r \in Ranks : Calls(r) = 0
  BY <1>1, EmptySeq DEF Calls
<1>4. Turns /\ LeaseOutlivesCopies
  BY <1>1, <1>3 DEF Turns, LeaseOutlivesCopies
<1>5. ASSUME Shared
      PROVE  SharedInv
  <2>1. ASSUME NEW r \in Ranks
        PROVE  Agreement(r) /\ Counters(r) /\ Slots(r) /\ Uploads(r)
    <3>1. /\ at[r].exchange = 0 /\ pc[r] = "idle" /\ op[r] = NoOp /\ down[r] = <<>> /\ up[r] = <<>>
      BY <1>1
    <3>2. ~Begun(r) /\ ~Agreed(0, op[r])
      BY <3>1 DEF Begun, Agreed
    <3>3. ~Within(r)
      <4>1. r # None
        BY <1>2, Sizes
      <4>2. Exchanges(NoOp, r) = <<<<<<None, None>>>>>>
        BY <4>1 DEF Exchanges, NoOp
      <4>3. 0 \notin DOMAIN <<<<<<None, None>>>>>>
        OBVIOUS
      <4> QED BY <3>1, <4>2, <4>3 DEF Within
    <3>4. Agreement(r)
      BY <1>3, <3>1, <3>2 DEF Agreement
    <3> QED BY <3>1, <3>3, <3>4 DEF Counters, Slots, Uploads
  <2>2. ASSUME NEW s \in Ranks, NEW d \in Ranks
        PROVE  Knowledge(s, d) /\ Permission(s, d) /\ ReadySignals(s, d) /\ FreeSignals(s, d)
    <3>1. Knowledge(s, d) /\ Permission(s, d)
      BY <1>3 DEF Knowledge, Permission, Agreed
    <3>2. chan[s][d][0] = <<>> /\ chan[d][s][1] = <<>> /\ \A j : j \notin DOMAIN <<>>
      BY <1>1
    <3> QED BY <3>1, <3>2 DEF ReadySignals, FreeSignals, Increasing
  <2> QED BY <2>1, <2>2 DEF SharedInv, Handshake
<1>6. GlooInv
  <2>1. \A r \in Ranks : Regions(r)
    BY <1>1, <1>3 DEF Regions
  <2>2. Compatible
    BY <1>3 DEF Compatible
  <2>3. History
    <3>1. PICK base : base = <<>>
      OBVIOUS
    <3>2. base \in Seq(Nat) /\ Len(base) = 0 /\ \A c : c \notin DOMAIN base
      BY <3>1
    <3>3. Bases(base)
      BY <1>3, <3>2 DEF Bases
    <3>4. Posts(base)
      <4>1. \A r \in Ranks : posted[r] = <<>>
        BY <1>1
      <4> QED BY <1>3, <4>1 DEF Posts, Given, Sent
    <3> QED BY <3>2, <3>3, <3>4 DEF History
  <2> QED BY <2>1, <2>2, <2>3 DEF GlooInv
<1> QED BY <1>2, <1>4, <1>5, <1>6 DEF IInv

\* What is known of slots, regions and signals holds whatever the ranks call, in any order,
\* and whatever fails (communication.py, _relay_shared.py, _relay_staging.py).
THEOREM RelayInvariance == Spec => []IInv
<1>1. Init => IInv
  BY InitHolds
<1>2. IInv /\ [Next]_vars => IInv'
  <2>1. SUFFICES ASSUME IInv, [Next]_vars PROVE IInv'
    OBVIOUS
  <2>2. CASE UNCHANGED vars
    BY <2>1, <2>2, SharedStutters, GlooStutters
  <2>3. CASE Next
    <3>1. PICK r \in Ranks :
            \/ Collective(r) \/ Thread(r) \/ Heard(r) \/ Downloaded(r) \/ Uploaded(r) \/ TimeOut(r) \/ Shutdown(r)
      BY <2>3 DEF Next
    <3> QED BY <2>1, <3>1, SharedKeeps, GlooKeeps
  <2> QED BY <2>1, <2>2, <2>3
<1> QED BY <1>1, <1>2, PTL DEF Spec

\* Every chunk copied out of a slot or a region is whole and the one its reader was told of,
\* and a collective that returns has copied out the chunks its kind promises, no others
\* (SharedRelay._chunks and reduce; TransferPipeline.chunks).
THEOREM ChunksArrive == Spec => []ChunksRight
<1>1. IInv => ChunksRight
  BY SharedRight, GlooRight
<1> QED BY <1>1, RelayInvariance, PTL

\* No copy of a collective outlives the call, which lets go of the buffer
\* (_RelayProcessGroup._collective).
THEOREM NoCopyOutlives == Spec => []LeaseOutlivesCopies
<1>1. IInv => LeaseOutlivesCopies
  BY DEF IInv
<1> QED BY <1>1, RelayInvariance, PTL
=============================================================================
