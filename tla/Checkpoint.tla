----------------------------- MODULE Checkpoint -----------------------------
(***************************************************************************)
(* The header check of a mapped safetensors file, checkpoint.py: which     *)
(* tables of tensors a file may have.  A header is the sequence of entries *)
(* in the order the file lists them; an entry has the offsets its tensor   *)
(* claims in the data section, and the bytes its shape and dtype need.     *)
(***************************************************************************)
EXTENDS Integers, Sequences, SequencesExt

CONSTANT DataSize              \* bytes after the header
ASSUME DataSizeAssumption == DataSize \in Nat

Length(e) == e.stop - e.start

\* _parse_entry
EntryValid(e) ==
    /\ 0 <= e.start /\ e.start <= e.stop /\ e.stop <= DataSize
    /\ Length(e) = e.need

\* A shorter entry sorts first at a shared offset; sorted is stable.
Before(header, i, j) ==
    \/ header[i].start < header[j].start
    \/ /\ header[i].start = header[j].start
       /\ \/ Length(header[i]) < Length(header[j])
          \/ (Length(header[i]) = Length(header[j]) /\ i < j)

\* Each tensor must begin where the bytes claimed so far end.
Claimed(header) ==
    FoldLeft(LAMBDA end, i : IF header[i].start = end THEN end + Length(header[i]) ELSE -1,
             0, SetToSortSeq(DOMAIN header, LAMBDA i, j : Before(header, i, j)))

\* _read_header
Readable(header) ==
    /\ \A i \in DOMAIN header : EntryValid(header[i])
    /\ Claimed(header) = DataSize

(***************************************************************************)
(* What a file must be, whatever order its header has: every byte belongs  *)
(* to one tensor, and no empty tensor lies inside another.                 *)
(***************************************************************************)
Exact(header) ==
    /\ \A i \in DOMAIN header : EntryValid(header[i])
    /\ \A b \in 0 .. DataSize - 1 :
          \E i \in DOMAIN header :
             {j \in DOMAIN header : header[j].start <= b /\ b < header[j].stop} = {i}
    /\ \A i, j \in DOMAIN header :
          header[i].start = header[i].stop
             => ~(header[j].start < header[i].start /\ header[i].start < header[j].stop)
=============================================================================
