---------------------------- MODULE MCOfferedTier ----------------------------
(* Two threads over two storages, the second of two spans. *)
EXTENDS OfferedTier
MCSize == <<1, 2>>
MCRequests == {<<2>>, <<1, 2>>, <<2, 1>>}
=============================================================================
