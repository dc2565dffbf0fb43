------------------------------ MODULE MCVerify ------------------------------
(***************************************************************************)
(* Ordered streams of up to four keys out of three, repetitions included.  *)
(***************************************************************************)
EXTENDS Verify

MCKey == 1 .. 3

MCStreams == [DB -> {s \in BoundedSeq(MCKey, 4) : Ordered(s)}]
=============================================================================
