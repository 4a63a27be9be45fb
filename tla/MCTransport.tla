----------------------------- MODULE MCTransport -----------------------------
(***************************************************************************)
(* Packets of a header only, of one that fills the circle buffer, and of   *)
(* one whose body fills it; and a packet whose body is longer than the     *)
(* circle buffer, as one with 2048 bytes of data is with 1280.             *)
(***************************************************************************)
EXTENDS TransportInv

ThatFit  == 1 :> 2 @@ 2 :> 4 @@ 3 :> 6
OfTwoKiB == 1 :> 8

AnyByte == {<<p, i>> : p \in Packet, i \in 1 .. 12} \cup {Stale}

\* What DBRead can leave in a buffer of the size of the ring.
AllBlocks ==
  {[k \in 1 .. m |-> IF k <= n THEN <<p, i + k>> ELSE Stale] :
     p \in Packet, i \in 0 .. 7, n \in 0 .. 4, m \in Sizes}

AllLengths == Sizes
=============================================================================
