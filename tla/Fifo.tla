-------------------------------- MODULE Fifo --------------------------------
(* What a relay promises in one direction: what comes out is what went in,  *)
(* in order, without loss in the middle and without repetition.  Nothing    *)
(* forces the last messages out: the relay may close.                       *)
EXTENDS Naturals, Sequences

CONSTANT Msg

VARIABLES in, out

Init == in = <<>> /\ out = <<>>

Submit(m) == in' = Append(in, m) /\ UNCHANGED out

Deliver ==
    /\ Len(out) < Len(in)
    /\ out' = Append(out, in[Len(out) + 1])
    /\ UNCHANGED in

Next == Deliver \/ \E m \in Msg : Submit(m)

Spec == Init /\ [][Next]_<<in, out>>
=============================================================================
