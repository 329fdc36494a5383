--------------------------- MODULE BoundedBuffer ---------------------------
(***************************************************************************)
(* What a cpLock around a queue promises its users: a buffer of at most    *)
(* Capacity values, first in first out, where each put and take is one     *)
(* step and consumers are served as long as there is something to take.    *)
(***************************************************************************)
EXTENDS Naturals, Sequences

CONSTANTS Capacity, \* len, the argument of cpLock's constructor
          Values    \* what is put

VARIABLE buf

BufInit == buf = <<>>

Put(v) == Len(buf) < Capacity /\ buf' = Append(buf, v)

Take == buf # <<>> /\ buf' = Tail(buf)

BufNext == Take \/ \E v \in Values : Put(v)

BufSpec == BufInit /\ [][BufNext]_buf /\ WF_buf(Take)
=============================================================================
