------------------------------ MODULE MCParams ------------------------------
(* Instances of Params for TLC. *)
EXTENDS Params

Two   == {"p", "q"}
One   == {"p"}
Keys2 == {"k", "c"}
Flagged == {"k", "c"}
Vals  == {"v"}

AllOps    == {"put", "remove", "clearAll", "readAll", "put_nonblocking"}
AsyncOnly == {"put_nonblocking"}

Crashes == {[calls |-> 3, kills |-> 0, losses |-> 1], [calls |-> 2, kills |-> 1, losses |-> 1]}
Exit    == {[calls |-> 2, kills |-> 1, losses |-> 0]}
=============================================================================
