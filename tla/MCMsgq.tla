------------------------------- MODULE MCMsgq -------------------------------
(* Instances of Msgq for TLC. *)
EXTENDS Msgq, TLC

BothReaders == {"r1", "r2"}
SecondLossy == {"r2"}

Budget(starts, joins1, joins2, sends) ==
    [starts |-> starts, joins |-> ("r1" :> joins1 @@ "r2" :> joins2), sends |-> sends]

(* A reader that is lapped, with messages that tile the ring evenly and    *)
(* unevenly; a reader of the latest message only; a publisher killed and   *)
(* restarted; a reader restarted, when all slots are taken.                *)
Everything == {Budget(1, 1, 0, <<2, 2, 2, 2, 2>>), Budget(1, 1, 0, <<1, 2, 1, 2>>), Budget(1, 1, 0, <<1, 2, 2>>),
               Budget(1, 0, 1, <<1, 1, 1, 1>>), Budget(2, 1, 0, <<2, 1>>),
               Budget(1, 1, 2, << >>)}
=============================================================================
