------------------------- MODULE MCRecordSchedule -------------------------
(* Schedules small enough to check: an unused segment is <<0, 0>>, as in   *)
(* the zeroed structure the business layer fills in.                       *)
EXTENDS RecordSchedule

MCPlans == {[type |-> "week",  seg |-> [d \in Day |-> {<<0, 0>>}]],
            [type |-> "week",  seg |-> [d \in Day |-> IF d = 0 THEN {<<1, 2>>, <<0, 0>>}
                                                                 ELSE {<<0, 1>>, <<0, 0>>}]],
            [type |-> "every", seg |-> [d \in Day |-> {<<0, LastSec>>}]]}
=============================================================================
