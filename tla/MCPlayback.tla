----------------------------- MODULE MCPlayback -----------------------------
(* Playback on recordings with a gap, one that ends after the one that starts *)
(* after it, one that cannot be opened, and a channel that has none.          *)
EXTENDS Playback

Rec(s, e, fs) == [start |-> s, end |-> e, frames |-> fs]
Give(c, cs, t) == [cmd |-> c, chans |-> cs, time |-> t]

MCRecorded == << << Rec(22, 22, <<22>>), Rec(1, 1, <<1>>) >>,
                 << Rec(3, 3, <<>>), Rec(2, 2, <<2>>), Rec(1, 4, <<1, 4>>) >>,
                 << >> >>

Others(cs) == {Give(c, {}, 0) : c \in cs}

MCAsked == << {Give("PBTIME", cs, 0) : cs \in {{1, 2}, {1, 2, 3}, {3}}} \cup {Give("PBFILE", {2}, 3)},
              Others({"BACKWARD", "NXT_SECT"}) \cup {Give("SEEK", {}, 2)},
              Others({"STEP", "FORWARD", "STOP"}),
              Others({"STEP", "SPEED", "PRE_SECT"}) \cup {Give("PBTIME", {2}, 0)} >>
=============================================================================
