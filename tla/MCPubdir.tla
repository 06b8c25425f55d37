------------------------------ MODULE MCPubdir ------------------------------
(* Answers whose length is not announced, announced too short, rightly,    *)
(* too long and below zero, cut at every place, refusals, and other status *)
(* codes.                                                                  *)
EXTENDS Pubdir
MCAnswers ==
    {a \in [ok : BOOLEAN, length : {-2, 0, 1, 3, 4}, size : {0, 3}, cut : 0 .. HeaderSize + 3,
            reset : BOOLEAN, sound : BOOLEAN] :
        /\ a.cut <= HeaderSize + a.size
        /\ ~a.ok => a.length = 0 /\ a.size = 0 /\ ~a.sound
        /\ a.size = 0 => ~a.sound}
=============================================================================
