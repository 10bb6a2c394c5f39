----------------------------- MODULE MCProtocol -----------------------------
(* TLC instance of Protocol.                                                *)
EXTENDS Protocol

\* Bytes beside the valve's position and the counter that look like positions.
Memory(code) ==
    [i \in 1..128 |-> IF i = 46 THEN code ELSE IF i = 49 THEN 42 ELSE IF i = 50 THEN 1
                      ELSE IF i \in {51, 52} THEN 0 ELSE IF i = 1 THEN START ELSE Codes.closed]
MCMemories == {Memory(Codes.open), Memory(Codes.closed), Memory(0)}
MCPayloads == {<<>>, <<0, Codes.open>>, <<START, END, ESCAPE>>}
MCNoise == {START, END, ESCAPE, 0}
=============================================================================
