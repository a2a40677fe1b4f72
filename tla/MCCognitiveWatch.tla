------------------------- MODULE MCCognitiveWatch -------------------------
(* An instance of CognitiveWatch for TLC. *)
EXTENDS CognitiveWatch

\* t1 and t2 are threads of two sessions, other is a shell.
MCTgid == [t \in Thread |-> t]

\* Two thinking states, one of them in the older form, one with a name that does not
\* fit, a tool's frame and a read that failed.
MCFrames == {<<"Cap", "low", "sp", "(">>, <<"sp", "*", "sp", "Cap", "(", "esc">>,
             <<"Cap", "low", "low", "sp", "(">>, <<"Cap", "low", "(", "low", ")">>, <<>>}
MCPieces == {<<"low">>, <<"[", "digit">>, <<"ctl", "high">>, <<"BEL">>,
             <<"ESC", "[", "low">>, <<"ESC", "[", "digit", "Cap">>, <<"ESC", "]", "low", "BEL">>}
MCCuts == {<<>>, <<"ESC">>, <<"NUL", "low">>, <<"ESC", "[", "digit">>,
           <<"ESC", "]", "low", "ESC", "low">>, <<"ESC", "]", "NUL", "low">>}
=============================================================================
