----------------------------- MODULE MCRgbLeds -----------------------------
EXTENDS RgbLeds

MCColors == {<<1, 1, 1>>, <<0, 1, 0>>}

\* The blocks of _is31_write_pwm_registers() are the runs of marked registers, in order:
\* each marked register is written once, no other is, and no run is cut in two, not even
\* where a word of flags ends.
ASSUME BlocksAreRuns ==
  \A flags \in SUBSET Registers :
    LET blocks == Blocks(flags)
    IN /\ Covered(flags) = flags
       /\ \A i \in DOMAIN blocks : blocks[i][2] > 0
       /\ \A i \in 2 .. Len(blocks) :
            blocks[i][1] > blocks[i - 1][1] + blocks[i - 1][2]

============================================================================
