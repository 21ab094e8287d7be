------------------------------- MODULE MCVic -------------------------------
(* A small VIC with the layout of the real one: 12 cycles by 5 lines, bad    *)
(* lines on two of them, two sprites of two lines whose windows merge and    *)
(* wrap into the following line. Any number of writes, at any cycle.         *)
EXTENDS VicScheduled

MCSprites == {0, 2}

\* Sprite 0 on the last line, the other inside the display.
Start(expand) ==
    [ResetChip EXCEPT !.y = [n \in Sprites |-> IF n = 0 THEN 0 ELSE 2],
                      !.expand = expand, !.enable = TRUE]

MCStarts == {Start({0})}

MCWrites ==
    {[reg |-> "control", value |-> [den |-> d, scroll |-> 0, high |-> 0]] : d \in BOOLEAN}
    \cup {[reg |-> "control", value |-> [den |-> TRUE, scroll |-> 1, high |-> 1]]}
    \cup {[reg |-> "compare", value |-> 1]}
    \cup {[reg |-> "on", value |-> on] : on \in {{}, Sprites}}
    \cup {[reg |-> "flags"]}
=============================================================================
