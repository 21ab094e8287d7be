------------------------------- MODULE MCAsid -------------------------------
(* Two chips: on one a control register, a plain one and the volume, on the  *)
(* other a control register; values with and without bit 7; a register above *)
(* $18 and a chip that does not exist.                                       *)
EXTENDS AsidBackend

MCChips == 1..2

MCWrites ==
    [chip: {1}, reg: {0, 4, 24}, value: {1, 129}]
    \cup [chip: {2}, reg: {18}, value: {129}]
    \cup {[chip |-> 1, reg |-> 25, value |-> 1], [chip |-> 3, reg |-> 4, value |-> 1]}

MCFmWrites ==
    [port: {"index"}, value: {1, 200}] \cup [port: {"data"}, value: {129}]
=============================================================================
