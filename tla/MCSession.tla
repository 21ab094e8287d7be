----------------------------- MODULE MCSession -----------------------------
(* One chip, two songs of three frames; one command may wait. Auto advance  *)
(* is on, as it is by default.                                             *)
EXTENDS Session

CONSTANT sid1

MCChips == {sid1}

MCAsked == [op: {"pause"}, on: BOOLEAN]
           \cup [op: {"chip", "voice"}, chip: MCChips, on: BOOLEAN]
           \cup [op: {"next", "previous"}]
           \cup [op: {"select"}, song: {1}]
           \cup [op: {"seek"}, to: {MaxPos}]
=============================================================================
