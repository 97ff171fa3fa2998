----------------------------- MODULE AudioCommsMC -----------------------------
(* AudioComms for TLC, with the speaker found near both ends of its range.   *)
EXTENDS AudioComms

NearTheEnds == {0, 1, 2, 9, 10}

===============================================================================
