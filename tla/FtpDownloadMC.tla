----------------------------- MODULE FtpDownloadMC -----------------------------
(* Values of FtpDownload's constants for TLC.                                *)
EXTENDS FtpDownload

File(size) ==
    [size |-> size, reported |-> size, checksize |-> TRUE, found |-> TRUE, uriOk |-> TRUE]

(* A file of several bursts whose size the vehicle does not know, then one of *)
(* a block, then one whose URI says nothing.                                  *)
Wanted ==
    <<[File(6) EXCEPT !.reported = 9, !.checksize = FALSE], File(1),
      [File(1) EXCEPT !.uriOk = FALSE]>>

FromTheStart == {0}

AllModes == {"None", "NoResponse", "NakResponse", "NoSecondResponse",
             "NakSecondResponse", "BadSequence"}

=============================================================================
