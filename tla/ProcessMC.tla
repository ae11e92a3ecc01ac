------------------------------- MODULE ProcessMC -------------------------------
(* main, initd and two more processes, children or grandchildren of initd. *)
EXTENDS Process

CONSTANTS main, initd, a, b

MCProc == {main, initd, a, b}

(* The status fork looks for; others are 0, of a killed process, and FAULT. *)
MCUserStatus == {NOT_FORKED}
===============================================================================
