------------------------------ MODULE MCLogFile ------------------------------
(* Two more threads beside the main thread.                                 *)
EXTENDS LogFile
CONSTANTS main, t1, t2

\* The log may be redirected from one kind of file destination to the other.
ToFile == [dest : FileDestinations, lock : Modes]
=============================================================================
