------------------------------- MODULE MCScan -------------------------------
(***************************************************************************)
(* Instances of ScanSystem for TLC: two descriptors (one the scan can leak *)
(* or close twice, one for another thread to take meanwhile), two paths so *)
(* that state can survive from one request to the next, and a buffer two   *)
(* partial reads fill.                                                     *)
(***************************************************************************)
EXTENDS ScanSystem

MCFds      == {3, 4}
MCNoFd     == -1
AllScans   == {"cpp", "tor", "http", "socks"}
BothFlags  == {"copy", "shared"}
OnlyCpp    == {"cpp"}
OnlyTor    == {"tor"}
OnlyCopy   == {"copy"}
=============================================================================
