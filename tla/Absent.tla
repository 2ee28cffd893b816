-------------------------------- MODULE Absent -------------------------------
(* The one absent value of modules that are checked together: null,        *)
(* undefined, a field that is not there.                                   *)
CONSTANT None
=============================================================================
