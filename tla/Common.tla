-------------------------------- MODULE Common --------------------------------
(***************************************************************************)
(* What the parts of the runtime have in common.                           *)
(***************************************************************************)
CONSTANTS
    Threads,     \* OS threads
    Null,        \* the NULL pointer; what a table holds under a key it lacks
    Data         \* a value that is neither a module nor a function of a type
=============================================================================
