--------------------------- MODULE MCNativeCalls ---------------------------
(* An instance of NativeCalls for TLC.  The application may register a native *)
(* under a name of its own or under one of the library's names.               *)
EXTENDS NativeCalls

MCNames == {"incrNative", "printNative"}
MCKeys  == {"myCallback", NoKey}
=============================================================================
