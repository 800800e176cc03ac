---------------------------- MODULE MCZFTPProxy ----------------------------
(***************************************************************************)
(* A cache that serves other caches, just started: two of them learned the *)
(* file's hashes before, and ask for the parts of it they miss.            *)
(***************************************************************************)
EXTENDS ZCachedFile

CONSTANTS r1, r2

MCAsks == r1 :> <<[range |-> DataRange(0, 8), locations |-> {}]>>
       @@ r2 :> <<[range |-> DataRange(4, 8), locations |-> {}]>>
MCContent == 0 :> "a" @@ 1 :> "b"
=============================================================================
