--------------------------- MODULE MCZCachedFile ---------------------------
EXTENDS ZCachedFile

CONSTANTS open, fetch, wire

MCAsks == open :> <<[range |-> NoRange, locations |-> {}],
                    [range |-> DataRange(2, 8), locations |-> {}]>>
       @@ fetch :> <<[range |-> DataRange(0, AddrSpace - 1), locations |-> {}]>>
       @@ wire :> <<[range |-> NoRange, locations |-> {0}]>>
MCContent == 0 :> "a" @@ 1 :> "b" @@ 2 :> "a" @@ 3 :> "c"
=============================================================================
