------------------------------- MODULE KeySet -------------------------------
(***************************************************************************)
(* What the users of common/utils/hash_table.h rely on: a set of data.     *)
(***************************************************************************)
CONSTANT Keys

VARIABLE contents

Init == contents = {}

Insert(d) == d \notin contents /\ contents' = contents \cup {d}

Remove(d) == d \in contents /\ contents' = contents \ {d}

RemoveEvery == contents' = {}

Next == RemoveEvery \/ \E d \in Keys : Insert(d) \/ Remove(d)

Spec == Init /\ [][Next]_contents
=============================================================================
