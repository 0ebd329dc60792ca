--------------------------- MODULE MCAttTransport ---------------------------
(* Small instances of AttTransport.                                        *)
EXTENDS AttTransport, TLC

CONSTANTS r1, r2, i1, c1, e1

MCType == (r1 :> "REQ") @@ (r2 :> "REQ") @@ (i1 :> "IND")
          @@ (c1 :> "CMD") @@ (e1 :> "RSP")

TypeOfOps == [o \in Ops |-> MCType[o]]

Requests12 == Permutations({r1, r2})

=============================================================================
