------------------------------- MODULE MCConfig -------------------------------
(* A TLC instance of Config: addresses of three bits in two families.        *)
EXTENDS Config, TLC

A(f, x, y, z) == [fam |-> f, bits |-> <<x, y, z>>]
N(f, x, y, z, n) == [addr |-> A(f, x, y, z), len |-> n]

\* Two IPv6 addresses map IPv4 ones, one inside and one outside 1xx.
MCAsV4 == A("v6", 1, 1, 0) :> A("v4", 1, 0, 1) @@ A("v6", 1, 1, 1) :> A("v4", 0, 0, 1)
MCSpecial == {A("v4", 1, 1, 1), A("v6", 0, 0, 0)}
MCPrivate == {A("v4", 0, 1, 0), A("v6", 0, 0, 1)}

\* The tunnel network, written with host bits: the half 1xx or 0xx.
MCTunnels == {N("v4", 1, 0, 1, 1), N("v4", 0, 0, 1, 1), N("v6", 1, 0, 1, 1)}
MCFileNets == {N("v4", 1, 0, 0, 1), N("v4", 1, 0, 1, 2), N("v4", 1, 1, 0, 2), N("v4", 1, 0, 1, 3),
               N("v4", 1, 1, 0, 3), N("v4", 0, 0, 0, 0), N("v6", 1, 0, 1, 2), N("v6", 1, 1, 0, 3), N("v4", 0, 0, 0, 3)}
MCResolvers == {A("v4", 0, 1, 1), A("v4", 1, 0, 1), A("v6", 1, 1, 0)}
=============================================================================
