-------------------------- MODULE MCSharedFolders --------------------------
(* Small instances of SharedFolders: two seats and a folder with one or two *)
(* prefixes.                                                                *)
EXTENDS SharedFolders, TLC

TwoSeats == <<"s1", "s2">>

AnyPrefix == Permutations(Prefixes)

\* Bound: how much goes wrong or is withdrawn in one behaviour.
TwoMishaps == faults + crashes + moves <= 2
=============================================================================
