--------------------------- MODULE MCApplication ----------------------------
(***************************************************************************)
(* A small instance of Application: two people, one of whom writes his     *)
(* address in two ways, and two calls, on a new or an older users table.   *)
(***************************************************************************)
EXTENDS Application, TLC

MCAddress   == {"admin", "bob", "Bob"}
MCNormalise == [a \in MCAddress |-> IF a = "Bob" THEN "bob" ELSE a]

\* The administrator has made bob, who registered earlier, a superuser.
MCOldUser  == [password |-> Bootstrap, superuser |-> TRUE]
MCDeployed == {[a \in MCAddress |-> IF a = "Bob" THEN NoUser ELSE MCOldUser]}

Symmetry == Permutations(Call) \cup Permutations(Caller)

=============================================================================
