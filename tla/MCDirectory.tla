------------------------------ MODULE MCDirectory ------------------------------
(* Instances of Directory for TLC. *)
EXTENDS Directory, TLC

(* The processes of one kind, the names, the functions and the connections  *)
(* differ in nothing but their identity.                                    *)
Symmetry ==
  Permutations(Server) \cup Permutations(Client) \cup Permutations(Name)
    \cup Permutations(Func) \cup Permutations(Conn)
===============================================================================
