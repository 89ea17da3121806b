---------------------------- MODULE MCHomeServer ----------------------------
(***************************************************************************)
(* HomeServer with two handlers and three requests between them.           *)
(***************************************************************************)
EXTENDS HomeServer, TLC

CONSTANTS h1, h2, ann, bob, pw1, pw2, lamp

(* Handlers run the same code, and nothing depends on which name or which  *)
(* password is which.                                                      *)
Symmetry == Permutations(Handlers) \cup Permutations(Names) \cup Permutations(Passwords)

=============================================================================
