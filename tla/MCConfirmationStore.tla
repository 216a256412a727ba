------------------------ MODULE MCConfirmationStore ------------------------
(* Small instances of ConfirmationStore for TLC. *)
EXTENDS ConfirmationStore, TLC

CONSTANTS alice, bob, t1, t2, stop, reboot

\* Users, tokens and requests are only compared, so each set may be permuted.
Symmetry == Permutations(Users) \cup Permutations(Tokens) \cup Permutations(Requests)
=============================================================================
