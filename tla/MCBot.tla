------------------------------- MODULE MCBot -------------------------------
(* Small instances of the bot for TLC. *)
EXTENDS Bot, TLC

CONSTANTS alice, bob, mallory, i1, i2, t1, t2

MCRequests == [instance : Instances, action : ConfirmedActions]
OneInstance == {<<i1>>}
AnyListing == {<<>>, <<i1>>, <<i1, i2>>}
NoClockSettings == {}
TwoServices == <<"compute", "vcn">>
NoServices == <<>>

\* Tokens, and alice and bob, who are both on the allowlist, are interchangeable.
TokenSymmetry == Permutations(Tokens)
Symmetry == Permutations(Tokens) \cup Permutations({alice, bob})
=============================================================================
