----------------------------- MODULE MCReading -----------------------------
(* A small instance of the read-only commands for TLC. *)
EXTENDS Reading

CONSTANTS r1, r2, v1, v2

MCDomains == <<"AD-1", "AD-2">>
MCDomainOf == [r \in Resources |-> IF r = r2 THEN "AD-2" ELSE "AD-1"]
MCServices == <<"compute", "vcn">>
MCQueries == {q \in Query : ~q.blank /\ (q.ocid => ~q.short)}

\* Lines that are empty, short, and too long for a message.
LineLengths == {0, 1, 4}
MCTexts ==
  {<<a + 1>> : a \in LineLengths}
  \cup {<<a + 1, a + b + 2, a + b + c + 3>> : a, b, c \in LineLengths}
=============================================================================
