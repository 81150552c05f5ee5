--------------------------- MODULE MCVerifyReply ---------------------------
(***************************************************************************)
(* The instance of VerifyReply for TLC.                                    *)
(***************************************************************************)
EXTENDS VerifyReply, TLC

CONSTANTS h1, h2, b1, b2

Symmetry == Permutations({h1, h2}) \cup Permutations({b1, b2})

\* A probe for each one who can decide on the size: its nonce, its OPT record,
\* its route.  The sizes are on both sides of the bounds in handleVerify, and of
\* the sizes at which a payload begins to exceed the buffer: with a question
\* that ends at 17, 4156 bytes.  The ends are those of short and long names.
ProbeOf(mtus, desired, edns, ends) ==
  [mtu : mtus, desired : desired, edns : edns, end : ends]

ProbeBounds ==
  ProbeOf({2}, {199, 200, 512, 4096, 4097}, {0, 1}, {17, 271})
    \cup ProbeOf({1232}, {0, 65535}, {0, 1, 3, 4, 232, 1232, 4096, 4155, 4156, 65535}, {17, 144})
    \cup ProbeOf({-4, 0, 3, 4, 200, 4155, 4156}, {0}, {0, 1232}, {17})

DrawBounds == {0, 1, 127, 255, 1023}
===============================================================================
