----------------------------- MODULE MCDispatch -----------------------------
(* Recipients and an allow-list for TLC's instances of Dispatch.           *)
EXTENDS Dispatch, TLC

CONSTANTS p1, p2

\* p1 goes to the listed number, with another type of number and a half-octet
\* that is no digit; p2 goes to a number that is not listed.
MCRecipient ==
  (p1 :> [ton |-> "unknown", digits |-> <<3, 10, 8>>])
    @@ (p2 :> [ton |-> "international", digits |-> <<3, 8, 0>>])

\* "+38", and an entry without a digit.
MCAllowTo == {<<11, 3, 8>>, <<12>>}
=============================================================================
