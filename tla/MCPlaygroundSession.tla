------------------------ MODULE MCPlaygroundSession ------------------------
(***************************************************************************)
(* PlaygroundSession with small sets of requests that come together.       *)
(***************************************************************************)
EXTENDS PlaygroundSession

CONSTANTS i1, i2, d1, a1, f1, p1, b1, b2, s1

\* Two invokes and a proof of one; proofs of both kinds, and a submission;
\* two proofs of blocks; a new contract, and transactions of the master account
\* that are not of the session, beside a proof.
MCWorkloads == {{i1, i2, p1}, {i1, p1, b1}, {i1, p1, s1}, {b1, b2}, {d1, f1, b1}, {d1, a1}}
=============================================================================
