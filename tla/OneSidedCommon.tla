---------------------------- MODULE OneSidedCommon ----------------------------
(***************************************************************************)
(* What the one-sided store and the one-sided end points share: the two    *)
(* processes and the RDMA connection between them.                         *)
(***************************************************************************)
EXTENDS Naturals, Sequences

Procs == {"client", "server"}

\* "requested": the client has asked for a connection; "up": both sides have
\* seen RPMA_CONN_ESTABLISHED, and RDMA operations take effect.
Links == {"none", "requested", "up"}

VARIABLE link

\* The outcomes of a call that may fail only if mayFail.
Outcomes(mayFail) == IF mayFail THEN BOOLEAN ELSE {TRUE}
===============================================================================
