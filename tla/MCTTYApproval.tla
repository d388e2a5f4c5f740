----------------------------- MODULE MCTTYApproval -----------------------------
(* TTYApproval on a small instance.                                        *)
EXTENDS TTYApproval
===============================================================================
