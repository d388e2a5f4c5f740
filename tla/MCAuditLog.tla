------------------------------ MODULE MCAuditLog ------------------------------
(* AuditLog on a small instance.                                           *)
EXTENDS AuditLog

Config(t, r, s) == [tamper |-> t, rotate |-> r, fsync |-> s]

(* Flags that change from one start to the next.                           *)
MCConfigs == {Config(TRUE, TRUE, TRUE), Config(TRUE, FALSE, FALSE),
              Config(FALSE, TRUE, FALSE)}

(* A tamper-evident log throughout.                                        *)
MCTamper == {Config(TRUE, FALSE, TRUE)}
===============================================================================
