--------------------------- MODULE MCHistoryCycle ---------------------------
(* Small instances of HistoryCycle for TLC. *)
EXTENDS HistoryCycle

CONSTANTS tcp, udp, a1, b1

MCNameOf == [p \in Pids |-> IF p = b1 THEN "b" ELSE "a"]

=============================================================================
