--------------------------- MODULE MCHistoryStore ---------------------------
(* Small instances of HistoryStore for TLC. *)
EXTENDS HistoryStore

CONSTANTS tcp, udp, a1, a2, b1

\* Two processes of one program and one of another.
MCNameOf == [p \in Pids |-> IF p = b1 THEN "b" ELSE "a"]

=============================================================================
