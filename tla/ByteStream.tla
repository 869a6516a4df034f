----------------------------- MODULE ByteStream -----------------------------
(***************************************************************************)
(* What the receive path of the UART promises to its reader: the bytes the *)
(* module sent, each once and in the order of sending.  Bytes are numbered *)
(* 1, 2, ... as they are sent; got is the number of the byte read last.    *)
(***************************************************************************)
EXTENDS Naturals

VARIABLES sent, read, got

Init == sent = 0 /\ read = 0 /\ got = 0

Send == sent' = sent + 1 /\ UNCHANGED <<read, got>>
Read == read < sent /\ read' = read + 1 /\ got' = read + 1 /\ UNCHANGED sent

Spec == Init /\ [][Send \/ Read]_<<sent, read, got>>
=============================================================================
