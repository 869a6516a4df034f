---------------------------- MODULE BoundedQueue ----------------------------
(***************************************************************************)
(* What a mailbox promises: mails come out as they went in, at most Size   *)
(* of them are inside, and a reset throws them away.                       *)
(***************************************************************************)
EXTENDS Naturals, Sequences

CONSTANTS Mail, Size

VARIABLES queue, got       \* got is the mail that came out last

Init == queue = <<>> /\ got \notin Mail
Put == /\ Len(queue) < Size
       /\ \E m \in Mail : queue' = Append(queue, m)
       /\ UNCHANGED got
Get == queue # <<>> /\ got' = Head(queue) /\ queue' = Tail(queue)
Reset == queue' = <<>> /\ UNCHANGED got

Spec == Init /\ [][Put \/ Get \/ Reset]_<<queue, got>>
=============================================================================
