---------------------------- MODULE FileDelivery ----------------------------
(***************************************************************************)
(* What the receiving end of a get or a post promises: it takes the        *)
(* segments of the file one by one and in order, and writes the file with  *)
(* the last of them; if it gives up, what it had is dropped and what was   *)
(* written before stays.                                                   *)
(***************************************************************************)
EXTENDS CrpPacket, Sequences

CONSTANT None

VARIABLES
  job,   \* the command each end is receiving for, or None
  got,   \* the segments it has
  saved  \* what it last wrote to disk

vars == <<job, got, saved>>

Init ==
  /\ job = [e \in End |-> None]
  /\ got = [e \in End |-> <<>>]
  /\ saved = [e \in End |-> None]

\* The segments e has with the next one.
WithNext(e) == Append(got[e], <<job[e].file, Len(got[e])>>)

Await(e, w) ==
  /\ job[e] = None
  /\ job' = [job EXCEPT ![e] = w]
  /\ UNCHANGED <<got, saved>>

Take(e) ==
  /\ job[e] # None /\ Len(got[e]) + 1 < Packets(job[e].file)
  /\ got' = [got EXCEPT ![e] = WithNext(e)]
  /\ UNCHANGED <<job, saved>>

Deliver(e) ==
  /\ job[e] # None /\ Len(got[e]) + 1 = Packets(job[e].file)
  /\ saved' = [saved EXCEPT ![e] = [job |-> job[e], content |-> WithNext(e)]]
  /\ job' = [job EXCEPT ![e] = None]
  /\ got' = [got EXCEPT ![e] = <<>>]

GiveUp(e) ==
  /\ job[e] # None
  /\ job' = [job EXCEPT ![e] = None]
  /\ got' = [got EXCEPT ![e] = <<>>]
  /\ UNCHANGED saved

Next ==
  \E e \in End :
    \/ \E w \in Job : Await(e, w)
    \/ Take(e) \/ Deliver(e) \/ GiveUp(e)

Spec == Init /\ [][Next]_vars
=============================================================================
