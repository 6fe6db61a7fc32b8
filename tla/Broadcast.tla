----------------------------- MODULE Broadcast -----------------------------
(***************************************************************************)
(* What a MessageQueue of vllm/distributed/device_communicators/           *)
(* shm_broadcast.py promises: one writer, several readers, every reader    *)
(* receives every message once and in the order sent, and the writer is    *)
(* never more than Capacity messages ahead of a reader of Bounded (the     *)
(* readers behind the shared-memory ring; the others sit behind a socket). *)
(***************************************************************************)
EXTENDS Naturals, Sequences

CONSTANTS Readers, Bounded, Capacity, Messages

VARIABLES sent,  \* the messages sent so far
          got    \* got[r]: what dequeue returned to (or raised at) reader r
bvars == <<sent, got>>

\* A dequeue that raised while it decoded message m: the message is used up.
Raised(m) == [id |-> m, ok |-> FALSE]
Received(m) == [id |-> m, ok |-> TRUE]

BInit == sent = <<>> /\ got = [r \in Readers |-> <<>>]

Send(m) ==
    /\ \A r \in Bounded : Len(sent) - Len(got[r]) < Capacity
    /\ sent' = Append(sent, m)
    /\ UNCHANGED got

Receive(r, o) ==
    /\ Len(got[r]) < Len(sent)
    /\ o \in {Received(sent[Len(got[r]) + 1]), Raised(sent[Len(got[r]) + 1])}
    /\ got' = [got EXCEPT ![r] = Append(got[r], o)]
    /\ UNCHANGED sent

BNext == \/ \E m \in Messages : Send(m)
         \/ \E r \in Readers, m \in Messages, b \in BOOLEAN :
                Receive(r, [id |-> m, ok |-> b])

BSpec == BInit /\ [][BNext]_bvars
=============================================================================
