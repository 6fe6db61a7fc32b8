------------------------------ MODULE ShmRing ------------------------------
(***************************************************************************)
(* The MessageQueue of vllm/distributed/device_communicators/              *)
(* shm_broadcast.py: a ring of chunks in shared memory, written by one     *)
(* process and read by several, with one written flag and one read flag    *)
(* per reader beside each chunk and no lock; a wake-up over a socket that  *)
(* may drop it; a second socket for the messages that do not fit a chunk   *)
(* and for the readers of other nodes.                                     *)
(*                                                                         *)
(* One step reads or writes one flag, one chunk or one socket. The sum of  *)
(* the read flags is one step: until the writer takes the slot the flags   *)
(* only grow, so a sum taken byte by byte that reaches the number of       *)
(* readers is exact when its last byte is read, and a lower one only sends *)
(* the writer around its loop. memory_fence (:75-95) orders the accesses   *)
(* of one process as they are written here.                                *)
(***************************************************************************)
EXTENDS Integers, Sequences, FiniteSets

CONSTANTS Locals,      \* readers that map the ring
          Remotes,     \* readers of other nodes, behind remote_socket
          MaxChunks,   \* max_chunks
          MaxMsgs,     \* bound on the calls of enqueue
          Overflowing, \* the calls whose pickle does not fit a chunk
          Timed,       \* the calls of enqueue that are given a timeout
          Timeouts,    \* callers pass a timeout to dequeue
          LateOverflow,\* the timeout may end between a chunk and its overflow message
          WriteFails,  \* the body of a write may raise
          ReadFails,   \* readers of which the body of a read may raise
          Shutdowns    \* readers on which shutdown() may be called

ASSUME RingAssumption ==
    /\ Locals \cap Remotes = {}
    /\ MaxChunks \in Nat \ {0}
    /\ MaxMsgs \in Nat
    /\ Overflowing \subseteq Nat
    /\ Timed \subseteq Nat /\ Timeouts \in BOOLEAN /\ LateOverflow \in BOOLEAN
    /\ WriteFails \in BOOLEAN /\ ReadFails \subseteq Locals
    /\ Shutdowns \subseteq Locals \cup Remotes

Readers == Locals \cup Remotes
Messages == 1..MaxMsgs
Slots == 0..(MaxChunks - 1)

\* What the bytes of a chunk decode to: a message, the overflow byte, or
\* neither while the writer is at work.
Inline(m) == [kind |-> "inline", id |-> m]
Overflow == [kind |-> "overflow", id |-> 0]
Torn == [kind |-> "torn", id |-> 0]
Broken(d) == [kind |-> "raised", id |-> d.id]
Encode(m) == IF m \in Overflowing THEN Overflow ELSE Inline(m)
Chunks == {Torn, Overflow} \cup {Inline(m) : m \in Messages}

VARIABLES
    data,     \* data[s]: the bytes of chunk s
    written,  \* written[s]: metadata byte 0 of chunk s
    read,     \* read[s][r]: metadata byte r + 1 of chunk s
    widx,     \* the writer's current_idx
    wpc,      \* where the writer is in enqueue
    wmsg,     \* the message being enqueued; counts the calls of enqueue
    cleared,  \* the read flags the writer has reset
    ridx,     \* ridx[r]: reader r's current_idx
    rpc,      \* rpc[r]: where reader r is in dequeue
    rflag,    \* rflag[r]: the read flag as check() loaded it
    rval,     \* rval[r]: what reader r decoded
    ping,     \* ping[r]: a wake-up waits in r's notify socket
    sock,     \* sock[r]: what waits in r's local_socket or remote_socket
    closing,  \* closing[r]: shutting_down
    sent,     \* history: the messages published
    taken,    \* history: taken[r]: chunks r has marked read, or messages received
    got       \* history: got[r]: what dequeue returned or raised
vars == <<data, written, read, widx, wpc, wmsg, cleared, ridx, rpc, rflag,
          rval, ping, sock, closing, sent, taken, got>>

ring == <<data, written, read>>
writer == <<widx, wpc, wmsg, cleared, sent>>
readers == <<ridx, rpc, rflag, rval, taken, got>>

Init ==
    /\ data = [s \in Slots |-> Torn]
    /\ written = [s \in Slots |-> FALSE]
    /\ read = [s \in Slots |-> [r \in Locals |-> FALSE]]
    /\ widx = 0 /\ wpc = "idle" /\ wmsg = 0 /\ cleared = {}
    /\ ridx = [r \in Locals |-> 0]
    /\ rpc = [r \in Readers |-> "idle"]
    /\ rflag = [r \in Locals |-> FALSE]
    /\ rval = [r \in Locals |-> Torn]
    /\ ping = [r \in Locals |-> FALSE]
    /\ sock = [r \in Readers |-> <<>>]
    /\ closing = [r \in Readers |-> FALSE]
    /\ sent = <<>>
    /\ taken = [r \in Readers |-> 0]
    /\ got = [r \in Readers |-> <<>>]

NextIdx(i) == (i + 1) % MaxChunks

-----------------------------------------------------------------------------
(* The writer: enqueue and acquire_write.                                  *)

Enqueue ==
    /\ wpc = "idle" /\ wmsg < MaxMsgs
    /\ wmsg' = wmsg + 1
    /\ wpc' = "check"
    /\ UNCHANGED <<ring, widx, cleared, sent, readers, ping, sock, closing>>

\* mutant: read_count is compared with all readers, the remote ones included
WritableByAll == written[widx] =>
    Cardinality({r \in Locals : read[widx][r]}) = Cardinality(Readers)
Writable == written[widx] => \A r \in Locals : read[widx][r]

\* The block is free: mark it not written, and the caller starts on the bytes.
AcquireWrite ==
    /\ wpc = "check" /\ Writable
    /\ written' = [written EXCEPT ![widx] = FALSE]
    /\ data' = [data EXCEPT ![widx] = Torn]
    /\ wpc' = "data"
    /\ UNCHANGED <<read, widx, wmsg, cleared, sent, readers, ping, sock, closing>>

\* TimeoutError of acquire_write: nothing was written.
WriteTimeout ==
    /\ wmsg \in Timed /\ wpc = "check" /\ ~Writable
    /\ wpc' = "idle"
    /\ UNCHANGED <<ring, widx, wmsg, cleared, sent, readers, ping, sock, closing>>

WriteData ==
    /\ wpc = "data"
    /\ data' = [data EXCEPT ![widx] = Encode(wmsg)]
    /\ wpc' = "reset" /\ cleared' = {}
    /\ UNCHANGED <<written, read, widx, wmsg, sent, readers, ping, sock, closing>>

\* The caller's copy raises inside the with: the block stays "not written" and
\* current_idx stays, so the next enqueue takes it again.
WriteRaises ==
    /\ WriteFails /\ wpc = "data"
    /\ wpc' = "idle"
    /\ UNCHANGED <<ring, widx, wmsg, cleared, sent, readers, ping, sock, closing>>

ResetReadFlag(r) ==
    /\ wpc = "reset" /\ r \in Locals \ cleared
    /\ read' = [read EXCEPT ![widx][r] = FALSE]
    /\ cleared' = cleared \cup {r}
    /\ UNCHANGED <<data, written, widx, wpc, wmsg, sent, readers, ping, sock,
                   closing>>

\* mutant: the block is marked written before the flags are reset
MayPublishEarly == wpc = "reset"
MayPublish == wpc = "reset" /\ cleared = Locals

Publish ==
    /\ MayPublish
    /\ written' = [written EXCEPT ![widx] = TRUE]
    /\ widx' = NextIdx(widx)
    /\ wpc' = IF wmsg \in Overflowing THEN "send" ELSE "notify"
    /\ sent' = Append(sent, wmsg)
    /\ UNCHANGED <<data, read, wmsg, cleared, readers, ping, sock, closing>>

\* local_socket.send_multipart: only after the overflow byte is published.
SendOverflow ==
    /\ wpc = "send"
    /\ sock' = [r \in Readers |-> IF r \in Locals THEN Append(sock[r], wmsg)
                                                  ELSE sock[r]]
    /\ wpc' = "notify"
    /\ UNCHANGED <<ring, widx, wmsg, cleared, sent, readers, ping, closing>>

\* notify: a PUB socket of high-water mark 1 into CONFLATE subscribers; any of
\* the wake-ups may be dropped.
Notify ==
    /\ wpc = "notify"
    /\ \E woken \in SUBSET Locals :
           ping' = [r \in Locals |-> ping[r] \/ r \in woken]
    /\ wpc' = "remote"
    /\ UNCHANGED <<ring, widx, wmsg, cleared, sent, readers, sock, closing>>

SendRemote ==
    /\ wpc = "remote"
    /\ sock' = [r \in Readers |-> IF r \in Remotes THEN Append(sock[r], wmsg)
                                                   ELSE sock[r]]
    /\ wpc' = "idle"
    /\ UNCHANGED <<ring, widx, wmsg, cleared, sent, readers, ping, closing>>

-----------------------------------------------------------------------------
(* The readers: dequeue, acquire_read, SpinCondition.wait and recv.        *)

Goto(r, pc) == rpc' = [rpc EXCEPT ![r] = pc]

Dequeue(r) ==
    /\ rpc[r] = "idle"
    /\ Goto(r, IF r \in Locals THEN "flag" ELSE "recv")
    /\ UNCHANGED <<ring, writer, ridx, rflag, rval, taken, got, ping, sock,
                   closing>>

\* check(): the read flag is loaded first,
LoadReadFlag(r) ==
    /\ rpc[r] = "flag"
    /\ rflag' = [rflag EXCEPT ![r] = read[ridx[r]][r]]
    /\ Goto(r, "written")
    /\ UNCHANGED <<ring, writer, ridx, rval, taken, got, ping, sock, closing>>

\* the written flag second.
\* mutant: the reader does not look at its read flag
ReadableAgain(r) == written[ridx[r]]
Readable(r) == written[ridx[r]] /\ ~rflag[r]

AcquireRead(r) ==
    /\ rpc[r] = "written" /\ Readable(r)
    /\ Goto(r, "data")
    /\ UNCHANGED <<ring, writer, ridx, rflag, rval, taken, got, ping, sock,
                   closing>>

\* Nothing to read yet: wait. It yields and returns at once after a recent
\* read, and parks on the notify socket otherwise.
NothingToRead(r) ==
    /\ rpc[r] = "written" /\ ~Readable(r)
    /\ \E pc \in {"woken", "parked"} : Goto(r, pc)
    /\ UNCHANGED <<ring, writer, ridx, rflag, rval, taken, got, ping, sock,
                   closing>>

\* The poller returns: a wake-up, the cancel ping (which is never received, so
\* it stays), or SHM_READER_RECHECK_INTERVAL_MS.
\* mutant: an idle reader waits for the wake-up alone
RecheckNever == FALSE
Recheck == TRUE

Unpark(r) ==
    /\ rpc[r] = "parked"
    /\ \/ closing[r] /\ UNCHANGED ping
       \/ ~closing[r] /\ ping[r] /\ ping' = [ping EXCEPT ![r] = FALSE]
       \/ Recheck /\ ~ping[r] /\ ~closing[r] /\ UNCHANGED ping
    /\ Goto(r, "woken")
    /\ UNCHANGED <<ring, writer, ridx, rflag, rval, taken, got, sock, closing>>

\* mutant: the loop does not look at shutting_down
WokenRetrying(r) ==
    /\ rpc[r] = "woken"
    /\ Goto(r, "flag")
    /\ UNCHANGED <<ring, writer, ridx, rflag, rval, taken, got, ping, sock,
                   closing>>
\* Back in the loop of acquire_read: RuntimeError("cancelled") or another check.
Woken(r) ==
    /\ rpc[r] = "woken"
    /\ Goto(r, IF closing[r] THEN "stopped" ELSE "flag")
    /\ UNCHANGED <<ring, writer, ridx, rflag, rval, taken, got, ping, sock,
                   closing>>

\* timeout_ms raises TimeoutError past the deadline: nothing was consumed.
ReadTimeout(r) ==
    /\ Timeouts /\ rpc[r] = "written" /\ ~Readable(r)
    /\ Goto(r, "idle")
    /\ UNCHANGED <<ring, writer, ridx, rflag, rval, taken, got, ping, sock,
                   closing>>

\* The caller decodes the chunk inside the with; pickle.loads may raise.
ReadData(r) ==
    /\ rpc[r] = "data"
    /\ \/ rval' = [rval EXCEPT ![r] = data[ridx[r]]]
       \/ /\ r \in ReadFails /\ data[ridx[r]].kind = "inline"
          /\ rval' = [rval EXCEPT ![r] = Broken(data[ridx[r]])]
    /\ Goto(r, "mark")
    /\ UNCHANGED <<ring, writer, ridx, rflag, taken, got, ping, sock, closing>>

\* What a decoded chunk gives the caller: its message, or an exception that
\* uses up the message the chunk held.
Outcome(v) == [id |-> v.id, ok |-> v.kind # "raised"]

\* The finally clause: mark the chunk read whether or not the decoding raised.
\* An overflow byte sends the reader to the socket; pickle.loads of the chunk
\* happens inside the with, so only an inline message can raise there.
Mark(r) == [read EXCEPT ![ridx[r]][r] = TRUE]

MarkRead(r) ==
    /\ rpc[r] = "mark"
    /\ read' = Mark(r)
    /\ ridx' = [ridx EXCEPT ![r] = NextIdx(ridx[r])]
    /\ taken' = [taken EXCEPT ![r] = @ + 1]
    /\ IF rval[r].kind = "overflow"
       THEN Goto(r, "recv") /\ UNCHANGED got
       ELSE /\ Goto(r, "idle")
            /\ got' = [got EXCEPT ![r] =
                          Append(@, Outcome(rval[r]))]
    /\ UNCHANGED <<data, written, writer, rflag, rval, ping, sock, closing>>

\* recv: the next message of the socket, whichever message announced it.
Recv(r) ==
    /\ rpc[r] = "recv" /\ sock[r] # <<>>
    /\ sock' = [sock EXCEPT ![r] = Tail(@)]
    /\ got' = [got EXCEPT ![r] = Append(@, [id |-> Head(sock[r]), ok |-> TRUE])]
    /\ taken' = [taken EXCEPT ![r] = @ + IF r \in Remotes THEN 1 ELSE 0]
    /\ Goto(r, "idle")
    /\ UNCHANGED <<ring, writer, ridx, rflag, rval, ping, closing>>

\* poll gives up: TimeoutError, for a reader of the ring with its chunk already
\* marked read.
RecvTimeout(r) ==
    /\ Timeouts /\ rpc[r] = "recv" /\ sock[r] = <<>>
    /\ r \in Locals => LateOverflow
    /\ Goto(r, "idle")
    /\ UNCHANGED <<ring, writer, ridx, rflag, rval, taken, got, ping, sock,
                   closing>>

\* shutdown(), from another thread of the reader's process.
Shutdown(r) ==
    /\ r \in Shutdowns /\ ~closing[r]
    /\ closing' = [closing EXCEPT ![r] = TRUE]
    /\ UNCHANGED <<ring, writer, readers, ping, sock>>

-----------------------------------------------------------------------------
WriterStep == \/ AcquireWrite \/ WriteTimeout \/ WriteData \/ WriteRaises
              \/ \E r \in Locals : ResetReadFlag(r)
              \/ Publish \/ SendOverflow \/ Notify \/ SendRemote

LocalStep(r) == \/ LoadReadFlag(r) \/ AcquireRead(r) \/ NothingToRead(r)
                \/ Unpark(r) \/ Woken(r) \/ ReadTimeout(r) \/ ReadData(r)
                \/ MarkRead(r)

ReaderStep(r) == \/ Dequeue(r)
                 \/ r \in Locals /\ LocalStep(r)
                 \/ Recv(r) \/ RecvTimeout(r)

Next == \/ Enqueue \/ WriterStep
        \/ \E r \in Readers : ReaderStep(r) \/ Shutdown(r)

Spec == Init /\ [][Next]_vars

\* The writer finishes the call it is in and the readers call dequeue in a
\* loop (worker_busy_loop, get_response); a timeout is positive, so that a call
\* waits at least once before it gives up. Nothing obliges anyone to enqueue.
FairSpec ==
    /\ Spec
    /\ WF_vars(WriterStep)
    /\ \A r \in Readers : WF_vars(ReaderStep(r))
    /\ \A r \in Locals : SF_vars(NothingToRead(r))
-----------------------------------------------------------------------------
(* Properties.                                                             *)

WriterPC == {"idle", "check", "data", "reset", "send", "notify", "remote"}
ReaderPC == {"idle", "flag", "written", "parked", "woken", "data", "mark",
             "recv", "stopped"}
Values == Chunks \cup {Broken(Inline(m)) : m \in Messages}
Outcomes == [id : Messages, ok : BOOLEAN]

\* The types of the variables of both sides of the queue.
TypeOK ==
    /\ data \in [Slots -> Chunks]
    /\ written \in [Slots -> BOOLEAN]
    /\ read \in [Slots -> [Locals -> BOOLEAN]]
    /\ widx \in Slots /\ wpc \in WriterPC /\ wmsg \in 0..MaxMsgs
    /\ cleared \subseteq Locals
    /\ ridx \in [Locals -> Slots] /\ rpc \in [Readers -> ReaderPC]
    /\ rflag \in [Locals -> BOOLEAN] /\ rval \in [Locals -> Values]
    /\ ping \in [Locals -> BOOLEAN] /\ closing \in [Readers -> BOOLEAN]
    /\ sock \in [Readers -> Seq(Messages)]
    /\ sent \in Seq(Messages)
    /\ taken \in [Readers -> Nat]
    /\ got \in [Readers -> Seq(Outcomes)]

\* A reader between its check() and its read flag has the chunk to itself: the
\* writer is not in it and the bytes are those of the message the reader has
\* come to, although the two never take a lock ("we don't need to synchronize
\* the access to the buffer", ShmRingBuffer).
ReadsItsMessage ==
    \A r \in Locals : rpc[r] \in {"data", "mark"} =>
        /\ taken[r] < Len(sent)
        /\ data[ridx[r]] = Encode(sent[taken[r] + 1])
        /\ ~(wpc \in {"data", "reset"} /\ widx = ridx[r])
        /\ rpc[r] = "mark" => rval[r] \in {data[ridx[r]], Broken(data[ridx[r]])}

\* The writer is at most max_chunks ahead of the slowest reader of the ring: it
\* never starts on a chunk a reader has still to read.
WriterWaits ==
    \A r \in Locals :
        Len(sent) - taken[r] + (IF wpc \in {"data", "reset"} THEN 1 ELSE 0)
            \in 0..MaxChunks

B == INSTANCE Broadcast WITH Bounded <- Locals, Capacity <- MaxChunks + 1

\* The queue implements the abstract broadcast. A reader of the ring may hold
\* one overflow message it has marked read and not yet received.
ImplementsBroadcast == B!BSpec

\* Every message published is returned to (or raised at) every reader that is
\* not shut down, even when its wake-up is lost: the recheck interval of
\* acquire_read finds it.
Delivered ==
    \A r \in Readers :
        Len(got[r]) < Len(sent) ~> (Len(got[r]) = Len(sent) \/ rpc[r] = "stopped")

\* While no reader stops, an enqueue that waits for a free block gets one, or
\* its timeout.
WriterProceeds ==
    wpc = "check" ~> (wpc # "check" \/ \E r \in Locals : rpc[r] = "stopped")

\* shutdown() wakes an idle reader of the ring so that it can exit.
LocalShutdownWakes == \A r \in Locals \cap Shutdowns : closing[r] ~> rpc[r] = "stopped"

\* shutdown() "If this is an idle reader, wakes it up so it can clean up and
\* shut down" (shm_broadcast.py:547), said of every reader.
ShutdownWakes == \A r \in Readers : closing[r] ~> rpc[r] = "stopped"

\* "Essentially, it is a queue where only one will enqueue and multiple will
\* dequeue" (shm_broadcast.py:231): no reader is handed messages out of order.
InOrder ==
    \A r \in Readers : \A i, j \in DOMAIN got[r] :
        i < j => got[r][i].id < got[r][j].id
=============================================================================
