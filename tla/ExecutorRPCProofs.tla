------------------------- MODULE ExecutorRPCProofs -------------------------
(***************************************************************************)
(* Proofs about ExecutorRPC for any number of workers and calls, whatever  *)
(* fails, times out or dies.                                               *)
(***************************************************************************)
EXTENDS ExecutorRPC, SequenceTheorems, FiniteSetTheorems, WellFoundedInduction, TLAPS

-----------------------------------------------------------------------------
(* A fact about naturals.                                                  *)

\* A nonempty set of naturals has a least element.
LEMMA LeastElement ==
  ASSUME NEW T, T \subseteq Nat, T # {}
  PROVE  \E x \in T : \A y \in T : x <= y
<1> DEFINE R == OpToRel(<, Nat)
<1>1. IsWellFoundedOn(R, Nat)
  BY NatLessThanWellFounded
<1>2. \E x \in T : \A y \in T : ~ (<<y, x>> \in R)
  <2> HIDE DEF R
  <2> QED BY <1>1, WFMin
<1>3. PICK x \in T : \A y \in T : ~ (<<y, x>> \in R)
  BY <1>2
<1>4. \A y \in T : ~ (y < x)
  <2> SUFFICES ASSUME NEW y \in T, y < x PROVE FALSE
    OBVIOUS
  <2>1. <<y, x>> \notin OpToRel(<, Nat)
    BY <1>3
  <2>2. ~ (<<y, x>> \in Nat \X Nat /\ <<y, x>>[1] < <<y, x>>[2])
    BY <2>1 DEF OpToRel
  <2> HIDE DEF R
  <2>3. x \in Nat /\ y \in Nat
    OBVIOUS
  <2>4. <<y, x>> \in Nat \X Nat /\ <<y, x>>[1] = y /\ <<y, x>>[2] = x
    BY <2>3
  <2> QED BY <2>2, <2>4
<1> HIDE DEF R
<1> QED BY <1>4

Bad == {"failed", "timeout", "cancelled"}
Entries(s) == {s[i] : i \in DOMAIN s}
Increasing(s) == \A i, j \in DOMAIN s : i < j => s[i] < s[j]
CallsOf(s) == [i \in DOMAIN s |-> s[i].call]

-----------------------------------------------------------------------------
(* The futures.                                                            *)

\* Where the main thread is says whether it has a call or a future in hand.
Hands ==
    /\ target # None => target \in Calls
    /\ main = "waiting" <=> target # None
    /\ cur # None => main = "waiting"
    /\ main \in {"checked", "sent"} => last \in Calls /\ status[last] = "new"
    /\ \A c \in Calls : c > last => status[c] = "new"
    /\ \A c \in Calls : status[c] = "new" => left[c] = {}
    /\ target # None => status[target] # "new"

\* The futures in the queue are pending and in the order of their calls, and
\* the one in hand is older.
QueueOrder ==
    /\ Increasing(futures)
    /\ \A c \in Entries(futures) : status[c] = "pending"
    /\ cur # None => status[cur] = "pending" /\ \A c \in Entries(futures) : cur < c
    /\ \A c \in Calls : status[c] = "pending" => c = cur \/ c \in Entries(futures)
    /\ \A c, d \in Calls : c < d /\ status[c] = "pending" =>
           status[d] \in {"new", "pending"}

-----------------------------------------------------------------------------
(* The calls on their way through a worker.                                *)

\* The calls a worker has, from the oldest place to the newest.
Answered(w) == Entries(CallsOf(responses[w]))
Queued(w) == Entries(CallsOf(outputs[w]))
Executed(w) == {running[w]} \ {None}
Sent(w) == Entries(calls[w])
Through(w) == Answered(w) \cup Queued(w) \cup Executed(w) \cup Sent(w)

Below(S, T) == \A c \in S, d \in T : c < d

\* Every place holds calls in their order, and later places later calls.
WorkerOrder(w) ==
    /\ Increasing(CallsOf(responses[w])) /\ Increasing(CallsOf(outputs[w]))
    /\ Increasing(calls[w])
    /\ Below(Answered(w), Queued(w) \cup Executed(w) \cup Sent(w))
    /\ Below(Queued(w), Executed(w) \cup Sent(w))
    /\ Below(Executed(w), Sent(w))
    /\ \A c \in Through(w) : c \in 1..last /\ (c = last => main # "checked")
    /\ \A c \in Answered(w) \cup Queued(w) : w \in reply[c]
    /\ ~AsyncOutput => outputs[w] = <<>>

\* The responses that rank w has still to give to c are never to be read.
Abandoned(c, w) == status[c] \in Bad /\ w \in left[c]

\* What is on its way through a rank is awaited, and the other way round,
\* until a response of the rank is abandoned. The last call may have no future.
Awaited(w) ==
    (\A c \in Calls : ~Abandoned(c, w)) =>
        /\ \A c \in Through(w) : w \in reply[c] =>
               \/ status[c] = "pending" /\ w \in left[c]
               \/ c = last /\ (main = "sent" \/ ~mqsUp)
        /\ \A c \in Calls : status[c] = "pending" /\ w \in left[c] => c \in Through(w)
        /\ main = "sent" /\ w \in reply[last] => last \in Through(w)

\* A response that went to another call follows an abandoned one.
PairedUnlessAbandoned ==
    \A c \in Calls, w \in Workers :
        got[c][w].call \in {None, c} \/ \E d \in Calls : d < c /\ Abandoned(d, w)

\* The monitor drops the queues of the calls before those of the responses.
Shutdown == /\ ~rpcUp <=> monitor \in {"dropped", "down", "done"}
            /\ ~mqsUp <=> monitor \in {"down", "done"}

IInv == /\ TypeOK /\ Hands /\ QueueOrder /\ Shutdown
        /\ \A w \in Workers : WorkerOrder(w) /\ Awaited(w)
        /\ PairedUnlessAbandoned

-----------------------------------------------------------------------------
(* Sequences that only grow at the end and shrink at the head.             *)

LEMMA AppendEntries ==
    ASSUME NEW s \in Seq(Nat), NEW e \in Nat
    PROVE  /\ Entries(Append(s, e)) = Entries(s) \cup {e}
           /\ Increasing(s) /\ (\A c \in Entries(s) : c < e)
                  => Increasing(Append(s, e))
<1> DEFINE t == Append(s, e)
<1>1. /\ Len(s) \in Nat /\ DOMAIN s = 1..Len(s) /\ DOMAIN t = 1..Len(s) + 1
      /\ \A i \in 1..Len(s) : t[i] = s[i] /\ s[i] \in Nat
      /\ t[Len(s) + 1] = e
    OBVIOUS
<1> HIDE DEF t
<1>2. Entries(t) = Entries(s) \cup {e}
    <2>1. ASSUME NEW c \in Entries(t) PROVE c \in Entries(s) \cup {e}
        <3>1. PICK i \in DOMAIN t : c = t[i]
            BY DEF Entries
        <3>2. CASE i = Len(s) + 1
            BY <1>1, <3>1, <3>2
        <3>3. CASE i \in 1..Len(s)
            BY <1>1, <3>1, <3>3 DEF Entries
        <3> QED BY <1>1, <3>2, <3>3
    <2>2. ASSUME NEW c \in Entries(s) PROVE c \in Entries(t)
        <3>1. PICK i \in DOMAIN s : c = s[i]
            BY DEF Entries
        <3>2. i \in DOMAIN t /\ c = t[i]
            BY <1>1, <3>1
        <3> QED BY <3>2 DEF Entries
    <2>3. e \in Entries(t)
        <3>1. Len(s) + 1 \in DOMAIN t /\ e = t[Len(s) + 1]
            BY <1>1
        <3> QED BY <3>1 DEF Entries
    <2> QED BY <2>1, <2>2, <2>3
<1>3. ASSUME Increasing(s), \A c \in Entries(s) : c < e
      PROVE  Increasing(t)
    <2> SUFFICES ASSUME NEW i \in DOMAIN t, NEW j \in DOMAIN t, i < j
                 PROVE  t[i] < t[j]
        BY DEF Increasing
    <2>1. CASE j = Len(s) + 1
        <3>1. i \in DOMAIN s /\ t[i] = s[i] /\ t[j] = e
            BY <1>1, <2>1
        <3> QED BY <1>3, <3>1 DEF Entries
    <2>2. CASE j \in 1..Len(s)
        <3>1. i \in DOMAIN s /\ j \in DOMAIN s /\ t[i] = s[i] /\ t[j] = s[j]
            BY <1>1, <2>2
        <3> QED BY <1>3, <3>1 DEF Increasing
    <2> QED BY <1>1, <2>1, <2>2
<1> QED BY <1>2, <1>3 DEF t

LEMMA TailEntries ==
    ASSUME NEW s \in Seq(Nat), s # <<>>, Increasing(s)
    PROVE  /\ Entries(Tail(s)) = Entries(s) \ {Head(s)}
           /\ Head(s) \in Entries(s)
           /\ Increasing(Tail(s))
           /\ \A c \in Entries(s) : Head(s) <= c
           /\ \A c \in Entries(Tail(s)) : Head(s) < c
<1> DEFINE t == Tail(s)
<1>1. /\ Len(s) \in Nat \ {0} /\ DOMAIN s = 1..Len(s) /\ DOMAIN t = 1..Len(s) - 1
      /\ \A i \in 1..Len(s) - 1 : t[i] = s[i + 1]
      /\ Head(s) = s[1]
      /\ \A i \in 1..Len(s) : s[i] \in Nat
    OBVIOUS
<1> HIDE DEF t
<1>2. ASSUME NEW i \in 2..Len(s) PROVE s[1] < s[i]
    <2>1. 1 \in DOMAIN s /\ i \in DOMAIN s /\ 1 < i
        BY <1>1
    <2> QED BY <2>1 DEF Increasing
<1>3. Entries(t) = {s[i] : i \in 2..Len(s)}
    <2>1. ASSUME NEW c \in Entries(t) PROVE c \in {s[i] : i \in 2..Len(s)}
        <3>1. PICK i \in DOMAIN t : c = t[i]
            BY DEF Entries
        <3>2. i + 1 \in 2..Len(s) /\ c = s[i + 1]
            BY <1>1, <3>1
        <3> QED BY <3>2
    <2>2. ASSUME NEW i \in 2..Len(s) PROVE s[i] \in Entries(t)
        <3>1. i - 1 \in DOMAIN t /\ s[i] = t[i - 1]
            BY <1>1
        <3> QED BY <3>1 DEF Entries
    <2> QED BY <2>1, <2>2
<1>4. Entries(s) = {s[1]} \cup {s[i] : i \in 2..Len(s)}
    <2>1. 1..Len(s) = {1} \cup 2..Len(s)
        BY <1>1
    <2> QED BY <1>1, <2>1 DEF Entries
<1>5. Increasing(t)
    <2> SUFFICES ASSUME NEW i \in DOMAIN t, NEW j \in DOMAIN t, i < j
                 PROVE  t[i] < t[j]
        BY DEF Increasing
    <2>1. /\ i + 1 \in DOMAIN s /\ j + 1 \in DOMAIN s /\ i + 1 < j + 1
          /\ t[i] = s[i + 1] /\ t[j] = s[j + 1]
        BY <1>1
    <2> QED BY <2>1 DEF Increasing
<1>6. s[1] \notin {s[i] : i \in 2..Len(s)}
    BY <1>1, <1>2
<1> QED BY <1>1, <1>2, <1>3, <1>4, <1>5, <1>6 DEF t

LEMMA SequenceOfRange ==
    ASSUME NEW n \in Nat, NEW f \in [1..n -> Nat]
    PROVE  f \in Seq(Nat) /\ Len(f) = n
OBVIOUS

LEMMA CallsOfSequences ==
    ASSUME NEW s \in Seq(Response)
    PROVE  /\ CallsOf(s) \in Seq(0..MaxCalls) /\ CallsOf(s) \in Seq(Nat)
           /\ \A r \in Response : CallsOf(Append(s, r)) = Append(CallsOf(s), r.call)
           /\ s # <<>> => /\ CallsOf(s) # <<>>
                          /\ CallsOf(Tail(s)) = Tail(CallsOf(s))
                          /\ Head(s).call = Head(CallsOf(s))
                          /\ Head(s) \in Response /\ Tail(s) \in Seq(Response)
<1> DEFINE q == CallsOf(s)
<1>1. Len(s) \in Nat /\ DOMAIN s = 1..Len(s) /\ \A i \in 1..Len(s) : s[i] \in Response
    OBVIOUS
<1>2. q \in Seq(0..MaxCalls) /\ Len(q) = Len(s) /\ \A i \in 1..Len(s) : q[i] = s[i].call
    BY <1>1, ExecutorAssumption DEF CallsOf, Response
<1>3. q \in Seq(Nat)
    BY <1>2, ExecutorAssumption
<1>4. ASSUME NEW r \in Response PROVE CallsOf(Append(s, r)) = Append(q, r.call)
    <2>1. /\ DOMAIN Append(s, r) = 1..Len(s) + 1
          /\ \A i \in 1..Len(s) : Append(s, r)[i] = s[i]
          /\ Append(s, r)[Len(s) + 1] = r
        BY <1>1
    <2>2. /\ DOMAIN CallsOf(Append(s, r)) = 1..Len(s) + 1
          /\ CallsOf(Append(s, r)) = [i \in 1..Len(s) + 1 |-> Append(s, r)[i].call]
        BY <2>1 DEF CallsOf
    <2>3. Append(q, r.call) = [i \in 1..Len(s) + 1 |-> IF i = Len(s) + 1 THEN r.call ELSE q[i]]
        BY <1>2
    <2> QED BY <1>2, <2>1, <2>2, <2>3
<1>5. ASSUME s # <<>>
      PROVE  /\ q # <<>> /\ CallsOf(Tail(s)) = Tail(q) /\ Head(s).call = Head(q)
             /\ Head(s) \in Response /\ Tail(s) \in Seq(Response)
    <2>1. /\ Len(s) >= 1 /\ DOMAIN Tail(s) = 1..Len(s) - 1 /\ Head(s) = s[1]
          /\ \A i \in 1..Len(s) - 1 : Tail(s)[i] = s[i + 1]
          /\ Head(s) \in Response /\ Tail(s) \in Seq(Response)
        BY <1>1, <1>5
    <2>2. q # <<>> /\ Head(q) = s[1].call
        BY <1>2, <2>1
    <2>3. q \in Seq(Nat) /\ q # <<>> /\ Len(q) = Len(s)
        BY <1>2, <1>3, <2>2
    <2>4. /\ Tail(q) \in Seq(Nat) /\ Len(Tail(q)) = Len(s) - 1
          /\ \A i \in 1..Len(s) - 1 : Tail(q)[i] = q[i + 1]
        <3> HIDE DEF q
        <3> QED BY <2>3
    <2>5. /\ CallsOf(Tail(s)) \in Seq(Nat) /\ Len(CallsOf(Tail(s))) = Len(s) - 1
          /\ \A i \in 1..Len(s) - 1 : CallsOf(Tail(s))[i] = s[i + 1].call
        <3>1. \A i \in 1..Len(s) - 1 : Tail(s)[i] \in Response
            BY <1>1, <2>1
        <3>2. CallsOf(Tail(s)) = [i \in 1..Len(s) - 1 |-> s[i + 1].call]
            BY <2>1 DEF CallsOf
        <3>3. \A i \in 1..Len(s) - 1 : s[i + 1].call \in Nat
            BY <1>1, ExecutorAssumption DEF Response
        <3>4. Len(s) - 1 \in Nat
            BY <1>1, <2>1
        <3>5. CallsOf(Tail(s)) \in [1..Len(s) - 1 -> Nat]
            BY <3>2, <3>3
        <3>6. CallsOf(Tail(s)) \in Seq(Nat) /\ Len(CallsOf(Tail(s))) = Len(s) - 1
            BY <3>4, <3>5, SequenceOfRange
        <3> QED BY <3>2, <3>6
    <2>6. CallsOf(Tail(s)) = Tail(q)
        <3>1. ASSUME NEW i \in 1..Len(s) - 1 PROVE CallsOf(Tail(s))[i] = Tail(q)[i]
            <4>1. i + 1 \in 1..Len(s)
                BY <1>1
            <4> QED BY <1>2, <2>4, <2>5, <4>1
        <3> HIDE DEF q
        <3> QED BY <2>4, <2>5, <3>1, SeqEqual
    <2> QED BY <2>1, <2>2, <2>6
<1> QED BY <1>2, <1>3, <1>4, <1>5

LEMMA SeqMonotone ==
    ASSUME NEW S, NEW T, S \subseteq T, NEW s \in Seq(S)
    PROVE  s \in Seq(T)
<1>1. Len(s) \in Nat /\ DOMAIN s = 1..Len(s) /\ \A i \in 1..Len(s) : s[i] \in T
    OBVIOUS
<1>2. s = [i \in 1..Len(s) |-> s[i]]
    OBVIOUS
<1>3. s \in [1..Len(s) -> T]
    BY <1>1, <1>2
<1> QED BY <1>1, <1>3

LEMMA HeadRemoved ==
    ASSUME NEW s \in Seq(Calls), s # <<>>
    PROVE  RemoveAt(s, 1) = Tail(s)
<1>1. SubSeq(s, 1, 0) = <<>> /\ SubSeq(s, 2, Len(s)) = Tail(s)
    OBVIOUS
<1>2. Tail(s) \in Seq(Calls)
    OBVIOUS
<1>3. <<>> \o Tail(s) = Tail(s)
    BY <1>2
<1> QED BY <1>1, <1>3 DEF RemoveAt

-----------------------------------------------------------------------------
(* What passes through a worker.                                           *)

\* The calls of a worker are numbers, and so are those of its responses.
LEMMA QueueTypes ==
    ASSUME TypeOK, NEW w \in Workers
    PROVE  /\ Calls \subseteq Nat /\ 0 \notin Calls
           /\ calls[w] \in Seq(Nat) /\ calls[w] \in Seq(Calls)
           /\ outputs[w] \in Seq(Response) /\ responses[w] \in Seq(Response)
           /\ CallsOf(outputs[w]) \in Seq(Nat) /\ CallsOf(responses[w]) \in Seq(Nat)
           /\ running[w] \in Nat
<1>1. Calls \subseteq Nat /\ 0 \notin Calls
    BY DEF Calls
<1>2. calls[w] \in Seq(Calls) /\ running[w] \in 0..MaxCalls
      /\ outputs[w] \in Seq(Response) /\ responses[w] \in Seq(Response)
    BY DEF TypeOK
<1>3. calls[w] \in Seq(Nat)
    BY <1>1, <1>2, SeqMonotone
<1> QED BY <1>1, <1>2, <1>3, CallsOfSequences, ExecutorAssumption

\* A step of a worker keeps what is to be answered on its way.
Passes(w) == /\ WorkerOrder(w)'
             /\ Through(w)' \subseteq Through(w)
             /\ \A c \in Through(w) : w \in reply[c] => c \in Through(w)'

LEMMA TakePasses ==
    ASSUME TypeOK, NEW w \in Workers, WorkerOrder(w), Take(w)
    PROVE  Passes(w)
<1> DEFINE s == calls[w]
<1>1. /\ s \in Seq(Nat) /\ s \in Seq(Calls) /\ s # <<>> /\ running[w] = 0
      /\ calls'[w] = Tail(s) /\ running'[w] = Head(s)
      /\ UNCHANGED <<outputs, responses, main, last, reply>>
    BY QueueTypes DEF Take, TypeOK, None, mainVars
<1>2. Head(s) \in Calls /\ Head(s) # 0
    BY <1>1, QueueTypes
<1>3. /\ Entries(Tail(s)) = Entries(s) \ {Head(s)} /\ Head(s) \in Entries(s)
      /\ Increasing(Tail(s)) /\ \A c \in Entries(Tail(s)) : Head(s) < c
    BY <1>1, TailEntries DEF WorkerOrder
<1>4. /\ Answered(w)' = Answered(w) /\ Queued(w)' = Queued(w)
      /\ Executed(w) = {} /\ Executed(w)' = {Head(s)}
      /\ Sent(w) = Entries(s) /\ Sent(w)' = Entries(Tail(s))
    BY <1>1, <1>2 DEF Answered, Queued, Executed, Sent, None
<1>5. Through(w)' = Through(w)
    BY <1>3, <1>4 DEF Through
<1>6. Below(Executed(w)', Sent(w)')
    BY <1>3, <1>4 DEF Below
<1>7. /\ Below(Answered(w)', Queued(w)' \cup Executed(w)' \cup Sent(w)')
      /\ Below(Queued(w)', Executed(w)' \cup Sent(w)')
    BY <1>3, <1>4 DEF Below, WorkerOrder
<1>8. WorkerOrder(w)'
    BY <1>1, <1>3, <1>4, <1>5, <1>6, <1>7 DEF WorkerOrder, Through
<1> QED BY <1>5, <1>8 DEF Passes

LEMMA FinishPasses ==
    ASSUME TypeOK, NEW w \in Workers, WorkerOrder(w), NEW ok \in BOOLEAN, Finish(w, ok)
    PROVE  Passes(w)
<1> DEFINE c == running[w]
           r == [call |-> c, ok |-> ok]
<1>1. /\ c \in Nat /\ c # 0 /\ running'[w] = 0
      /\ UNCHANGED <<calls, main, last, reply>>
    BY QueueTypes DEF Finish, TypeOK, None, mainVars
<1>2. r \in Response /\ r.call = c
    BY DEF TypeOK, Response
<1>3. /\ Executed(w) = {c} /\ Executed(w)' = {} /\ Sent(w)' = Sent(w)
    BY <1>1 DEF Executed, Sent, None
<1>4. CASE w \in reply[c] /\ AsyncOutput
    <2>1. outputs'[w] = Append(outputs[w], r) /\ responses' = responses
        BY <1>4 DEF Finish, HandleOutput, TypeOK
    <2>2. CallsOf(outputs[w])' = Append(CallsOf(outputs[w]), c)
        BY <1>2, <2>1, QueueTypes, CallsOfSequences
    <2>3. Queued(w)' = Queued(w) \cup {c} /\ Answered(w)' = Answered(w)
        BY <1>1, <2>1, <2>2, QueueTypes, AppendEntries DEF Queued, Answered
    <2>4. Increasing(CallsOf(outputs[w]))'
        <3>1. \A d \in Queued(w) : d < c
            BY <1>3 DEF WorkerOrder, Below
        <3> QED BY <1>1, <2>2, <3>1, QueueTypes, AppendEntries DEF WorkerOrder, Queued
    <2>5. Through(w)' = Through(w)
        BY <1>3, <2>3 DEF Through
    <2>6. /\ Below(Answered(w)', Queued(w)' \cup Executed(w)' \cup Sent(w)')
          /\ Below(Queued(w)', Executed(w)' \cup Sent(w)')
          /\ Below(Executed(w)', Sent(w)')
        BY <1>3, <2>3 DEF Below, WorkerOrder
    <2>7. \A d \in Answered(w)' \cup Queued(w)' : w \in reply'[d]
        BY <1>1, <1>4, <2>3 DEF WorkerOrder
    <2>8. WorkerOrder(w)'
        BY <1>1, <1>4, <2>1, <2>4, <2>5, <2>6, <2>7 DEF WorkerOrder
    <2> QED BY <2>5, <2>8 DEF Passes
<1>5. CASE w \in reply[c] /\ ~AsyncOutput
    <2>1. responses'[w] = Append(responses[w], r) /\ outputs' = outputs
        BY <1>5 DEF Finish, HandleOutput, TypeOK
    <2>2. CallsOf(responses[w])' = Append(CallsOf(responses[w]), c)
        BY <1>2, <2>1, QueueTypes, CallsOfSequences
    <2>3. Answered(w)' = Answered(w) \cup {c} /\ Queued(w)' = Queued(w)
        BY <1>1, <2>1, <2>2, QueueTypes, AppendEntries DEF Queued, Answered
    <2>4. Increasing(CallsOf(responses[w]))'
        <3>1. \A d \in Answered(w) : d < c
            BY <1>3 DEF WorkerOrder, Below
        <3> QED BY <1>1, <2>2, <3>1, QueueTypes, AppendEntries DEF WorkerOrder, Answered
    <2>5. Through(w)' = Through(w)
        BY <1>3, <2>3 DEF Through
    <2>6. Queued(w) = {}
        BY <1>5 DEF Queued, Entries, CallsOf, WorkerOrder
    <2>7. /\ Below(Answered(w)', Queued(w)' \cup Executed(w)' \cup Sent(w)')
          /\ Below(Queued(w)', Executed(w)' \cup Sent(w)')
          /\ Below(Executed(w)', Sent(w)')
        BY <1>3, <2>3, <2>6 DEF Below, WorkerOrder
    <2>8. \A d \in Answered(w)' \cup Queued(w)' : w \in reply'[d]
        BY <1>1, <1>5, <2>3 DEF WorkerOrder
    <2>9. WorkerOrder(w)'
        BY <1>1, <1>5, <2>1, <2>4, <2>5, <2>7, <2>8 DEF WorkerOrder
    <2> QED BY <2>5, <2>9 DEF Passes
<1>6. CASE w \notin reply[c]
    <2>1. UNCHANGED <<outputs, responses>>
        BY <1>6 DEF Finish
    <2>2. Queued(w)' = Queued(w) /\ Answered(w)' = Answered(w)
        BY <2>1 DEF Queued, Answered
    <2>3. Through(w)' \subseteq Through(w) /\ Through(w) \subseteq Through(w)' \cup {c}
        BY <1>3, <2>2 DEF Through
    <2>4. /\ Below(Answered(w)', Queued(w)' \cup Executed(w)' \cup Sent(w)')
          /\ Below(Queued(w)', Executed(w)' \cup Sent(w)')
          /\ Below(Executed(w)', Sent(w)')
        BY <1>3, <2>2 DEF Below, WorkerOrder
    <2>5. WorkerOrder(w)'
        BY <1>1, <2>1, <2>2, <2>3, <2>4 DEF WorkerOrder
    <2> QED BY <1>6, <2>3, <2>5 DEF Passes
<1> QED BY <1>4, <1>5, <1>6

LEMMA SendPasses ==
    ASSUME TypeOK, NEW w \in Workers, WorkerOrder(w), NEW ok \in BOOLEAN, SendOutput(w, ok)
    PROVE  Passes(w)
<1> DEFINE r == [Head(outputs[w]) EXCEPT !.ok = @ /\ ok]
           q == CallsOf(outputs[w])
           c == Head(q)
<1>1. /\ outputs[w] # <<>> /\ outputs'[w] = Tail(outputs[w])
      /\ responses'[w] = Append(responses[w], r)
      /\ UNCHANGED <<calls, running, main, last, reply>>
    BY DEF SendOutput, TypeOK, mainVars
<1>2. /\ q \in Seq(Nat) /\ q # <<>> /\ CallsOf(outputs[w])' = Tail(q)
      /\ Head(outputs[w]).call = c /\ Head(outputs[w]) \in Response
      /\ ~AsyncOutput => FALSE
    BY <1>1, QueueTypes, CallsOfSequences DEF WorkerOrder
<1>3. r \in Response /\ r.call = c
    BY <1>2 DEF Response
<1>4. CallsOf(responses[w])' = Append(CallsOf(responses[w]), c)
    <2>1. CallsOf(Append(responses[w], r)) = Append(CallsOf(responses[w]), r.call)
        <3> HIDE DEF r
        <3> QED BY <1>3, QueueTypes, CallsOfSequences
    <2> QED BY <1>1, <1>3, <2>1
<1>5. /\ Entries(Tail(q)) = Entries(q) \ {c} /\ c \in Entries(q) /\ c \in Nat
      /\ Increasing(Tail(q)) /\ \A d \in Entries(Tail(q)) : c < d
    BY <1>2, TailEntries DEF WorkerOrder
<1>6. /\ Queued(w) = Entries(q) /\ Queued(w)' = Entries(Tail(q))
      /\ Answered(w)' = Answered(w) \cup {c}
      /\ Executed(w)' = Executed(w) /\ Sent(w)' = Sent(w)
    BY <1>1, <1>2, <1>4, <1>5, QueueTypes, AppendEntries
       DEF Queued, Answered, Executed, Sent
<1>7. Increasing(CallsOf(responses[w]))'
    <2>1. \A d \in Answered(w) : d < c
        BY <1>5, <1>6 DEF WorkerOrder, Below
    <2> QED BY <1>4, <1>5, <2>1, QueueTypes, AppendEntries DEF WorkerOrder, Answered
<1>8. Through(w)' = Through(w)
    BY <1>5, <1>6 DEF Through
<1>9. /\ Below(Answered(w)', Queued(w)' \cup Executed(w)' \cup Sent(w)')
      /\ Below(Queued(w)', Executed(w)' \cup Sent(w)')
      /\ Below(Executed(w)', Sent(w)')
    BY <1>5, <1>6 DEF Below, WorkerOrder
<1>10. \A d \in Answered(w)' \cup Queued(w)' : w \in reply'[d]
    BY <1>1, <1>5, <1>6 DEF WorkerOrder
<1>11. WorkerOrder(w)'
    BY <1>1, <1>2, <1>5, <1>7, <1>8, <1>9, <1>10 DEF WorkerOrder
<1> QED BY <1>8, <1>11 DEF Passes

LEMMA WorkerTyped ==
    ASSUME TypeOK, NEW w \in Workers,
           WorkerStep(w) \/ OutputStep(w) \/ Die(w)
    PROVE  TypeOK'
<1>1. CASE Take(w)
    <2>1. calls[w] \in Seq(Calls) /\ calls[w] # <<>>
        BY <1>1 DEF Take, TypeOK
    <2>2. Head(calls[w]) \in Calls /\ Tail(calls[w]) \in Seq(Calls)
        BY <2>1
    <2>3. calls' \in [Workers -> Seq(Calls)] /\ running' \in [Workers -> 0..MaxCalls]
        <3>1. Head(calls[w]) \in 0..MaxCalls
            BY <2>2 DEF Calls
        <3> QED BY <1>1, <2>2, <3>1 DEF Take, TypeOK
    <2> QED BY <1>1, <2>3 DEF Take, TypeOK, mainVars, monitorVars
<1>2. ASSUME NEW ok \in BOOLEAN, Finish(w, ok) PROVE TypeOK'
    <2>1. [call |-> running[w], ok |-> ok] \in Response
        BY DEF TypeOK, Response
    <2>2. /\ Append(outputs[w], [call |-> running[w], ok |-> ok]) \in Seq(Response)
          /\ Append(responses[w], [call |-> running[w], ok |-> ok]) \in Seq(Response)
        BY <2>1 DEF TypeOK
    <2>3. /\ outputs' \in [Workers -> Seq(Response)]
          /\ responses' \in [Workers -> Seq(Response)]
        BY <1>2, <2>2 DEF Finish, HandleOutput, TypeOK
    <2>4. running' \in [Workers -> 0..MaxCalls]
        BY <1>2, ExecutorAssumption DEF Finish, TypeOK, None
    <2> QED BY <1>2, <2>3, <2>4 DEF Finish, TypeOK, mainVars, monitorVars
<1>3. ASSUME NEW ok \in BOOLEAN, SendOutput(w, ok) PROVE TypeOK'
    <2> DEFINE h == Head(outputs[w])
    <2>1. h \in Response /\ Tail(outputs[w]) \in Seq(Response)
        BY <1>3 DEF SendOutput, TypeOK
    <2>2. [h EXCEPT !.ok = @ /\ ok] \in Response
        BY <2>1 DEF Response
    <2>3. Append(responses[w], [h EXCEPT !.ok = @ /\ ok]) \in Seq(Response)
        BY <2>2 DEF TypeOK
    <2>4. /\ outputs' \in [Workers -> Seq(Response)]
          /\ responses' \in [Workers -> Seq(Response)]
        BY <1>3, <2>1, <2>3 DEF SendOutput, TypeOK
    <2> QED BY <1>3, <2>4 DEF SendOutput, TypeOK, mainVars, monitorVars
<1>4. CASE Die(w)
    <2>1. deaths' \in 0..MaxDeaths
        BY <1>4, ExecutorAssumption DEF Die, TypeOK
    <2> QED BY <1>4, <2>1 DEF Die, TypeOK, mainVars, monitorVars
<1> QED BY <1>1, <1>2, <1>3, <1>4 DEF WorkerStep, OutputStep

-----------------------------------------------------------------------------
(* What a step leaves alone stays true.                                    *)

LEMMA FuturesFrame ==
    /\ Hands /\ UNCHANGED <<main, last, status, left, target, cur>> => Hands'
    /\ QueueOrder /\ UNCHANGED <<status, futures, cur>> => QueueOrder'
    /\ PairedUnlessAbandoned /\ UNCHANGED <<status, left, got>>
           => PairedUnlessAbandoned'
    /\ Shutdown /\ UNCHANGED <<rpcUp, mqsUp, monitor>> => Shutdown'
BY DEF Hands, QueueOrder, PairedUnlessAbandoned, Abandoned, Shutdown

LEMMA WorkerFrame ==
    ASSUME NEW w \in Workers, WorkerOrder(w),
           UNCHANGED <<calls[w], running[w], outputs[w], responses[w]>>,
           \A c \in Through(w) : /\ reply'[c] = reply[c] /\ c \in 1..last'
                                 /\ c = last' => main' # "checked"
    PROVE  WorkerOrder(w)' /\ Through(w)' = Through(w) /\ Passes(w)
<1>1. /\ Answered(w)' = Answered(w) /\ Queued(w)' = Queued(w)
      /\ Executed(w)' = Executed(w) /\ Sent(w)' = Sent(w)
    BY DEF Answered, Queued, Executed, Sent
<1>2. Through(w)' = Through(w)
    BY <1>1 DEF Through
<1>3. /\ Below(Answered(w)', Queued(w)' \cup Executed(w)' \cup Sent(w)')
      /\ Below(Queued(w)', Executed(w)' \cup Sent(w)')
      /\ Below(Executed(w)', Sent(w)')
    BY <1>1 DEF WorkerOrder
<1>4. WorkerOrder(w)'
    BY <1>1, <1>2, <1>3 DEF WorkerOrder, Through
<1> QED BY <1>2, <1>4 DEF Passes

LEMMA AwaitedFrame ==
    ASSUME TypeOK, NEW w \in Workers, Awaited(w), Passes(w), mqsUp' => mqsUp,
           UNCHANGED <<status, left, reply, last, main>>,
           main = "sent" => last \in Calls
    PROVE  Awaited(w)'
<1> SUFFICES ASSUME (\A c \in Calls : ~Abandoned(c, w))'
             PROVE  /\ \A c \in Through(w)' : w \in reply[c] =>
                          \/ status[c] = "pending" /\ w \in left[c]
                          \/ c = last /\ (main = "sent" \/ ~mqsUp')
                    /\ \A c \in Calls : status[c] = "pending" /\ w \in left[c]
                                            => c \in Through(w)'
                    /\ main = "sent" /\ w \in reply[last] => last \in Through(w)'
    BY DEF Awaited
<1>1. \A c \in Calls : ~Abandoned(c, w)
    BY DEF Abandoned
<1>2. \A c \in Calls : w \in left[c] => w \in reply[c]
    BY DEF TypeOK
<1> QED BY <1>1, <1>2 DEF Awaited, Passes

LEMMA WorkerStepIInv ==
    ASSUME IInv, NEW v \in Workers,
           WorkerStep(v) \/ OutputStep(v) \/ Die(v)
    PROVE  IInv'
<1>1. /\ UNCHANGED <<mainVars, monitorVars>>
      /\ \A w \in Workers \ {v} :
             UNCHANGED <<calls[w], running[w], outputs[w], responses[w]>>
    <2>1. CASE Take(v)
        BY <2>1 DEF Take, IInv, TypeOK
    <2>2. ASSUME NEW ok \in BOOLEAN, Finish(v, ok)
          PROVE  /\ UNCHANGED <<mainVars, monitorVars>>
                 /\ \A w \in Workers \ {v} :
                     UNCHANGED <<calls[w], running[w], outputs[w], responses[w]>>
        BY <2>2 DEF Finish, HandleOutput, IInv, TypeOK
    <2>3. ASSUME NEW ok \in BOOLEAN, SendOutput(v, ok)
          PROVE  /\ UNCHANGED <<mainVars, monitorVars>>
                 /\ \A w \in Workers \ {v} :
                     UNCHANGED <<calls[w], running[w], outputs[w], responses[w]>>
        BY <2>3 DEF SendOutput, IInv, TypeOK
    <2>4. CASE Die(v)
        BY <2>4 DEF Die, IInv, TypeOK
    <2> QED BY <2>1, <2>2, <2>3, <2>4 DEF WorkerStep, OutputStep
<1>2. TypeOK'
    BY WorkerTyped DEF IInv
<1>3. ASSUME NEW w \in Workers PROVE WorkerOrder(w)' /\ Awaited(w)'
    <2>1. Passes(w)
        <3>1. CASE w # v
            BY <1>1, <3>1, WorkerFrame DEF IInv, mainVars, WorkerOrder
        <3>2. CASE w = v /\ Die(v)
            BY <1>1, <3>2, WorkerFrame DEF IInv, mainVars, WorkerOrder, Die
        <3> QED BY <3>1, <3>2, TakePasses, FinishPasses, SendPasses
                DEF IInv, WorkerStep, OutputStep
    <2>2. Awaited(w)'
        BY <1>1, <2>1, AwaitedFrame DEF IInv, mainVars, monitorVars, Hands
    <2> QED BY <2>1, <2>2 DEF Passes
<1> QED BY <1>1, <1>2, <1>3, FuturesFrame DEF IInv, mainVars, monitorVars

LEMMA MonitorIInv ==
    ASSUME IInv, MonitorStep
    PROVE  IInv'
<1>1. /\ UNCHANGED <<mainVars, calls, responses, running, outputs, deaths>>
      /\ TypeOK'
    BY DEF MonitorStep, NoticeDeath, TerminateWorkers, ShutdownResponses,
           DropRpcQueue, DropResponseQueues, FailureCallback, Step, workerVars,
           CancelResponses, IInv, TypeOK, mainVars
<1>2. Shutdown' /\ (mqsUp' => mqsUp)
    BY DEF MonitorStep, NoticeDeath, TerminateWorkers, ShutdownResponses,
           DropRpcQueue, DropResponseQueues, FailureCallback, Step,
           IInv, Shutdown
<1>3. ASSUME NEW w \in Workers PROVE WorkerOrder(w)' /\ Awaited(w)'
    <2>1. Passes(w)
        BY <1>1, WorkerFrame DEF IInv, mainVars, WorkerOrder
    <2>2. Awaited(w)'
        BY <1>1, <1>2, <2>1, AwaitedFrame DEF IInv, mainVars, Hands
    <2> QED BY <2>1, <2>2 DEF Passes
<1> QED BY <1>1, <1>2, <1>3, FuturesFrame DEF IInv, mainVars

-----------------------------------------------------------------------------
(* The main thread calls.                                                  *)

LEMMA ThroughCalls ==
    ASSUME IInv
    PROVE  /\ last \in Nat /\ MaxCalls \in Nat /\ last <= MaxCalls
           /\ Calls \subseteq Nat
           /\ \A w \in Workers : \A c \in Through(w) :
                  /\ c \in Calls /\ c \in 1..last /\ c <= last
                  /\ c = last => main # "checked"
<1>1. last \in 0..MaxCalls /\ MaxCalls \in Nat
    BY ExecutorAssumption DEF IInv, TypeOK
<1>2. ASSUME NEW w \in Workers, NEW c \in Through(w)
      PROVE  c \in 1..last /\ (c = last => main # "checked")
    BY DEF IInv, WorkerOrder
<1> QED BY <1>1, <1>2 DEF Calls

LEMMA BeginIInv ==
    ASSUME IInv, Begin
    PROVE  IInv'
<1>1. /\ main = "free" /\ main' = "checked" /\ last' = last + 1
      /\ last + 1 \in Calls /\ last \in Nat /\ rpcUp /\ mqsUp
      /\ status[last + 1] = "new" /\ left[last + 1] = {}
      /\ UNCHANGED <<status, left, got, futures, target, cur, calls, responses,
                     workerVars, monitorVars>>
    <2>1. last \in Nat /\ last < MaxCalls /\ last + 1 \in Calls
        BY ThroughCalls DEF Begin, Calls
    <2>2. status[last + 1] = "new" /\ left[last + 1] = {}
        BY <2>1 DEF IInv, Hands
    <2>3. rpcUp /\ mqsUp
        BY DEF Begin, IInv, Shutdown
    <2> QED BY <2>1, <2>2, <2>3 DEF Begin
<1>2. PICK ranks \in {Workers, {Output}} : reply' = [reply EXCEPT ![last + 1] = ranks]
    BY DEF Begin
<1>3. /\ reply' \in [Calls -> SUBSET Workers]
      /\ \A c \in Calls : c # last + 1 => reply'[c] = reply[c]
    BY <1>1, <1>2, ExecutorAssumption DEF IInv, TypeOK, Workers
<1>4. TypeOK'
    <2>1. \A c \in Calls : left[c] \subseteq reply'[c]
        BY <1>1, <1>3 DEF IInv, TypeOK
    <2>2. last' \in 0..MaxCalls
        BY <1>1 DEF Calls
    <2> QED BY <1>1, <1>3, <2>1, <2>2 DEF IInv, TypeOK, workerVars, monitorVars
<1>5. Hands'
    BY <1>1 DEF IInv, Hands, Calls, TypeOK, None
<1>6. QueueOrder' /\ PairedUnlessAbandoned' /\ Shutdown'
    BY <1>1, FuturesFrame DEF IInv, monitorVars
<1>7. ASSUME NEW w \in Workers PROVE WorkerOrder(w)' /\ Awaited(w)'
    <2>1. \A c \in Through(w) : c \in 1..last /\ c \in Calls /\ reply'[c] = reply[c]
        BY <1>1, <1>3, ThroughCalls
    <2>2. \A c \in Through(w) : c \in 1..last' /\ c # last'
        BY <1>1, <2>1
    <2>3. WorkerOrder(w)' /\ Through(w)' = Through(w)
        BY <1>1, <2>1, <2>2, WorkerFrame DEF IInv, workerVars
    <2>4. Awaited(w)'
        BY <1>1, <2>1, <2>3 DEF IInv, Awaited, Abandoned
    <2> QED BY <2>3, <2>4
<1> QED BY <1>4, <1>5, <1>6, <1>7 DEF IInv

LEMMA BroadcastIInv ==
    ASSUME IInv, Broadcast
    PROVE  IInv'
<1>1. /\ main = "checked" /\ last \in Calls /\ status[last] = "new"
      /\ main' = (IF rpcUp THEN "sent" ELSE "free")
      /\ rpcUp => calls' = [w \in Workers |-> Append(calls[w], last)]
      /\ ~rpcUp => calls' = calls
      /\ UNCHANGED <<last, reply, status, left, got, futures, target, cur,
                     responses, workerVars, monitorVars>>
    BY DEF Broadcast, IInv, Hands
<1>2. TypeOK'
    <2>1. \A w \in Workers : Append(calls[w], last) \in Seq(Calls)
        BY <1>1 DEF IInv, TypeOK
    <2>2. calls' \in [Workers -> Seq(Calls)]
        <3>1. calls \in [Workers -> Seq(Calls)]
            BY DEF IInv, TypeOK
        <3> QED BY <1>1, <2>1, <3>1
    <2> QED BY <1>1, <2>2 DEF IInv, TypeOK, workerVars, monitorVars
<1>3. Hands'
    BY <1>1 DEF IInv, Hands
<1>4. QueueOrder' /\ PairedUnlessAbandoned' /\ Shutdown'
    BY <1>1, FuturesFrame DEF IInv, monitorVars
<1>5. ASSUME NEW w \in Workers PROVE WorkerOrder(w)' /\ Awaited(w)'
    <2>1. \A c \in Through(w) : c \in 1..last /\ c # last /\ c < last
        BY <1>1, ThroughCalls
    <2>2. CASE rpcUp
        <3>1. calls'[w] = Append(calls[w], last) /\ last \in Nat
            BY <1>1, <2>2 DEF Calls
        <3>2. /\ Sent(w)' = Sent(w) \cup {last}
              /\ Increasing(calls[w])'
            <4>1. \A c \in Sent(w) : c < last
                BY <2>1 DEF Through
            <4>2. calls[w] \in Seq(Nat) /\ Increasing(calls[w])
                BY QueueTypes DEF IInv, WorkerOrder
            <4> QED BY <3>1, <4>1, <4>2, AppendEntries DEF Sent
        <3>3. /\ Answered(w)' = Answered(w) /\ Queued(w)' = Queued(w)
              /\ Executed(w)' = Executed(w)
            BY <1>1 DEF Answered, Queued, Executed, workerVars
        <3>4. Through(w)' = Through(w) \cup {last}
            BY <3>2, <3>3 DEF Through
        <3>5. /\ Below(Answered(w)', Queued(w)' \cup Executed(w)' \cup Sent(w)')
              /\ Below(Queued(w)', Executed(w)' \cup Sent(w)')
              /\ Below(Executed(w)', Sent(w)')
            BY <2>1, <3>2, <3>3 DEF IInv, WorkerOrder, Below, Through
        <3>6. \A c \in Through(w)' : c \in 1..last
            BY <1>1, <2>1, <3>4 DEF Calls
        <3>7. WorkerOrder(w)'
            BY <1>1, <2>2, <3>2, <3>3, <3>5, <3>6
               DEF IInv, WorkerOrder, workerVars
        <3>8. Awaited(w)'
            BY <1>1, <2>1, <2>2, <3>4 DEF IInv, Awaited, Abandoned
        <3> QED BY <3>7, <3>8
    <2>3. CASE ~rpcUp
        <3>1. WorkerOrder(w)' /\ Through(w)' = Through(w)
            BY <1>1, <2>1, <2>3, WorkerFrame DEF IInv, workerVars
        <3>2. Awaited(w)'
            BY <1>1, <2>1, <2>3, <3>1 DEF IInv, Awaited, Abandoned, monitorVars
        <3> QED BY <3>1, <3>2
    <2> QED BY <2>2, <2>3
<1> QED BY <1>2, <1>3, <1>4, <1>5 DEF IInv

\* A future is made for the newest call.
LEMMA FutureMade ==
    ASSUME IInv, MakeFuture, mqsUp \/ reply[last] = Workers
    PROVE  IInv'
<1>1. /\ main = "sent" /\ last \in Calls /\ status[last] = "new" /\ left[last] = {}
      /\ cur = None
      /\ status' = [status EXCEPT ![last] = "pending"]
      /\ left' = [left EXCEPT ![last] = Asked(last)]
      /\ futures' = Append(futures, last)
      /\ \/ target' = last /\ main' = "waiting"
         \/ target' = None /\ main' = "free"
      /\ UNCHANGED <<last, reply, got, cur, calls, responses, workerVars, monitorVars>>
    BY DEF MakeFuture, IInv, Hands
<1>2. /\ status' \in [Calls -> Statuses] /\ status'[last] = "pending"
      /\ left' \in [Calls -> SUBSET Workers] /\ left'[last] = Asked(last)
      /\ Asked(last) \subseteq reply[last]
      /\ mqsUp => Asked(last) = reply[last]
      /\ \A c \in Calls \ {last} : status'[c] = status[c] /\ left'[c] = left[c]
    BY <1>1 DEF IInv, TypeOK, Asked, Statuses
<1>3. TypeOK'
    <2>1. \A c \in Calls : left'[c] \subseteq reply'[c]
        BY <1>1, <1>2 DEF IInv, TypeOK
    <2>2. futures' \in Seq(Calls)
        BY <1>1 DEF IInv, TypeOK
    <2>3. target' \in 0..MaxCalls /\ main' \in {"free", "checked", "sent", "waiting"}
        BY <1>1, ExecutorAssumption DEF Calls, None
    <2> QED BY <1>1, <1>2, <2>1, <2>2, <2>3 DEF IInv, TypeOK, workerVars, monitorVars
<1>4. Hands'
    BY <1>1, <1>2 DEF IInv, Hands, Calls, None, TypeOK
<1>5. QueueOrder'
    <2>1. futures \in Seq(Nat) /\ last \in Nat
        <3>1. futures \in Seq(Calls) /\ Calls \subseteq Nat
            BY ThroughCalls DEF IInv, TypeOK
        <3> QED BY <3>1, SeqMonotone, ThroughCalls
    <2>2. \A c \in Entries(futures) : c \in Calls /\ c < last
        <3>1. Entries(futures) \subseteq Calls
            BY DEF IInv, TypeOK, Entries
        <3> QED BY <1>1, <3>1 DEF IInv, QueueOrder, Hands, Calls
    <2>3. Entries(futures') = Entries(futures) \cup {last} /\ Increasing(futures')
        BY <1>1, <2>1, <2>2, AppendEntries DEF IInv, QueueOrder
    <2>4. \A c \in Entries(futures') : status'[c] = "pending"
        BY <1>2, <2>2, <2>3 DEF IInv, QueueOrder
    <2>5. \A c \in Calls : status'[c] = "pending" => c \in Entries(futures')
        BY <1>1, <1>2, <2>3 DEF IInv, QueueOrder, None, Calls
    <2>6. \A c, d \in Calls : c < d /\ status'[c] = "pending" =>
              status'[d] \in {"new", "pending"}
        BY <1>1, <1>2 DEF IInv, QueueOrder, Hands, Calls
    <2> QED BY <1>1, <2>3, <2>4, <2>5, <2>6 DEF QueueOrder
<1>6. \A c \in Calls, w \in Workers : Abandoned(c, w) <=> Abandoned(c, w)'
    BY <1>1, <1>2 DEF Abandoned, Bad
<1>7. PairedUnlessAbandoned'
    BY <1>1, <1>6 DEF IInv, PairedUnlessAbandoned
<1>8. Shutdown'
    BY <1>1, FuturesFrame DEF IInv, monitorVars
<1>9. ASSUME NEW w \in Workers PROVE WorkerOrder(w)' /\ Awaited(w)'
    <2>1. /\ \A c \in Through(w) : c \in 1..last
          /\ \A c \in Through(w) : c \in Calls
        BY ThroughCalls
    <2>2. WorkerOrder(w)' /\ Through(w)' = Through(w)
        BY <1>1, <2>1, WorkerFrame DEF IInv, workerVars
    <2> SUFFICES ASSUME (\A c \in Calls : ~Abandoned(c, w))' PROVE Awaited(w)'
        BY <2>2 DEF Awaited
    <2>3. \A c \in Calls : ~Abandoned(c, w)
        BY <1>6
    <2>4. \A c \in Through(w) : w \in reply[c] =>
               \/ status'[c] = "pending" /\ w \in left'[c]
               \/ c = last /\ ~mqsUp
        BY <1>1, <1>2, <2>1, <2>3 DEF IInv, Awaited
    <2>5. \A c \in Calls : status'[c] = "pending" /\ w \in left'[c] => c \in Through(w)
        BY <1>1, <1>2, <2>3 DEF IInv, Awaited
    <2> QED BY <1>1, <2>2, <2>4, <2>5 DEF Awaited, monitorVars
<1> QED BY <1>3, <1>4, <1>5, <1>7, <1>8, <1>9 DEF IInv

LEMMA MakeFutureIInv ==
    ASSUME IInv, MakeFuture
    PROVE  IInv'
<1> SUFFICES ASSUME ~mqsUp, reply[last] # Workers PROVE IInv'
    BY FutureMade
<1>1. /\ main = "sent" /\ main' = "free"
      /\ UNCHANGED <<last, reply, status, left, got, futures, target, cur,
                     calls, responses, workerVars, monitorVars>>
    BY DEF MakeFuture
<1>2. TypeOK' /\ Hands'
    BY <1>1 DEF IInv, TypeOK, Hands, workerVars, monitorVars
<1>3. QueueOrder' /\ PairedUnlessAbandoned' /\ Shutdown'
    BY <1>1, FuturesFrame DEF IInv, monitorVars
<1>4. ASSUME NEW w \in Workers PROVE WorkerOrder(w)' /\ Awaited(w)'
    <2>1. WorkerOrder(w)' /\ Through(w)' = Through(w)
        BY <1>1, WorkerFrame DEF IInv, workerVars, WorkerOrder
    <2>2. Awaited(w)'
        BY <1>1, <2>1 DEF IInv, Awaited, Abandoned, monitorVars
    <2> QED BY <2>1, <2>2
<1> QED BY <1>2, <1>3, <1>4 DEF IInv

-----------------------------------------------------------------------------
(* The main thread waits for results.                                      *)

\* Only the main thread's place, target and the future in hand change.
LEMMA WaitingIInv ==
    ASSUME IInv, main \in {"free", "waiting"}, main' \in {"free", "waiting"},
           UNCHANGED <<last, reply, status, left, got, calls, responses,
                       workerVars, monitorVars>>,
           target' \in 0..MaxCalls, cur' \in 0..MaxCalls, futures' \in Seq(Calls),
           Hands', QueueOrder'
    PROVE  IInv'
<1>1. TypeOK'
    BY DEF IInv, TypeOK, workerVars, monitorVars
<1>2. PairedUnlessAbandoned' /\ Shutdown'
    BY FuturesFrame DEF IInv, monitorVars
<1>3. ASSUME NEW w \in Workers PROVE WorkerOrder(w)' /\ Awaited(w)'
    <2>1. WorkerOrder(w)' /\ Through(w)' = Through(w)
        BY WorkerFrame, ThroughCalls DEF IInv, workerVars
    <2>2. Awaited(w)'
        BY <2>1 DEF IInv, Awaited, Abandoned, monitorVars
    <2> QED BY <2>1, <2>2
<1> QED BY <1>1, <1>2, <1>3 DEF IInv

LEMMA ResultIInv ==
    ASSUME IInv, NEW c \in Calls, Result(c)
    PROVE  IInv'
<1>1. target' \in 0..MaxCalls /\ target' # None
    BY DEF Result, Calls, None
<1>2. Hands'
    BY <1>1 DEF Result, IInv, Hands
<1>3. QueueOrder'
    BY FuturesFrame DEF Result, IInv
<1> QED BY <1>1, <1>2, <1>3, WaitingIInv DEF Result, IInv, TypeOK

LEMMA ReturnResultIInv ==
    ASSUME IInv, ReturnResult
    PROVE  IInv'
<1>1. target' = None /\ target' \in 0..MaxCalls
    BY ThroughCalls DEF ReturnResult, None
<1>2. Hands'
    BY <1>1 DEF ReturnResult, IInv, Hands
<1>3. QueueOrder'
    BY FuturesFrame DEF ReturnResult, IInv
<1> QED BY <1>1, <1>2, <1>3, WaitingIInv DEF ReturnResult, IInv, TypeOK

LEMMA PopFutureIInv ==
    ASSUME IInv, PopFuture
    PROVE  IInv'
<1>1. /\ main = "waiting" /\ cur = None /\ status[target] = "pending"
      /\ cur' = futures[1] /\ futures' = RemoveAt(futures, 1)
      /\ UNCHANGED <<main, last, reply, status, left, got, target, calls,
                     responses, workerVars, monitorVars>>
    BY DEF PopFuture, NextPlace
<1>2. target \in Calls /\ target \in Entries(futures)
    BY <1>1 DEF IInv, Hands, QueueOrder, None, Calls
<1>3. futures \in Seq(Calls) /\ futures \in Seq(Nat) /\ futures # <<>>
    <2>1. futures \in Seq(Calls)
        BY DEF IInv, TypeOK
    <2>2. futures # <<>>
        BY <1>2 DEF Entries
    <2> QED BY <2>1, <2>2, SeqMonotone, ThroughCalls
<1>4. futures' = Tail(futures) /\ cur' = Head(futures) /\ futures' \in Seq(Calls)
    BY <1>1, <1>3, HeadRemoved
<1>5. /\ Entries(futures') = Entries(futures) \ {cur'} /\ cur' \in Entries(futures)
      /\ Increasing(futures') /\ \A c \in Entries(futures') : cur' < c
    BY <1>3, <1>4, TailEntries DEF IInv, QueueOrder
<1>6. cur' \in Calls /\ cur' \in 0..MaxCalls
    <2>1. Entries(futures) \subseteq Calls
        BY <1>3 DEF Entries
    <2> QED BY <1>5, <2>1 DEF Calls
<1>7. Hands'
    BY <1>1 DEF IInv, Hands
<1>8. QueueOrder'
    BY <1>1, <1>5 DEF IInv, QueueOrder, None, Calls
<1> QED BY <1>1, <1>4, <1>6, <1>7, <1>8, WaitingIInv DEF IInv, TypeOK

\* The future in hand is older than any other that is pending.
LEMMA CurIsOldest ==
    ASSUME IInv, cur # None
    PROVE  /\ cur \in Calls /\ status[cur] = "pending" /\ main = "waiting"
           /\ \A c \in Calls : status[c] = "pending" => cur <= c
           /\ \A c \in Calls : status[c] \notin {"new", "pending"} => c < cur
<1>1. cur \in Calls /\ status[cur] = "pending" /\ main = "waiting"
    BY ThroughCalls DEF IInv, TypeOK, QueueOrder, Hands, Calls, None
<1>2. ASSUME NEW c \in Calls, status[c] = "pending" PROVE cur <= c
    BY <1>1, <1>2, ThroughCalls DEF IInv, QueueOrder
<1>3. ASSUME NEW c \in Calls, status[c] \notin {"new", "pending"} PROVE c < cur
    BY <1>1, <1>3, ThroughCalls DEF IInv, QueueOrder
<1> QED BY <1>1, <1>2, <1>3

\* The future in hand is resolved.
LEMMA Resolve ==
    ASSUME IInv, cur # None, NEW s \in Bad \cup {"value"},
           status' = [status EXCEPT ![cur] = s], cur' = None,
           UNCHANGED <<main, last, futures, target>>,
           \A c \in Calls : left[c] = {} => left'[c] = {}
    PROVE  Hands' /\ QueueOrder'
<1>1. /\ cur \in Calls /\ main = "waiting" /\ status'[cur] = s
      /\ s \notin {"new", "pending"}
      /\ \A c \in Calls \ {cur} : status'[c] = status[c]
    BY CurIsOldest DEF IInv, TypeOK, Bad
<1>2. Hands'
    BY <1>1, CurIsOldest DEF IInv, Hands
<1>3. \A c \in Entries(futures) : c # cur /\ c \in Calls
    <2>1. Entries(futures) \subseteq Calls
        BY DEF IInv, TypeOK, Entries
    <2> QED BY <2>1, ThroughCalls DEF IInv, QueueOrder
<1>4. \A c, d \in Calls : c < d /\ status'[c] = "pending" =>
           status'[d] \in {"new", "pending"}
    <2> SUFFICES ASSUME NEW c \in Calls, NEW d \in Calls, c < d,
                        status'[c] = "pending", d = cur
                 PROVE  FALSE
        BY <1>1 DEF IInv, QueueOrder
    <2>1. status[c] = "pending" /\ cur <= c
        BY <1>1, CurIsOldest
    <2> QED BY <2>1, ThroughCalls
<1>5. QueueOrder'
    BY <1>1, <1>3, <1>4 DEF IInv, QueueOrder
<1> QED BY <1>2, <1>5

\* The future in hand is resolved without another response.
LEMMA ResolveIInv ==
    ASSUME IInv, cur # None, NEW s \in Bad \cup {"value"},
           s = "value" => left[cur] = {},
           status' = [status EXCEPT ![cur] = s], cur' = None,
           UNCHANGED <<main, last, reply, left, got, futures, target, calls,
                       responses, workerVars, monitorVars>>
    PROVE  IInv'
<1>1. /\ cur \in Calls /\ status[cur] = "pending" /\ main = "waiting"
      /\ status'[cur] = s /\ \A c \in Calls \ {cur} : status'[c] = status[c]
      /\ status' \in [Calls -> Statuses]
    BY CurIsOldest DEF IInv, TypeOK, Bad, Statuses
<1>2. TypeOK'
    <2>1. cur' \in 0..MaxCalls
        BY ThroughCalls DEF None
    <2> QED BY <1>1, <2>1 DEF IInv, TypeOK, workerVars, monitorVars
<1>3. Hands' /\ QueueOrder' /\ Shutdown'
    BY Resolve, FuturesFrame DEF IInv, monitorVars
<1>4. \A c \in Calls, w \in Workers : Abandoned(c, w) => Abandoned(c, w)'
    BY <1>1 DEF Abandoned, Bad
<1>5. PairedUnlessAbandoned'
    BY <1>4 DEF IInv, PairedUnlessAbandoned
<1>6. ASSUME NEW w \in Workers PROVE WorkerOrder(w)' /\ Awaited(w)'
    <2>1. WorkerOrder(w)' /\ Through(w)' = Through(w)
        BY WorkerFrame, ThroughCalls DEF IInv, workerVars
    <2> SUFFICES ASSUME (\A c \in Calls : ~Abandoned(c, w))' PROVE Awaited(w)'
        BY <2>1 DEF Awaited
    <2>2. /\ \A c \in Calls : ~Abandoned(c, w)
          /\ w \notin left[cur]
        BY <1>1, <1>4 DEF Abandoned
    <2>3. \A c \in Through(w) : w \in reply[c] =>
               \/ status'[c] = "pending" /\ w \in left'[c]
               \/ c = last /\ ~mqsUp
        BY <1>1, <2>2, ThroughCalls DEF IInv, Awaited
    <2>4. \A c \in Calls : status'[c] = "pending" /\ w \in left'[c] => c \in Through(w)
        BY <1>1, <2>2 DEF IInv, Awaited
    <2> QED BY <1>1, <2>1, <2>3, <2>4 DEF Awaited, monitorVars
<1> QED BY <1>2, <1>3, <1>5, <1>6 DEF IInv

LEMMA NextRankWaits ==
    ASSUME IInv, cur # None, left[cur] # {}
    PROVE  NextRank(cur) \in left[cur] /\ NextRank(cur) \in Workers
<1>1. left[cur] \subseteq Workers
    BY CurIsOldest DEF IInv, TypeOK
<1>2. Workers \subseteq Nat
    BY DEF Workers
<1>3. \E w \in left[cur] : \A v \in left[cur] : w <= v
    BY <1>1, <1>2, LeastElement
<1> QED BY <1>1, <1>3 DEF NextRank

\* The response at the head of a queue is the awaited one, unless an earlier
\* one was abandoned.
LEMMA HeadIsAwaited ==
    ASSUME IInv, cur # None, NEW w \in left[cur], responses[w] # <<>>
    PROVE  /\ w \in Workers
           /\ Head(responses[w]) \in Response /\ Tail(responses[w]) \in Seq(Response)
           /\ Head(responses[w]).call = cur \/ \E d \in Calls : Abandoned(d, w)
<1> DEFINE q == CallsOf(responses[w])
           c == Head(q)
<1>1. w \in Workers /\ w \in reply[cur]
    BY CurIsOldest DEF IInv, TypeOK
<1>2. /\ q \in Seq(Nat) /\ q # <<>> /\ Head(responses[w]).call = c
      /\ Head(responses[w]) \in Response /\ Tail(responses[w]) \in Seq(Response)
    BY <1>1, QueueTypes, CallsOfSequences DEF IInv
<1>3. c \in Entries(q) /\ \A d \in Entries(q) : c <= d
    BY <1>1, <1>2, TailEntries DEF IInv, WorkerOrder
<1>4. c \in Answered(w) /\ c \in Through(w) /\ c \in Calls
    BY <1>1, <1>3, ThroughCalls DEF Answered, Through
<1>5. \A d \in Through(w) : c <= d
    <2>1. WorkerOrder(w)
        BY <1>1 DEF IInv
    <2>2. \A d \in Queued(w) \cup Executed(w) \cup Sent(w) : c < d
        BY <1>4, <2>1 DEF WorkerOrder, Below
    <2>3. \A d \in Queued(w) \cup Executed(w) \cup Sent(w) : d \in Nat /\ c \in Nat
        BY <1>1, <1>4, ThroughCalls DEF Through
    <2> QED BY <1>3, <2>2, <2>3 DEF Through, Answered
<1>6. ASSUME \A d \in Calls : ~Abandoned(d, w) PROVE c = cur
    <2>1. Awaited(w) /\ WorkerOrder(w)
        BY <1>1 DEF IInv
    <2>2. cur \in Through(w)
        BY <1>6, <2>1, CurIsOldest DEF Awaited
    <2>3. c <= cur /\ cur <= last
        BY <1>1, <1>5, <2>2, ThroughCalls
    <2>4. w \in reply[c]
        BY <1>4, <2>1 DEF WorkerOrder
    <2>5. CASE status[c] = "pending"
        <3>1. cur <= c
            BY <1>4, <2>5, CurIsOldest
        <3> QED BY <1>4, <2>3, <3>1, CurIsOldest, ThroughCalls
    <2>6. CASE c = last
        BY <1>4, <2>3, <2>6, CurIsOldest, ThroughCalls
    <2> QED BY <1>4, <1>6, <2>1, <2>4, <2>5, <2>6 DEF Awaited
<1> QED BY <1>1, <1>2, <1>6

LEMMA ReadResponseIInv ==
    ASSUME IInv, ReadResponse
    PROVE  IInv'
<1>1. PICK w \in Workers : w = NextRank(cur) /\ w \in left[cur]
    BY NextRankWaits DEF ReadResponse
<1>2. PICK r : r = Head(responses[w])
    OBVIOUS
<1>3. /\ cur # None /\ left[cur] # {} /\ responses[w] # <<>>
      /\ responses' = [responses EXCEPT ![w] = Tail(@)]
      /\ got' = [got EXCEPT ![cur][w] = r]
      /\ left' = [left EXCEPT ![cur] = @ \ {w}]
      /\ IF r.ok THEN UNCHANGED <<status, cur>>
                 ELSE /\ status' = [status EXCEPT ![cur] = "failed"]
                      /\ cur' = None
      /\ UNCHANGED <<main, last, reply, futures, target, calls, workerVars, monitorVars>>
    BY <1>1, <1>2 DEF ReadResponse
<1>4. /\ w \in left[cur] /\ w \in Workers /\ r \in Response
      /\ Tail(responses[w]) \in Seq(Response)
      /\ r.call = cur \/ \E d \in Calls : Abandoned(d, w)
    BY <1>1, <1>2, <1>3, HeadIsAwaited
<1>5. /\ cur \in Calls /\ status[cur] = "pending" /\ main = "waiting"
      /\ left' \in [Calls -> SUBSET Workers] /\ left'[cur] = left[cur] \ {w}
      /\ \A c \in Calls \ {cur} : left'[c] = left[c] /\ status'[c] = status[c]
      /\ status' \in [Calls -> Statuses]
      /\ status'[cur] \in {"pending", "failed"}
    BY <1>3, <1>4, CurIsOldest DEF IInv, TypeOK, Statuses
<1>6. /\ got' \in [Calls -> [Workers -> Response]] /\ got'[cur][w] = r
      /\ \A c \in Calls, v \in Workers : c # cur \/ v # w => got'[c][v] = got[c][v]
    BY <1>3, <1>4, <1>5 DEF IInv, TypeOK
<1>7. TypeOK'
    <2>1. cur' \in 0..MaxCalls
        <3>1. cur \in 0..MaxCalls /\ None \in 0..MaxCalls
            BY ThroughCalls DEF IInv, TypeOK, None
        <3> QED BY <1>3, <3>1
    <2>2. responses' \in [Workers -> Seq(Response)]
        BY <1>3, <1>4 DEF IInv, TypeOK
    <2>3. \A c \in Calls : left'[c] \subseteq reply'[c]
        BY <1>3, <1>5 DEF IInv, TypeOK
    <2> QED BY <1>3, <1>5, <1>6, <2>1, <2>2, <2>3
            DEF IInv, TypeOK, workerVars, monitorVars
<1>8. Hands' /\ QueueOrder'
    <2>1. \A c \in Calls : left[c] = {} => left'[c] = {}
        BY <1>5
    <2>2. CASE r.ok
        <3>1. QueueOrder'
            BY <1>3, <2>2, FuturesFrame DEF IInv
        <3>2. Hands'
            BY <1>3, <2>1, <2>2 DEF IInv, Hands
        <3> QED BY <3>1, <3>2
    <2>3. CASE ~r.ok
        BY <1>3, <2>1, <2>3, Resolve DEF Bad
    <2> QED BY <2>2, <2>3
<1>9. Shutdown'
    BY <1>3, FuturesFrame DEF IInv, monitorVars
<1>10. \A c \in Calls, v \in Workers :
          Abandoned(c, v) => Abandoned(c, v)' /\ c < cur
    <2> SUFFICES ASSUME NEW c \in Calls, NEW v \in Workers, Abandoned(c, v)
                 PROVE  Abandoned(c, v)' /\ c < cur
        OBVIOUS
    <2>1. status[c] \in Bad /\ status[c] \notin {"new", "pending"} /\ v \in left[c]
        BY DEF Abandoned, Bad
    <2>2. c < cur /\ c # cur
        BY <1>3, <1>5, <2>1, CurIsOldest
    <2> QED BY <1>5, <2>1, <2>2 DEF Abandoned
<1>11. PairedUnlessAbandoned'
    <2> SUFFICES ASSUME NEW c \in Calls, NEW v \in Workers
                 PROVE  \/ got'[c][v].call \in {None, c}
                        \/ \E d \in Calls : d < c /\ Abandoned(d, v)'
        BY DEF PairedUnlessAbandoned
    <2>1. CASE c = cur /\ v = w
        BY <1>4, <1>6, <1>10, <2>1
    <2>2. CASE c # cur \/ v # w
        BY <1>6, <1>10, <2>2 DEF IInv, PairedUnlessAbandoned
    <2> QED BY <2>1, <2>2
<1>12. WorkerOrder(w)' /\ Through(w)' = Through(w) \ {r.call} /\ r.call \in Through(w)
    <2> DEFINE q == CallsOf(responses[w])
    <2>1. /\ q \in Seq(Nat) /\ q # <<>> /\ r.call = Head(q)
          /\ CallsOf(responses[w])' = Tail(q)
        BY <1>2, <1>3, <1>4, QueueTypes, CallsOfSequences DEF IInv, TypeOK
    <2>2. /\ Entries(Tail(q)) = Entries(q) \ {r.call} /\ r.call \in Entries(q)
          /\ Increasing(Tail(q))
        BY <1>4, <2>1, TailEntries DEF IInv, WorkerOrder
    <2>3. /\ Answered(w)' = Answered(w) \ {r.call} /\ r.call \in Answered(w)
          /\ Queued(w)' = Queued(w) /\ Executed(w)' = Executed(w) /\ Sent(w)' = Sent(w)
        BY <1>3, <2>1, <2>2 DEF Answered, Queued, Executed, Sent, workerVars
    <2>4. WorkerOrder(w)
        BY <1>4 DEF IInv
    <2>5. r.call \notin Queued(w) \cup Executed(w) \cup Sent(w)
        BY <1>4, <2>3, <2>4, ThroughCalls DEF WorkerOrder, Below, Through
    <2>6. Through(w)' = Through(w) \ {r.call} /\ r.call \in Through(w)
        BY <2>3, <2>5 DEF Through
    <2>7. /\ Below(Answered(w)', Queued(w)' \cup Executed(w)' \cup Sent(w)')
          /\ Below(Queued(w)', Executed(w)' \cup Sent(w)')
          /\ Below(Executed(w)', Sent(w)')
        BY <2>3, <2>4 DEF WorkerOrder, Below
    <2>8. WorkerOrder(w)'
        BY <1>3, <2>1, <2>2, <2>3, <2>4, <2>6, <2>7 DEF WorkerOrder, workerVars
    <2> QED BY <2>6, <2>8
<1>13. ASSUME NEW v \in Workers PROVE WorkerOrder(v)' /\ Awaited(v)'
    <2>1. CASE v # w
        <3>1. WorkerOrder(v)' /\ Through(v)' = Through(v)
            BY <1>3, <2>1, WorkerFrame, ThroughCalls DEF IInv, workerVars, TypeOK
        <3> SUFFICES ASSUME (\A c \in Calls : ~Abandoned(c, v))' PROVE Awaited(v)'
            BY <3>1 DEF Awaited
        <3>2. \A c \in Calls : ~Abandoned(c, v)
            BY <1>10
        <3>3. v \in left[cur] => status'[cur] = "pending"
            BY <1>5, <2>1 DEF Abandoned, Bad
        <3>4. \A c \in Through(v) : v \in reply[c] =>
                   \/ status'[c] = "pending" /\ v \in left'[c]
                   \/ c = last /\ ~mqsUp
            BY <1>5, <2>1, <3>2, <3>3, ThroughCalls DEF IInv, Awaited
        <3>5. \A c \in Calls : status'[c] = "pending" /\ v \in left'[c] => c \in Through(v)
            BY <1>5, <3>2 DEF IInv, Awaited
        <3> QED BY <1>3, <1>5, <3>1, <3>4, <3>5 DEF Awaited, monitorVars
    <2>2. CASE v = w
        <3> SUFFICES ASSUME (\A c \in Calls : ~Abandoned(c, w))' PROVE Awaited(w)'
            BY <1>12, <2>2 DEF Awaited
        <3>1. \A c \in Calls : ~Abandoned(c, w)
            BY <1>10
        <3>2. r.call = cur
            BY <1>4, <3>1
        <3>3. \A c \in Through(w) \ {cur} : w \in reply[c] =>
                   \/ status'[c] = "pending" /\ w \in left'[c]
                   \/ c = last /\ ~mqsUp
            BY <1>4, <1>5, <3>1, ThroughCalls DEF IInv, Awaited
        <3>4. \A c \in Calls : status'[c] = "pending" /\ w \in left'[c]
                                   => c \in Through(w) \ {cur}
            BY <1>4, <1>5, <3>1 DEF IInv, Awaited
        <3> QED BY <1>3, <1>5, <1>12, <3>2, <3>3, <3>4 DEF Awaited, monitorVars
    <2> QED BY <2>1, <2>2
<1> QED BY <1>7, <1>8, <1>9, <1>11, <1>13 DEF IInv

-----------------------------------------------------------------------------
(* The invariant and what follows from it.                                 *)

LEMMA InitIInv == Init => IInv
<1> SUFFICES ASSUME Init PROVE IInv
    OBVIOUS
<1>1. TypeOK
    <2>1. NoResponse \in Response /\ None \in 0..MaxCalls
        BY ExecutorAssumption DEF NoResponse, Response, None
    <2>2. /\ <<>> \in Seq(Calls) /\ <<>> \in Seq(Response)
          /\ [w \in Workers |-> NoResponse] \in [Workers -> Response]
        BY <2>1
    <2>3. /\ status \in [Calls -> Statuses] /\ last \in 0..MaxCalls
          /\ deaths \in 0..MaxDeaths
        BY ExecutorAssumption DEF Init, Statuses
    <2> QED BY <2>1, <2>2, <2>3 DEF Init, TypeOK
<1>2. Hands /\ QueueOrder /\ Shutdown
    BY DEF Init, Hands, QueueOrder, Shutdown, Entries, Increasing
<1>3. ASSUME NEW w \in Workers PROVE WorkerOrder(w) /\ Awaited(w)
    <2>1. /\ calls[w] = <<>> /\ CallsOf(outputs[w]) = <<>>
          /\ CallsOf(responses[w]) = <<>> /\ running[w] = None
        BY <1>3 DEF Init, CallsOf
    <2>2. /\ Answered(w) = {} /\ Queued(w) = {} /\ Executed(w) = {}
          /\ Sent(w) = {} /\ Through(w) = {}
        BY <2>1 DEF Answered, Queued, Executed, Sent, Through, Entries
    <2> QED BY <1>3, <2>1, <2>2 DEF Init, WorkerOrder, Awaited, Below, Increasing
<1>4. PairedUnlessAbandoned
    BY DEF Init, PairedUnlessAbandoned, NoResponse
<1> QED BY <1>1, <1>2, <1>3, <1>4 DEF IInv

LEMMA NextIInv == IInv /\ [Next]_vars => IInv'
<1> SUFFICES ASSUME IInv, [Next]_vars PROVE IInv'
    OBVIOUS
<1>1. CASE Begin
    BY <1>1, BeginIInv
<1>2. ASSUME NEW c \in Calls, Result(c) PROVE IInv'
    BY <1>2, ResultIInv
<1>3. CASE MainStep
    <2>1. CASE SetResult
        BY <2>1, ResolveIInv DEF SetResult
    <2>2. ASSUME NEW s \in {"timeout", "cancelled"}, DequeueRaises(s) PROVE IInv'
        BY <2>2, ResolveIInv DEF DequeueRaises, Bad
    <2> QED BY <1>3, <2>1, <2>2, BroadcastIInv, MakeFutureIInv, PopFutureIInv,
               ReturnResultIInv, ReadResponseIInv DEF MainStep
<1>4. ASSUME NEW w \in Workers, WorkerStep(w) \/ OutputStep(w) \/ Die(w) PROVE IInv'
    BY <1>4, WorkerStepIInv
<1>5. CASE MonitorStep
    BY <1>5, MonitorIInv
<1>6. CASE UNCHANGED vars
    <2>1. TypeOK' /\ Hands' /\ QueueOrder' /\ Shutdown' /\ PairedUnlessAbandoned'
        BY <1>6, FuturesFrame DEF vars, IInv, TypeOK
    <2>2. ASSUME NEW w \in Workers PROVE WorkerOrder(w)' /\ Awaited(w)'
        <3>1. WorkerOrder(w)' /\ Through(w)' = Through(w)
            BY <1>6, WorkerFrame, ThroughCalls DEF vars, IInv
        <3>2. Awaited(w)'
            BY <1>6, <3>1 DEF vars, IInv, Awaited, Abandoned
        <3> QED BY <3>1, <3>2
    <2> QED BY <2>1, <2>2 DEF IInv
<1> QED BY <1>1, <1>2, <1>3, <1>4, <1>5, <1>6 DEF Next

LEMMA SpecIInv == Spec => []IInv
BY InitIInv, NextIInv, PTL DEF Spec

\* The types, for any number of workers and calls.
THEOREM RPCTypes == Spec => []TypeOK
<1>1. IInv => TypeOK
    BY DEF IInv
<1> QED BY <1>1, SpecIInv, PTL

\* Futures resolve in the order of the calls and stay reachable, whoever asks
\* for which result first, whatever fails, times out or dies.
THEOREM FuturesResolveInOrder == Spec => []FuturesInOrder
<1>1. IInv => FuturesInOrder
    BY DEF IInv, QueueOrder, FuturesInOrder, Entries
<1> QED BY <1>1, SpecIInv, PTL

\* A response goes to another call only on a rank whose response to an earlier
\* call was abandoned: by a failure on another rank, a timeout or the shutdown.
THEOREM MispairingsFollowAbandonment == Spec => []PairedUnlessAbandoned
<1>1. IInv => PairedUnlessAbandoned
    BY DEF IInv
<1> QED BY <1>1, SpecIInv, PTL

\* No call has been abandoned before all its ranks were read.
NoneAbandoned == \A c \in Calls, w \in Workers : ~Abandoned(c, w)

\* As long as none is, every response is given to its own call.
THEOREM ResponsesStayPaired == Spec => [](NoneAbandoned => ResponsesPaired)
<1>1. IInv => (NoneAbandoned => ResponsesPaired)
    BY DEF IInv, PairedUnlessAbandoned, NoneAbandoned, ResponsesPaired
<1> QED BY <1>1, SpecIInv, PTL
=============================================================================
