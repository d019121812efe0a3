------------------------------ MODULE ShmRing -------------------------------
(***************************************************************************)
(* One ring of a shared-memory connection: a producer that writes frames   *)
(* in place and moves write_pos, a consumer in another process that reads  *)
(* them and moves read_pos, and the eventfd by which the producer wakes    *)
(* the consumer's event loop, only when the ring was empty.                *)
(*                                                                         *)
(* A cell of the ring holds one byte, which is told by where it comes      *)
(* from: byte j of the length prefix of a frame of n bytes, or byte i of   *)
(* the payload of the k-th frame.                                          *)
(*                                                                         *)
(* Both cursors are stored with release and loaded with acquire order, so  *)
(* a store may still be invisible to the other process when the same       *)
(* thread makes its next load.  wOwn and rOwn are the cursors as their     *)
(* writer sees them, write_pos and read_pos as memory holds them; they    *)
(* always agree when delayed is FALSE (sequential consistency).            *)
(***************************************************************************)
EXTENDS Integers, Sequences

CONSTANTS Capacity,        \* cells of the ring
          Prefix,          \* cells of a length prefix (sizeof(uint32_t))
          Lengths,         \* frame lengths a sender asks for
          MaxFrames,       \* bound on the number of send calls
          Orders           \* of BOOLEAN: may a cursor store be delayed past a later load

ASSUME CapacityAssumption == Capacity \in Nat /\ Prefix \in Nat \ {0} /\ Capacity > Prefix + 1
ASSUME LengthsAssumption == Lengths \subseteq Nat \ {0}
ASSUME BoundAssumption == MaxFrames \in Nat /\ Orders \subseteq BOOLEAN

VARIABLES role,            \* which ring this is: "request" or "response"
          delayed,         \* the memory order of this behaviour, of Orders
          data,            \* the cells
          write_pos, wOwn, \* the write cursor in memory and as the producer sees it
          read_pos, rOwn,  \* the read cursor in memory and as the consumer sees it
          efd,             \* is the consumer's eventfd readable
          prod,            \* the producer's program counter and locals
          cons,            \* the consumer's program counter and locals
          calls,           \* send calls made so far
          sent, got        \* history: frames published, frames returned by recv

vars == <<role, delayed, data, write_pos, wOwn, read_pos, rOwn, efd, prod, cons, calls, sent, got>>

Positions == 0 .. Capacity - 1

\* Mutant: the cursor is left one past the last cell.
shmAdvancePosNoWrap(pos, delta) == IF delta > Capacity - pos THEN delta - (Capacity - pos) ELSE pos + delta

\* shmAdvancePos: the cursor delta cells further, without leaving 32 bits.
shmAdvancePos(pos, delta) == IF delta >= Capacity - pos THEN delta - (Capacity - pos) ELSE pos + delta

\* shmRingAvailableRead and shmRingAvailableWrite for cursors w and r: one
\* cell stays free so that full and empty differ.
shmRingAvailableRead(w, r) == IF w >= r THEN w - r ELSE Capacity - r + w
\* Mutant: no cell is kept free.
shmRingAvailableWriteAll(w, r) == Capacity - shmRingAvailableRead(w, r)
shmRingAvailableWrite(w, r) == Capacity - 1 - shmRingAvailableRead(w, r)

LenByte(n, j) == <<"len", n, j>>
PayByte(k, i) == <<"pay", k, i>>
Payload(k, n) == [i \in 1 .. n |-> PayByte(k, i)]

\* How far cell c lies beyond pos.
Beyond(pos, c) == shmRingAvailableRead(c, pos)

\* The ring after shmRingWriteFrame has copied prefix and payload to pos on,
\* wrapping at the end.
Written(pos, k, n) ==
  [c \in Positions |->
     IF Beyond(pos, c) < Prefix THEN LenByte(n, Beyond(pos, c))
     ELSE IF Beyond(pos, c) < Prefix + n THEN PayByte(k, Beyond(pos, c) - Prefix + 1)
     ELSE data[c]]

\* The length decoded from the prefix at pos; 0 when its bytes make no length.
LengthAt(pos) ==
  LET fits(n) == \A j \in 0 .. Prefix - 1 : data[(pos + j) % Capacity] = LenByte(n, j)
  IN  IF \E n \in Lengths : fits(n) THEN CHOOSE n \in Lengths : fits(n) ELSE 0

\* The bytes shmRingRead copies out from pos.
Copied(pos, n) == [i \in 1 .. n |-> data[(pos + i - 1) % Capacity]]

ProducerIdle == [pc |-> "idle", len |-> 0, start |-> 0, was_empty |-> FALSE]
ConsumerIdle == [pc |-> "sleep", len |-> 0]

\* shmInitLayout: both cursors at zero.
Init == /\ role \in {"request", "response"} /\ delayed \in Orders
        /\ data = [c \in Positions |-> <<"zero", 0, 0>>]
        /\ write_pos = 0 /\ wOwn = 0 /\ read_pos = 0 /\ rOwn = 0
        /\ efd = FALSE /\ prod = ProducerIdle /\ cons = ConsumerIdle
        /\ calls = 0 /\ sent = << >> /\ got = << >>

consumerSide == <<read_pos, rOwn, cons, got>>
producerSide == <<data, write_pos, wOwn, prod, calls, sent>>

-----------------------------------------------------------------------------
(* The producer: sendAll, shmRingSendFrameWithinTimeout, shmRingSendFrame.   *)

\* sendAll is called with a frame of n bytes; one that can never fit is
\* refused at once.
SendAll(n) ==
  /\ prod.pc = "idle" /\ calls < MaxFrames
  /\ calls' = calls + 1
  /\ prod' = IF Prefix + n > Capacity - 1 THEN prod ELSE [prod EXCEPT !.pc = "try", !.len = n]
  /\ UNCHANGED <<role, delayed, data, write_pos, wOwn, efd, sent, consumerSide>>

\* shmRingSendFrame, first half: is the ring empty before the frame goes in.
ObserveEmpty ==
  /\ prod.pc = "try"
  /\ prod' = [prod EXCEPT !.pc = "space", !.start = wOwn,
                          !.was_empty = shmRingAvailableRead(wOwn, read_pos) = 0]
  /\ UNCHANGED <<role, delayed, data, write_pos, wOwn, efd, calls, sent, consumerSide>>

\* shmRingWriteFrame copies the frame when it fits.
WriteFrame ==
  /\ prod.pc = "space"
  /\ shmRingAvailableWrite(wOwn, read_pos) >= Prefix + prod.len
  /\ data' = Written(wOwn, Len(sent) + 1, prod.len)
  /\ prod' = [prod EXCEPT !.pc = "publish"]
  /\ UNCHANGED <<role, delayed, write_pos, wOwn, efd, calls, sent, consumerSide>>

\* The ring is full: sleep and try again, or give up when the time is over.
RingFull ==
  /\ prod.pc = "space"
  /\ shmRingAvailableWrite(wOwn, read_pos) < Prefix + prod.len
  /\ prod' \in {[prod EXCEPT !.pc = "try"], ProducerIdle}
  /\ UNCHANGED <<role, delayed, data, write_pos, wOwn, efd, calls, sent, consumerSide>>

\* The release store of write_pos ends shmRingWriteFrame.
Publish ==
  /\ prod.pc = "publish"
  /\ wOwn' = shmAdvancePos(wOwn, Prefix + prod.len)
  /\ write_pos' = IF delayed THEN write_pos ELSE wOwn'
  /\ sent' = Append(sent, Payload(Len(sent) + 1, prod.len))
  /\ prod' = [prod EXCEPT !.pc = "recheck"]
  /\ UNCHANGED <<role, delayed, data, efd, calls, consumerSide>>

\* Mutant: the ring is only looked at before the frame goes in.
RecheckNothing ==
  /\ prod.pc = "recheck"
  /\ prod' = IF prod.was_empty THEN [prod EXCEPT !.pc = "notify"] ELSE ProducerIdle
  /\ UNCHANGED <<role, delayed, data, write_pos, wOwn, efd, calls, sent, consumerSide>>

\* The ring counts as empty also when the consumer has meanwhile drained it
\* up to where the frame starts.
Recheck ==
  /\ prod.pc = "recheck"
  /\ prod' = IF prod.was_empty \/ read_pos = prod.start THEN [prod EXCEPT !.pc = "notify"] ELSE ProducerIdle
  /\ UNCHANGED <<role, delayed, data, write_pos, wOwn, efd, calls, sent, consumerSide>>

\* eventFdNotify is a system call: the kernel's lock makes the store visible.
Notify ==
  /\ prod.pc = "notify"
  /\ efd' = TRUE
  /\ write_pos' = wOwn
  /\ prod' = ProducerIdle
  /\ UNCHANGED <<role, delayed, data, wOwn, calls, sent, consumerSide>>

-----------------------------------------------------------------------------
(* The consumer: the event loop's callback and the drain loop it runs.       *)

\* The request ring is read by the server: the poll event consumes the
\* eventfd once and scans.  The response ring is read by the client, whose
\* drain loop consumes the eventfd before every look at the ring.
Wake ==
  /\ cons.pc = "sleep" /\ efd
  /\ IF role = "request"
       THEN efd' = FALSE /\ cons' = [cons EXCEPT !.pc = "inspect"]
       ELSE efd' = efd /\ cons' = [cons EXCEPT !.pc = "consume"]
  /\ UNCHANGED <<role, delayed, read_pos, rOwn, got, producerSide>>

ConsumeReadiness ==
  /\ cons.pc = "consume"
  /\ efd' = FALSE
  /\ cons' = [cons EXCEPT !.pc = "inspect"]
  /\ UNCHANGED <<role, delayed, read_pos, rOwn, got, producerSide>>

\* shmInspectFrame: no complete frame, a broken ring, or a frame.
Inspect ==
  /\ cons.pc = "inspect"
  /\ LET avail == shmRingAvailableRead(write_pos, rOwn)
         n     == LengthAt(rOwn)
     IN  cons' = IF avail < Prefix THEN ConsumerIdle
                 ELSE IF n = 0 \/ n > Capacity - 1 - Prefix THEN [ConsumerIdle EXCEPT !.pc = "error"]
                 ELSE IF Prefix + n > avail THEN ConsumerIdle
                 ELSE [pc |-> "prefix", len |-> n]
  /\ UNCHANGED <<role, delayed, read_pos, rOwn, efd, got, producerSide>>

\* The consumer's store of read_pos, visible at once or after FlushRead.
storeReadPos(pos) == /\ rOwn' = pos
                     /\ read_pos' = IF delayed THEN read_pos ELSE pos

\* Mutant: the whole frame is given back before it is copied.
TakePrefixAll ==
  /\ cons.pc = "prefix"
  /\ read_pos' = shmAdvancePos(rOwn, Prefix + cons.len)
  /\ rOwn' = shmAdvancePos(rOwn, Prefix)
  /\ cons' = [cons EXCEPT !.pc = "copy"]
  /\ UNCHANGED <<role, delayed, efd, got, producerSide>>

\* shmRingRecvFrame gives the prefix back to the producer before it copies.
TakePrefix ==
  /\ cons.pc = "prefix"
  /\ storeReadPos(shmAdvancePos(rOwn, Prefix))
  /\ cons' = [cons EXCEPT !.pc = "copy"]
  /\ UNCHANGED <<role, delayed, efd, got, producerSide>>

\* shmRingRead copies the payload and moves the cursor; fewer bytes than the
\* prefix said roll it back and break the connection.
ReadPayload ==
  /\ cons.pc = "copy"
  /\ IF shmRingAvailableRead(write_pos, rOwn) >= cons.len
       THEN /\ got' = Append(got, Copied(rOwn, cons.len))
            /\ cons' = [cons EXCEPT !.pc = "advance"]
       ELSE /\ got' = got
            /\ cons' = [cons EXCEPT !.pc = "error"]
  /\ UNCHANGED <<role, delayed, read_pos, rOwn, efd, producerSide>>

\* The drain loop goes round until the ring has no complete frame.
Advance ==
  /\ cons.pc = "advance"
  /\ storeReadPos(shmAdvancePos(rOwn, cons.len))
  /\ cons' = [ConsumerIdle EXCEPT !.pc = IF role = "request" THEN "inspect" ELSE "consume"]
  /\ UNCHANGED <<role, delayed, efd, got, producerSide>>

-----------------------------------------------------------------------------
\* The request eventfd is the server's one master eventfd: other clients and
\* the accept of a new one signal it as well.
OtherNotify ==
  /\ role = "request" /\ ~ efd
  /\ efd' = TRUE
  /\ UNCHANGED <<role, delayed, consumerSide, producerSide>>

\* A delayed store becomes visible.
FlushWrite == /\ write_pos # wOwn
              /\ write_pos' = wOwn
              /\ UNCHANGED <<role, delayed, data, wOwn, efd, prod, calls, sent, consumerSide>>

FlushRead == /\ read_pos # rOwn
             /\ read_pos' = rOwn
             /\ UNCHANGED <<role, delayed, rOwn, efd, cons, got, producerSide>>

Producer == \/ \E n \in Lengths : SendAll(n)
            \/ ObserveEmpty \/ WriteFrame \/ RingFull \/ Publish \/ Recheck \/ Notify
Consumer == Wake \/ ConsumeReadiness \/ Inspect \/ TakePrefix \/ ReadPayload \/ Advance
Flush == FlushWrite \/ FlushRead

Next == Producer \/ Consumer \/ Flush \/ OtherNotify
Spec == Init /\ [][Next]_vars

\* The consumer's event loop runs, a producer inside a call goes on, and no
\* store stays invisible for ever.  Nobody is obliged to call send.
Fairness == /\ WF_vars(Consumer)
            /\ WF_vars(ObserveEmpty \/ WriteFrame \/ Publish \/ Recheck \/ Notify)
            /\ WF_vars(FlushWrite) /\ WF_vars(FlushRead)
FairSpec == Spec /\ Fairness

-----------------------------------------------------------------------------
(* Properties                                                                *)

TypeOK ==
  /\ role \in {"request", "response"} /\ {efd, delayed} \subseteq BOOLEAN
  /\ {write_pos, wOwn, read_pos, rOwn} \subseteq Positions
  /\ prod.pc \in {"idle", "try", "space", "publish", "recheck", "notify"}
  /\ cons.pc \in {"sleep", "consume", "inspect", "prefix", "copy", "advance", "error"}
  /\ prod.start \in Positions /\ prod.was_empty \in BOOLEAN
  /\ prod.len \in Lengths \cup {0} /\ cons.len \in Lengths \cup {0}
  /\ calls \in 0 .. MaxFrames /\ Len(sent) <= calls

\* No interleaving of writer and reader shows the reader a torn or missing
\* length prefix: recv and peekFrameSize never report a malformed ring that
\* only well-formed frames were written to.
NeverMalformed == cons.pc # "error"

\* The ring notifies on every change from empty to non-empty, also when the
\* consumer drains it while a frame is going in: once nobody is inside a call
\* and no store is under way, a sleeping consumer without a pending
\* notification has read everything.
NoLostWakeup ==
  (cons.pc = "sleep" /\ ~ efd /\ prod.pc = "idle" /\ write_pos = wOwn /\ read_pos = rOwn)
     => got = sent

Queue == INSTANCE FrameQueue WITH
           Payloads  <- {Payload(k, n) : k \in 1 .. MaxFrames, n \in Lengths},
           queue     <- SubSeq(sent, Len(got) + 1, Len(sent)),
           delivered <- got

\* The bytes recv hands out are the frames sendAll put in, whole, once and in
\* order, although prefix, payload and cursor move in separate steps.
ImplementsFifo == Queue!Spec

\* Every frame whose sendAll has succeeded is read, if the consumer's loop
\* runs and cursor accesses keep their order: wake-ups are not lost.
AllDelivered == \A k \in 1 .. MaxFrames : (~ delayed /\ Len(sent) >= k) ~> (Len(got) >= k)
=============================================================================
