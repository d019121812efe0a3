----------------------------- MODULE FrameQueue -----------------------------
(***************************************************************************)
(* What one direction of a shared-memory connection promises: frames come  *)
(* out whole, once, in the order they went in, and every frame that went   *)
(* in comes out as long as the reader's event loop runs.                   *)
(***************************************************************************)
EXTENDS Sequences

CONSTANT Payloads          \* the frames a sender may put in

VARIABLES queue,           \* frames put in and not yet taken out
          delivered        \* frames taken out, oldest first

qvars == <<queue, delivered>>

Init == queue = << >> /\ delivered = << >>

Put(p) == /\ queue' = Append(queue, p)
          /\ UNCHANGED delivered

Take == /\ queue # << >>
        /\ delivered' = Append(delivered, Head(queue))
        /\ queue' = Tail(queue)

Next == Take \/ \E p \in Payloads : Put(p)

Spec == Init /\ [][Next]_qvars
=============================================================================
