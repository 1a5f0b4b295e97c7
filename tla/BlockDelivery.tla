---------------------------- MODULE BlockDelivery ----------------------------
(***************************************************************************)
(* What the 1 MB transfer of app_05 promises its user, without packets,    *)
(* sockets or bytes: the data block of Total bytes arrives in pieces, in   *)
(* order and without gaps, and the receiver declares the end of the block  *)
(* exactly when the last byte of it has arrived.  The promise is void from *)
(* the moment the framing of the stream is lost ("broken"); nothing more   *)
(* is counted as delivered after that.                                     *)
(***************************************************************************)
EXTENDS Integers

CONSTANT Total          \* size of the data block, at least 1

VARIABLES
  delivered,            \* bytes of the block the receiver has accepted
  status                \* "moving", "complete" or "broken"

vars == <<delivered, status>>

Init ==
  /\ delivered = 0
  /\ status = "moving"

\* One more piece arrives; the last one, and only the last one, completes
\* the block.
Deliver ==
  /\ status = "moving"
  /\ \E n \in 1 .. (Total - delivered) :
       /\ delivered' = delivered + n
       /\ status' = IF delivered' = Total THEN "complete" ELSE "moving"

\* The receiver loses its place in the stream.
LosePlace ==
  /\ status = "moving"
  /\ status' = "broken"
  /\ UNCHANGED delivered

Next == Deliver \/ LosePlace

Spec == Init /\ [][Next]_vars

=============================================================================
