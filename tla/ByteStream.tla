----------------------------- MODULE ByteStream -----------------------------
(***************************************************************************)
(* What the sending side of a TcpConnection promises: the messages that it *)
(* accepts reach the socket whole and in order, and the stream is finished *)
(* only when everything that was accepted has reached the socket.          *)
(***************************************************************************)
EXTENDS Naturals, Sequences

VARIABLES
  accepted,   \* the bytes of the messages accepted so far
  wire,       \* the bytes given to the socket
  fin         \* is the stream finished?

Init ==
  /\ accepted = <<>>
  /\ wire = <<>>
  /\ fin = FALSE

\* Does t begin with s?
Begins(s, t) == Len(s) <= Len(t) /\ SubSeq(t, 1, Len(s)) = s

\* A message may be accepted, a part of what is owed may go out, and the
\* stream may be finished when nothing is owed.
Step ==
  /\ Begins(accepted, accepted')
  /\ Begins(wire, wire')
  /\ Begins(wire', accepted')
  /\ fin => fin' /\ UNCHANGED <<accepted, wire>>
  /\ fin' => wire' = accepted'

Spec == Init /\ [][Step]_<<accepted, wire, fin>>
=============================================================================
