----------------------------- MODULE ByteQueue -----------------------------
(***************************************************************************)
(* What a Buffer promises: it is a queue of bytes, into which one can also *)
(* put bytes at the front.  The variable op is the last operation, with    *)
(* the bytes that it put in or took out.                                   *)
(***************************************************************************)
EXTENDS Sequences

VARIABLES content, op

Init == content = <<>> /\ op = <<"none", <<>> >>

\* Bytes are appended, put at the front, or taken from there; or space is made
\* or given back.
Step ==
  \/ op'[1] = "put" /\ content' = content \o op'[2]
  \/ op'[1] = "putFront" /\ content' = op'[2] \o content
  \/ op'[1] = "take" /\ content = op'[2] \o content'
  \/ op'[1] = "none" /\ content' = content

Spec == Init /\ [][Step]_<<content, op>>
=============================================================================
