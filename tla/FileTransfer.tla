---------------------------- MODULE FileTransfer ----------------------------
(***************************************************************************)
(* The file servers of examples/filetransfer, which send a file to whoever *)
(* connects:                                                               *)
(*   download.cc    all of it at once, from memory                         *)
(*   download2.cc   a piece when the last is written; the context is the   *)
(*                  FILE*, closed when the connection is down              *)
(*   download3.cc   the same; the context is a shared_ptr that closes it   *)
(* onWriteComplete() is a functor that the connection queues when all that *)
(* was sent is written: it may run after the connection is down.           *)
(***************************************************************************)
EXTENDS Connections

CONSTANT MaxPieces      \* bound: the pieces of kBufSize of the file

\* fp has the state of a connection's file, and pos where it is read; size is -1
\* if there is no file.  output: something is left in outputBuffer_ (writing), or
\* onWriteComplete() is queued.
Init(kind) ==
  /\ ConnectionsInit
  /\ \E size \in -1 .. MaxPieces :
       app = [kind |-> kind, size |-> size, fp |-> [c \in Conns |-> "none"],
              pos |-> [c \in Conns |-> 0], output |-> [c \in Conns |-> "empty"],
              undefined |-> FALSE]

\* fread(): a piece, or nothing at the end.
Read(c) == IF app.pos[c] < app.size THEN <<app.pos[c] + 1>> ELSE <<>>

\* send(): all is written at once, or some is left.  onWriteComplete() is queued
\* when nothing is left, also if there was nothing to send.
Send(c, pieces, before) ==
  /\ sent' = [sent EXCEPT ![c] = @ \o pieces]
  /\ \E output \in {"queued"} \cup (IF pieces = <<>> THEN {} ELSE {"writing"}) :
       app' = [before EXCEPT !.output[c] = output, !.pos[c] = @ + Len(pieces)]

-----------------------------------------------------------------------------
\* download.cc: readFile() gives the empty string for a file it cannot open.
onConnection1(c) ==
  /\ Send(c, [i \in 1 .. app.size |-> i], app)
  /\ conn' = [conn EXCEPT ![c] = "closing"]

\* download2.cc and download3.cc.
onConnection(c) ==
  \/ /\ app.size >= 0
     /\ Send(c, Read(c), [app EXCEPT !.fp[c] = "open"])
     /\ conn' = [conn EXCEPT ![c] = "up"]
  \/ app.size < 0 /\ conn' = [conn EXCEPT ![c] = "closing"] /\ UNCHANGED <<sent, app>>

Up(c) ==
  /\ conn[c] = "none"
  /\ IF app.kind = "download" THEN onConnection1(c) ELSE onConnection(c)
  /\ UNCHANGED queue

\* fclose(), if the context of download2.cc is not NULL.
CloseFile(fp) == IF app.kind = "download2" /\ fp = "open" THEN "closed" ELSE fp

Down(c) ==
  /\ Lose(c)
  /\ app' = [app EXCEPT !.output[c] = IF @ = "writing" THEN "empty" ELSE @,
                        !.fp[c] = CloseFile(@)]
  /\ UNCHANGED <<sent, queue>>

\* The last pointer to the connection goes, and its context with it.
Destroy(c) ==
  /\ app.kind = "download3"
  /\ conn[c] = "down" /\ app.output[c] # "queued" /\ app.fp[c] = "open"
  /\ app' = [app EXCEPT !.fp[c] = "closed"]
  /\ UNCHANGED <<conn, sent, queue>>

\* handleWrite() writes the rest.
Written(c) ==
  /\ app.output[c] = "writing"
  /\ app' = [app EXCEPT !.output[c] = "queued"]
  /\ UNCHANGED <<conn, sent, queue>>

-----------------------------------------------------------------------------
\* onWriteComplete() that takes the end of a piece for the end of the file.
onWriteCompleteOnce(c, before) ==
  /\ conn' = Closed(c)
  /\ app' = [before EXCEPT !.fp[c] = CloseFile(@)]
  /\ UNCHANGED sent

\* onWriteComplete(): what is read is not sent if the connection is not up.
onWriteComplete(c, before) ==
  IF Read(c) = <<>>
  THEN /\ conn' = Closed(c)
       /\ app' = [before EXCEPT !.fp[c] = CloseFile(@)]
       /\ UNCHANGED sent
  ELSE /\ IF conn[c] = "up" THEN Send(c, Read(c), before)
          ELSE app' = [before EXCEPT !.pos[c] = @ + 1] /\ UNCHANGED sent
       /\ UNCHANGED conn

\* download.cc has no such callback; fread() from a closed file is undefined.
WriteComplete(c) ==
  LET before == [app EXCEPT !.output[c] = "empty"]
  IN  /\ app.output[c] = "queued"
      /\ IF app.kind # "download" /\ app.fp[c] = "open" THEN onWriteComplete(c, before)
         ELSE /\ app' = [before EXCEPT !.undefined = @ \/ app.kind # "download"]
              /\ UNCHANGED <<conn, sent>>
      /\ UNCHANGED queue

Next == \E c \in Conns : Up(c) \/ Down(c) \/ Destroy(c) \/ Written(c) \/ WriteComplete(c)

-----------------------------------------------------------------------------
\* A client gets the file from its start, and when the server shuts the
\* connection down it has got all of it.
DownloadsComplete ==
  \A c \in Conns :
    /\ sent[c] = [i \in 1 .. Len(sent[c]) |-> i]
    /\ conn[c] = "closing" => Len(sent[c]) = Max({app.size, 0})

\* A file is closed when its connection is gone, and download3.cc does not use
\* it after that: a callback that is still queued keeps it open.
FilesClosed ==
  /\ app.kind = "download2" =>
       \A c \in Conns : conn[c] = "down" => app.fp[c] # "open"
  /\ app.kind = "download3" => ~app.undefined
=============================================================================
