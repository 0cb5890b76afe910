---------------------------- MODULE HttpUpload -----------------------------
(***************************************************************************)
(* One upload connection of the device, from upload_recording down to the  *)
(* socket: http_session over voice_transport over http_voice_client, which *)
(* writes the body in HTTP chunks with voice_http_chunk.  esp_http_client  *)
(* may take a part of what it is given, or break.  At the other end is the *)
(* chunked decoder of the gateway's HTTP server: a body counts once its    *)
(* terminal chunk has been read, and is discarded when the connection goes *)
(* away before that.                                                       *)
(***************************************************************************)
EXTENDS Naturals, Sequences

VARIABLES
  session,    \* http_session_t: its state, and whether it was aborted
  transport,  \* voice_transport_t: begun and finished
  client,     \* the handle http_voice_client_t points to
  out,        \* the parts write_all has still to hand over
  peer        \* the decoder at the other end

upload == <<session, transport, client, out, peer>>

\* What goes over the wire: a size in hexadecimal, CRLF, a byte of PCM.
Size(n) == [kind |-> "size", value |-> n]
CRLF == [kind |-> "crlf", value |-> 0]
Pcm(b) == [kind |-> "byte", value |-> b]

NoPeer == [at |-> "gone", left |-> 0, body |-> <<>>]
NewPeer == [NoPeer EXCEPT !.at = "size"]

UploadTypeOK ==
  /\ session \in [state : {"IDLE", "OPEN", "CLOSING", "CLOSED"}, aborted : BOOLEAN]
  /\ transport \in [begun : BOOLEAN, finished : BOOLEAN]
  /\ client \in {"none", "made", "open"}
  /\ peer.at \in {"size", "sizeEnd", "data", "dataEnd", "end", "whole", "gone"}

InitUpload ==
  /\ session = [state |-> "IDLE", aborted |-> FALSE]
  /\ transport = [begun |-> FALSE, finished |-> FALSE]
  /\ client = "none"
  /\ out = <<>> /\ peer = NoPeer

\* The decoder of a chunked body takes one token.
Decoded(p, token) ==
  CASE p.at = "size" /\ token.kind = "size" -> [p EXCEPT !.at = "sizeEnd", !.left = token.value]
    [] p.at = "sizeEnd" /\ token = CRLF -> [p EXCEPT !.at = IF p.left = 0 THEN "end" ELSE "data"]
    [] p.at = "data" /\ token.kind = "byte" ->
         [at |-> IF p.left = 1 THEN "dataEnd" ELSE "data", left |-> p.left - 1,
          body |-> Append(p.body, token.value)]
    [] p.at = "dataEnd" /\ token = CRLF -> [p EXCEPT !.at = "size"]
    [] p.at = "end" /\ token = CRLF -> [p EXCEPT !.at = "whole"]
    [] OTHER -> [p EXCEPT !.at = "broken"]

-----------------------------------------------------------------------------
\* Faulty variant for the runs: the flags of the transport are forgotten.
AbortForgetsFlags ==
  /\ client' = "none" /\ UNCHANGED transport
  /\ peer' = IF peer.at = "whole" THEN peer ELSE [peer EXCEPT !.at = "gone"]

\* voice_transport_abort with abort_body: the handle is closed and cleaned up.
\* A body whose end the other side has not seen is lost with the connection.
AbortTransport ==
  /\ client' = "none"
  /\ transport' = [begun |-> FALSE, finished |-> TRUE]
  /\ peer' = IF peer.at = "whole" THEN peer ELSE [peer EXCEPT !.at = "gone"]

\* A begun upload that was neither finished nor aborted holds the transport.
Busy == transport.begun /\ ~transport.finished

\* begin of http_voice_client: it is refused (no tunnel, no URL), cannot make a
\* handle, cannot open it, or opens it.
Begin(how, kept) ==
  /\ client' = CASE how = "refused" -> kept [] how = "nomemory" -> "none"
                  [] how = "unreachable" -> "made" [] how = "open" -> "open"
  /\ peer' = IF how = "open" THEN NewPeer ELSE NoPeer

\* voice_transport_begin refuses a busy transport and closes the handle of a
\* finished upload.
BeginTransport(how) ==
  IF Busy THEN UNCHANGED <<transport, client, peer>>
  ELSE /\ Begin(how, IF transport.begun THEN "none" ELSE client)
       /\ transport' = [begun |-> how = "open", finished |-> FALSE]

\* http_session_init and http_session_open.  The handle that could not be opened
\* stays: the session is closed, nobody aborts it.
OpenSession(how) ==
  /\ BeginTransport(how)
  /\ session' = [state |-> IF how = "open" /\ ~Busy THEN "OPEN" ELSE "CLOSED", aborted |-> FALSE]
  /\ out' = <<>>

\* voice_http_chunk_write makes three parts of a chunk, voice_http_chunk_finish one.
ChunkParts(bytes) ==
  <<<<Size(Len(bytes)), CRLF>>, [i \in 1 .. Len(bytes) |-> Pcm(bytes[i])], <<CRLF>>>>
FinishParts == <<<<Size(0), CRLF, CRLF>>>>

StartWriting(parts) ==
  /\ session.state = "OPEN" /\ Busy
  /\ out' = parts
  /\ UNCHANGED <<session, transport, client, peer>>

\* What http_session_write and http_session_close come to: write_body, finish_body.
WriteBody(bytes) == StartWriting(ChunkParts(bytes))
FinishBody == StartWriting(FinishParts)

\* The rest of the current part after the socket took n tokens of it.
Rest(n) == SubSeq(out[1], n + 1, Len(out[1]))

\* One call of write_socket: n tokens of the current part are taken.
WriteSocket(n) ==
  /\ out # <<>> /\ n \in 1 .. Len(out[1])
  /\ LET after[i \in 0 .. n] == IF i = 0 THEN peer ELSE Decoded(after[i - 1], out[1][i])
     IN  peer' = after[n]
  /\ out' = IF Rest(n) = <<>> THEN Tail(out) ELSE [out EXCEPT ![1] = Rest(n)]
  /\ UNCHANGED <<session, transport, client>>

\* finish_body has its 202 and a turn id: voice_transport_finish marks the end,
\* and the handle is kept until the next upload.
FinishTransport == transport' = [transport EXCEPT !.finished = TRUE]

CloseSession ==
  /\ session' = [session EXCEPT !.state = "CLOSED"]
  /\ FinishTransport
  /\ UNCHANGED <<client, out, peer>>

\* http_session_abort, which upload_recording calls for every failure: a write
\* that broke, a failed recording, a close that was not answered.
AbortSession ==
  /\ IF session.state \in {"OPEN", "CLOSING"}
     THEN AbortTransport /\ session' = [state |-> "CLOSED", aborted |-> TRUE]
     ELSE UNCHANGED <<session, transport, client, peer>>
  /\ out' = <<>>
=============================================================================
