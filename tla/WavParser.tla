----------------------------- MODULE WavParser -----------------------------
(***************************************************************************)
(* wav_parser.c as operators on the parser's state, fed token by token:    *)
(* wherever the code takes n bytes at once it does the same to each of     *)
(* them.  A token stands for a byte; the bytes of a chunk header all carry *)
(* what the complete header says, and those of a fmt payload what the      *)
(* payload says.  The sizes of the fixed parts are constants.              *)
(***************************************************************************)
EXTENDS Naturals, Sequences, SequencesExt

CONSTANTS HeaderSize,   \* of a chunk header, 8 in the code
          FmtSize,      \* of the fmt payload, 16 in the code
          TailSize      \* of the form type after RIFF, 4 in the code

ASSUME WavParserAssumption ==
  {HeaderSize, FmtSize, TailSize} \subseteq Nat \ {0} /\ FmtSize % 2 = 0

\* wav_parser_t.  id is what remains of the last header; format is its fmt_seen
\* and sample_rate.
NewParser ==
  [header |-> 0, id |-> "", fmtUsed |-> 0, remaining |-> 0, pad |-> FALSE, padAfter |-> FALSE,
   riff |-> FALSE, tail |-> 0, fmt |-> FALSE, rate |-> 0, data |-> FALSE, inData |-> FALSE]

Odd(n) == n % 2 = 1

\* The sample rates the parser knows, and the one the speaker is run at.
KnownRates == {16000, 24000}
PlayRate == 24000

\* Faulty variant for the runs: no chunk is ever padded.
NeverPadded(t) == FALSE

\* Only a chunk the parser skips is padded: RIFF has no end, fmt and data are even.
Padded(t) == Odd(t.size)

\* A complete chunk header, of which t is a token.
Header(p, t) ==
  LET q == [p EXCEPT !.header = 0, !.id = t.id]
      known == t.id \in {"data", "fmt"}
  IN  IF ~p.riff
      THEN IF t.id # "RIFF" \/ t.size < TailSize THEN <<p, "error">>
           ELSE <<[q EXCEPT !.riff = TRUE, !.tail = TailSize], "ok">>
      ELSE IF t.id = "data" /\ (~p.fmt \/ t.size = 0 \/ Odd(t.size)) THEN <<p, "error">>
      ELSE IF t.id = "fmt" /\ t.size # FmtSize THEN <<p, "error">>
      ELSE <<[q EXCEPT !.remaining = t.size, !.data = @ \/ t.id = "data", !.inData = t.id = "data",
                       !.padAfter = IF known THEN @ ELSE Padded(t)], "ok">>

\* A byte of a payload that is not PCM.  The fmt payload is staged until it is
\* complete, and must be mono, 16 bit and of a rate the parser knows.
Payload(p, t) ==
  LET q == [p EXCEPT !.remaining = @ - 1] IN
  IF ~p.fmt /\ p.id = "fmt"
  THEN IF p.fmtUsed + 1 < FmtSize THEN <<[q EXCEPT !.fmtUsed = @ + 1], "ok">>
       ELSE IF t.rate \notin KnownRates THEN <<[q EXCEPT !.fmtUsed = @ + 1], "error">>
       ELSE <<[q EXCEPT !.fmtUsed = @ + 1, !.fmt = TRUE, !.rate = t.rate], "ok">>
  ELSE IF q.remaining = 0 /\ p.padAfter
       THEN <<[q EXCEPT !.pad = TRUE, !.padAfter = FALSE], "ok">>
       ELSE <<q, "ok">>

\* One byte that is not PCM.
Consumed(p, t) ==
  CASE p.tail > 0 -> <<[p EXCEPT !.tail = @ - 1], "ok">>
    [] p.tail = 0 /\ p.pad -> <<[p EXCEPT !.pad = FALSE], "ok">>
    [] p.tail = 0 /\ ~p.pad /\ p.remaining > 0 -> Payload(p, t)
    [] OTHER -> IF p.header + 1 < HeaderSize THEN <<[p EXCEPT !.header = @ + 1], "ok">>
                ELSE Header(p, t)

\* wav_parser_feed: s.used counts the tokens consumed and s.pcm holds those the
\* sink accepted.  Sink(rate) is how many it would accept of PCM at that rate;
\* s.asked says whether it was called.
Fed(s, t, room) ==
  IF s.result # "ok" THEN s
  ELSE IF s.p.inData
  THEN IF Len(s.pcm) = room THEN [s EXCEPT !.asked = TRUE, !.result = "would_block"]
       ELSE [s EXCEPT !.asked = TRUE, !.used = @ + 1, !.pcm = Append(@, t.value),
                      !.p.remaining = @ - 1, !.p.inData = s.p.remaining > 1]
  ELSE LET next == Consumed(s.p, t) IN
       [s EXCEPT !.p = next[1], !.result = next[2], !.used = @ + 1]

Feed(p, tokens, Sink(_)) ==
  LET after[n \in 0 .. Len(tokens)] ==
        IF n = 0 THEN [p |-> p, used |-> 0, pcm |-> <<>>, asked |-> FALSE, result |-> "ok"]
        ELSE LET s == after[n - 1] IN Fed(s, tokens[n], Sink(s.p.rate))
  IN  after[Len(tokens)]

\* wav_parser_finish
Finished(p) ==
  p.riff /\ p.fmt /\ p.data /\ ~p.inData /\ p.remaining = 0 /\ p.header = 0

-----------------------------------------------------------------------------
(* Reference: a file as the list of its chunks.                            *)

NoSample == <<0, 0>>
Token == [id |-> "", size |-> 0, rate |-> 0, value |-> NoSample]
Repeat(n, t) == [i \in 1 .. n |-> t]

\* The bytes of one chunk: its header, its payload, the pad byte.  <<k, i>> is the
\* i-th sample of chunk k.
ChunkBytes(c, k) ==
  Repeat(HeaderSize, [Token EXCEPT !.id = c.id, !.size = c.size])
  \o (IF c.id = "RIFF" THEN Repeat(TailSize, Token)
      ELSE [i \in 1 .. c.size |->
              [Token EXCEPT !.rate = c.rate, !.value = IF c.id = "data" THEN <<k, i>> ELSE @]])
  \o (IF c.id # "RIFF" /\ Odd(c.size) THEN <<Token>> ELSE <<>>)

WavFile(chunks) == FlattenSeq([k \in DOMAIN chunks |-> ChunkBytes(chunks[k], k)])

\* The samples of a file, and whether it is one the parser must accept.
Samples(chunks) ==
  FlattenSeq([k \in DOMAIN chunks |->
                IF chunks[k].id = "data" THEN [i \in 1 .. chunks[k].size |-> <<k, i>>] ELSE <<>>])

\* What a gateway may send: the format of WAVE files has one fmt and one data
\* chunk, which are not checked for their contents or their order.
Wave(chunks) ==
  /\ chunks # <<>> /\ chunks \in Seq([id : STRING, size : Nat, rate : Nat])
  /\ \A j, k \in DOMAIN chunks :
       chunks[j].id = chunks[k].id /\ chunks[k].id \in {"RIFF", "fmt", "data"} => j = k

Sound(chunks) ==
  /\ chunks[1].id = "RIFF" /\ chunks[1].size >= TailSize
  /\ \E k \in DOMAIN chunks : chunks[k].id = "data"
  /\ \A k \in DOMAIN chunks :
       /\ chunks[k].id = "data" => /\ chunks[k].size > 0 /\ ~Odd(chunks[k].size)
                                   /\ \E j \in 1 .. k : chunks[j].id = "fmt"
       /\ chunks[k].id = "fmt" => chunks[k].size = FmtSize /\ chunks[k].rate = PlayRate
=============================================================================
