---------------------------- MODULE MCAudioPath ----------------------------
(* AudioPath on small buffers, for TLC.                                    *)
EXTENDS AudioPath

Chunk(id, size, rate) == [id |-> id, size |-> size, rate |-> rate]
Riff == Chunk("RIFF", 9, 0)
Fmt(rate) == Chunk("fmt", FmtSize, rate)
Data(size) == Chunk("data", size, 0)
List(size) == Chunk("LIST", size, 0)

MCByte == 1 .. 8
MCFiles == {<<Riff, Fmt(24000), List(1), Data(4)>>,
            <<Riff, Fmt(24000), Data(2), List(1)>>,
            <<Riff, Fmt(16000), Data(2)>>,
            <<Riff, Data(2)>>}
=============================================================================
