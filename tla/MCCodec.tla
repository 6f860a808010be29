-------------------------------- MODULE MCCodec --------------------------------
(* Codec on a small instance.                                                *)
EXTENDS Codec, SequencesExt

\* zstd: a magic byte and a run-length code, which like zstd shrinks a repetitive
\* payload, makes another one longer, and rejects what it did not produce.
RunLength(p) ==
  LET starts == SelectSeq([k \in DOMAIN p |-> k], LAMBDA k : k = 1 \/ p[k] # p[k - 1])
      ends == Tail(starts) \o <<Len(p) + 1>>
  IN  <<40>> \o FlattenSeq([k \in DOMAIN starts |-> <<ends[k] - starts[k], p[starts[k]]>>])

IsRunLength(d) == Len(d) % 2 = 1 /\ d[1] = 40

Runs(d) == FlattenSeq([k \in 1..(Len(d) \div 2) |-> [j \in 1..d[2 * k] |-> d[2 * k + 1]]])

Repeat(n, b) == [k \in 1..n |-> b]

\* A key whose value is also a key, and a key set twice.
SampleHeaders == <<<<1>>, <<2>>, <<2>>, <<>>, <<1>>, <<3>>>>

\* For a server: a long repetitive event (compressed; its lengths and id need two
\* varint bytes), and a request that leaves fields out and whose last header has no
\* value.  For a client: a long response that does not shrink, and an empty one.
SampleMessages ==
  { [Blank("event") EXCEPT !.headers = SampleHeaders, !.method = <<109>>, !.id = 300,
                           !.body = Repeat(130, 7)],
    [Blank("request") EXCEPT !.headers = <<<<1>>, <<2>>, <<2>>>>, !.method = <<109, 110>>,
                             !.id = 128],
    [Blank("response") EXCEPT !.id = 127, !.body = [k \in 1..20 |-> k], !.code = 128],
    [Blank("response") EXCEPT !.id = 5] }

SampleWaiting == {5, 127}

\* A frame of length 0, an unknown flag, a flag that promises zstd data, a body
\* longer than its payload, a wrong wire type, a varint without end, a header whose
\* field number is 2^32 + 1, and a request with the id of a waiting call, two unknown
\* fields and a header that has no value.
SampleRawFrames ==
  { [raw |-> <<0, 0, 0, 0>>],
    [raw |-> <<0, 0, 0, 2, 9, 1>>],
    [raw |-> <<0, 0, 0, 3, 4, 24, 1>>],
    [raw |-> <<0, 0, 0, 5, 1, 34, 3, 1, 1>>],
    [raw |-> <<0, 0, 0, 3, 3, 16, 1>>],
    [raw |-> <<0, 0, 0, 13, 2, 24>> \o Repeat(11, 129)],
    [raw |-> <<0, 0, 0, 9, 1, 138, 128, 128, 128, 128, 1, 1, 9>>],
    [raw |-> <<0, 0, 0, 13, 1, 48, 1, 24, 5, 58, 1, 9, 40, 3, 10, 1, 5>>] }
================================================================================
