---------------------------- MODULE DecodeChunk ----------------------------
(***************************************************************************)
(* decode_chunk and the parsers (src/src/decode_worker.py): which lines of *)
(* a decoder's output become spots, and what time they are given.          *)
(***************************************************************************)
EXTENDS Naturals, Sequences

\* What a line can be to the parser it is given to: a spot; a line that has
\* the form of one with a value that is none, such as a time of 25 h; any
\* other line, such as jt9's closing <DecodeFinished>.
Lines == {"heard", "garbled", "other"}

\* DECODERS: the configurations there are, and the program each one runs.
Configs == {"wsjtx"} \X {"ft8", "ft4", "wspr"} \cup {"ft8_lib"} \X {"ft8", "ft4"}

Binary(config) ==
    CASE config[1] = "ft8_lib" -> "decode_ft8"
      [] config = <<"wsjtx", "wspr">> -> "wsprd"
      [] OTHER -> "jt9"

-----------------------------------------------------------------------------
(* Faults: plausible slips in the operations below.                        *)

\* The loop over the lines ends at the first that is no spot.
SpotsUpToOther(config, out) ==
    {i \in DOMAIN out : \A j \in 1..i : out[j] = "heard"}

\* The time the decoder printed: jt9 and wsprd take it from the name of the
\* file, decode_ft8 prints 000000.
PrintedTime(config, n) == IF Binary(config) = "decode_ft8" THEN 0 ELSE n

-----------------------------------------------------------------------------

\* _combine_utc raises for a value that is none, and int and float do.  Only
\* parse_wsprd_line catches that.
ParserRaises(config, line) == line = "garbled" /\ Binary(config) # "wsprd"

\* decode_chunk raises for what DECODERS does not have, and when a parser does.
Raises(config, out) ==
    config \notin Configs \/ \E i \in DOMAIN out : ParserRaises(config, out[i])

\* The lines of which decode_chunk makes spots, if it returns at all.
Spots(config, out) == {i \in DOMAIN out : out[i] = "heard"}

\* The start of the chunk replaces the time the parser read.
SpotTime(config, n) == n
=============================================================================
