-------------------------- MODULE MC_DecodeWorker --------------------------
\* DecodeWorker.tla for TLC: one configuration of each parser, and one that
\* DECODERS does not have; no output, two spots, and a spot after a bad line.
EXTENDS DecodeWorker

MCAsked == {<<"wsjtx", "ft8">>, <<"wsjtx", "wspr">>,
            <<"ft8_lib", "ft4">>, <<"ft8_lib", "wspr">>}

MCOutputs == {<<>>, <<"heard", "other", "heard">>, <<"garbled", "heard">>}
=============================================================================
