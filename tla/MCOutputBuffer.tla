--------------------------- MODULE MCOutputBuffer ---------------------------
(* Two handles over three characters; the smallest allocation holds one    *)
(* byte, so that every operation meets a full buffer, and one that doubling *)
(* does not make large enough.  No piece that one  *)
(* call appends is a prefix of another: a truncated one would show.        *)
EXTENDS OutputBuffer, TLC

CONSTANTS h1, h2, x

MCChar == {x, Space, NewLine}
MCSingle == {Space, NewLine}
MCFormats == {<<x, x>>, <<x, Space, x>>}
=============================================================================
