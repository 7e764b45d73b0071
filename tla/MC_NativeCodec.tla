-------------------------- MODULE MC_NativeCodec --------------------------
(***************************************************************************)
(* A scaled instance of NativeCodec for TLC.  Widths: 2-bit "bytes",       *)
(* int8/16/32/64 of 2/3/4/8 bits; units: 2 ns/us, 2 us/ms, 2 ms/s, 4 s/day *)
(* (32 ns a day).  As in Go, a day count times the nanoseconds of a day    *)
(* leaves int64 for day counts still inside int32 (here from 4 days on),   *)
(* and 10^scale leaves int64 for a scale the parser accepts (here 3).      *)
(***************************************************************************)
EXTENDS NativeCodec

MC_AllTypes == HostTypes

MC_IntValues == {-128, -8, -2, -1, 0, 1, 3, 7, 8, 100}

\* halves: -1.5, 0, 0.5, 1, 10
MC_FloatValues == {-3, 0, 1, 2, 20}

\* nanoseconds: before the epoch off a day boundary, -1 ms, the epoch,
\* 1 s, day 1, day 3, day 4 (its UnixNano overflows int64)
MC_TimeValues == {-40, -4, 0, 8, 32, 96, 128}

MC_RatValues == {[num |-> 0, den |-> 1], [num |-> 1, den |-> 2],
                 [num |-> -3, den |-> 2], [num |-> 7, den |-> 1],
                 [num |-> -64, den |-> 1], [num |-> -1, den |-> 1]}

MC_TextValues == {<<>>, <<1, 2>>}

=============================================================================
