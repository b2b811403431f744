------------------------------ MODULE MCTvCore ------------------------------
(***************************************************************************)
(* Values of TvCore's constants for TLC.                                   *)
(***************************************************************************)
EXTENDS TvCore

NoSig     == [NullInfo EXCEPT !.status = "NOSIG"]
Unstable  == [NullInfo EXCEPT !.status = "UNSTABLE"]
NotSup    == [NullInfo EXCEPT !.status = "NOTSUP"]
Stable    == [NullInfo EXCEPT !.status = "STABLE", !.fmt = "FMT_1"]
StableHdr == [Stable EXCEPT !.hdr_info = 1]
StableAfd == [Stable EXCEPT !.aspect_ratio = 1]

\* A signal that is stable, unstable or not supported.
StatusSignals == {Stable, Unstable, NotSup}
\* Stable signals that differ in the HDR state or the aspect ratio.
FieldSignals  == {Stable, StableHdr, StableAfd}
\* A signal that is there, is not supported or is not there.
ShownSignals  == {Stable, NotSup, NoSig}

=============================================================================
