------------------------------ MODULE MCTvEdid ------------------------------
(***************************************************************************)
(* Values for the constants of TvEdid.                                     *)
(***************************************************************************)
EXTENDS TvEdid

Ver14   == {}
Ver20   == {0}
VerAuto == {1}
TwoVersions   == {Ver14, Ver20}
ThreeVersions == {Ver14, Ver20, VerAuto}

\* No configuration; all ports permuted; two inputs on one port; one input on
\* no HDMI port; an analog input configured on an HDMI port.
SomeConfigs ==
    { [s \in {} |-> ""],
      [s \in HdmiSource |-> <<"HDMI3", "HDMI0", "HDMI1", "HDMI2">>[s - 4]],
      [s \in {5, 6} |-> "HDMI1"],
      [s \in {6} |-> "AUX"],
      [s \in {1, 5} |-> IF s = 1 THEN "HDMI0" ELSE "HDMI2"] }

=============================================================================
