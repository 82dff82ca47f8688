----------------------------- MODULE MCMapFiles -----------------------------
(* An instance of MapFiles for TLC.                                        *)
EXTENDS MapFiles, TLC

CONSTANTS valid, invalid, failing, yaml, otherYaml

(* A map that can be converted, one that lacks an input, and one that      *)
(* makes the conversion throw.                                             *)
Conversion == valid :> yaml @@ invalid :> Empty @@ failing :> Throws

(* The file may hold another text for the first map when it is opened.     *)
Reading == yaml :> valid @@ otherYaml :> valid
=============================================================================
