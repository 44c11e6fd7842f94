--------------------------- MODULE MCCliSession ------------------------------
(* Small instances of CliSession for TLC.                                    *)
EXTENDS CliSession

CONSTANTS a, b

(* The candidates of scan-keys: factory, the derived K0 of four versions,    *)
(* the static test key and the card key.                                     *)
ScanOrder == <<Factory, "v0", a, "v2", "v3", StaticTest, "card">>
=============================================================================
