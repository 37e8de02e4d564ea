------------------------------ MODULE MCDataDir ------------------------------
(***************************************************************************)
(* Names for model checking module DataDir: one symbol in capitals, in      *)
(* small letters, and with a blank.                                         *)
(***************************************************************************)
EXTENDS DataDir, TLC

Names == {"aapl", "AAPL", " AAPL"}

UpperOf == [s \in Names |-> IF s = "aapl" THEN "AAPL" ELSE s]
StripOf == [s \in Names |-> IF s = " AAPL" THEN "AAPL" ELSE s]

FewFiles == {{}, {"AAPL"}, {"aapl"}}

Interchangeable == Permutations(Uploads) \cup Permutations(Processes)
=============================================================================
