---------------------------- MODULE RollingWindow ----------------------------
(***************************************************************************)
(* The rolling window that CsvDataHandler keeps per symbol                  *)
(* (cpp-engine/src/DataHandler.cpp), oldest entry first.                    *)
(***************************************************************************)
EXTENDS Integers, SequencesExt

CONSTANT WindowSize     \* CsvDataHandler::kWindowSize (500)

ASSUME WindowAssumption == WindowSize \in Nat \ {0}

\* Mutants: the window is never trimmed; is trimmed one entry too early.
SlideUntrimmed(window, entry) == Append(window, entry)

SlideEarly(window, entry) ==
  IF Len(window) < WindowSize - 1 THEN Append(window, entry)
                                  ELSE Append(Tail(window), entry)

\* push_back, then pop_front beyond the window size.
Slide(window, entry) ==
  IF Len(window) < WindowSize THEN Append(window, entry)
                              ELSE Append(Tail(window), entry)

\* get_latest_bars: the last n entries, or all when there are fewer.
LastN(window, n) ==
  SubSeq(window, Max({1, Len(window) - n + 1}), Len(window))
=============================================================================
