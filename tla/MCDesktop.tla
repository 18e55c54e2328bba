------------------------------- MODULE MCDesktop -------------------------------
(* Instances of DesktopController for TLC. *)
EXTENDS DesktopController

AllResults == [state : {"complete", "partial", "settled", "unsettled", "executed", "blocked"},
               items : SUBSET Items]
===============================================================================
