--------------------------- MODULE MCReportExchange ---------------------------
(***************************************************************************)
(* Three calls of WriteJSONToFile, the second with the shorter report, and *)
(* two of ReadJSONFromFile.                                                *)
(***************************************************************************)
EXTENDS ReportExchange

MCLength == <<2, 1, 3>>

=============================================================================
