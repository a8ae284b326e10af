------------------------------ MODULE MCInfoGrid ------------------------------
(* Five severities: the three the comparator names, "Info", and one more    *)
(* ESP value ("Debug") so that localeCompare decides between two others.    *)
EXTENDS InfoGrid

MCSeverities == {"Error", "Alert", "Warning", "Info", "Debug"}

\* Alphabetical (localeCompare) order of the severities.
MCAlphaRank == [s \in MCSeverities |->
                  CASE s = "Alert" -> 0 [] s = "Debug" -> 1 [] s = "Error" -> 2
                    [] s = "Info" -> 3 [] s = "Warning" -> 4]
==============================================================================
