------------------------------- MODULE InfoGrid -------------------------------
(***************************************************************************)
(* The workunit errors/warnings grid                                       *)
(* (esp/src/src-react/components/InfoGrid.tsx).                           *)
(*                                                                         *)
(* Four checkboxes (errors, warnings, infos, others) filter the exceptions *)
(* of a workunit.  Whenever a checkbox or the exception list changes, an   *)
(* effect recounts the exceptions per category, numbers the rows, drops    *)
(* the unchecked categories and sorts the rest by severity with a          *)
(* hand-written comparator.  Only an exception's Severity matters to the   *)
(* count, the filter and the order; its other columns are left out.        *)
(***************************************************************************)
EXTENDS Naturals, Sequences, SequencesExt

CONSTANTS
    Severities,  \* severity strings ESP can report
    AlphaRank,   \* AlphaRank[s]: position of s in localeCompare order
    MaxRows      \* bound on the exceptions of one workunit

ASSUME {"Error", "Alert", "Warning", "Info"} \subseteq Severities

Kinds == {"error", "warning", "info", "other"}

\* The filter category of a severity: "Alert" and unknown ones are "other".
Kind(sev) == CASE sev = "Error"   -> "error"
               [] sev = "Warning" -> "warning"
               [] sev = "Info"    -> "info"
               [] OTHER           -> "other"

VARIABLES
    checked,       \* errorChecked, warningChecked, infoChecked, otherChecked
    exceptions,    \* the list useWorkunitExceptions(wuid) returned
    data,          \* rows handed to the grid: [id, Severity]
    filterCounts   \* per-category counts shown on the checkboxes

vars == <<checked, exceptions, data, filterCounts>>

Row == [id: 0..MaxRows - 1, sev: Severities]

TypeOK ==
    /\ checked \in [Kinds -> BOOLEAN]
    /\ exceptions \in Seq(Severities) /\ Len(exceptions) <= MaxRows
    /\ data \in Seq(Row) /\ Len(data) <= Len(exceptions)
    /\ filterCounts \in [Kinds -> 0..MaxRows]

\* localeCompare, reduced to its sign.
LocaleCompare(l, r) == IF AlphaRank[l] < AlphaRank[r] THEN -1
                       ELSE IF AlphaRank[l] > AlphaRank[r] THEN 1 ELSE 0

\* Mutant of Compare: the r.Severity === "Alert" branch dropped.
CompareNoRightAlert(l, r) ==
    CASE l.sev = r.sev       -> 0
      [] l.sev = "Error"     -> -1
      [] r.sev = "Error"     -> 1
      [] l.sev = "Alert"     -> -1
      [] l.sev = "Warning"   -> -1
      [] r.sev = "Warning"   -> 1
      [] OTHER               -> LocaleCompare(l.sev, r.sev)

\* The sort comparator: Error, then Alert, then Warning, then the rest in
\* localeCompare order.
Compare(l, r) ==
    CASE l.sev = r.sev       -> 0
      [] l.sev = "Error"     -> -1
      [] r.sev = "Error"     -> 1
      [] l.sev = "Alert"     -> -1
      [] r.sev = "Alert"     -> 1
      [] l.sev = "Warning"   -> -1
      [] r.sev = "Warning"   -> 1
      [] OTHER               -> LocaleCompare(l.sev, r.sev)

(***************************************************************************)
(* Array.prototype.sort, which ECMAScript 2019 requires to be stable.  For *)
(* a comparator that is a consistent order every stable sort returns the   *)
(* same array; this one is insertion sort, each row placed before the      *)
(* first sorted row that compares greater.                                 *)
(***************************************************************************)
RECURSIVE InsertRow(_, _)
InsertRow(x, s) ==
    IF s = <<>> \/ Compare(Head(s), x) > 0 THEN <<x>> \o s
    ELSE <<Head(s)>> \o InsertRow(x, Tail(s))

RECURSIVE SortRows(_)
SortRows(s) ==
    IF s = <<>> THEN s ELSE InsertRow(Last(s), SortRows(Front(s)))

\* The row filter: drop a row whose category's checkbox is cleared.
Shown(row, chk) == chk[Kind(row.sev)]

\* Mutant of UpdateData: the counts object is not reset per run.
UpdateDataAccumulate(exs, chk) ==
    LET rows == [i \in 1..Len(exs) |-> [id |-> i - 1, sev |-> exs[i]]]
    IN /\ filterCounts' =
             [k \in Kinds |-> filterCounts[k] +
                 Cardinality({i \in 1..Len(exs) : Kind(exs[i]) = k})]
       /\ data' = SortRows(SelectSeq(rows, LAMBDA row : Shown(row, chk)))

\* The effect: count per category, number the rows from 0, filter, sort.
UpdateData(exs, chk) ==
    LET rows == [i \in 1..Len(exs) |-> [id |-> i - 1, sev |-> exs[i]]]
    IN /\ filterCounts' =
             [k \in Kinds |-> Cardinality({i \in 1..Len(exs) : Kind(exs[i]) = k})]
       /\ data' = SortRows(SelectSeq(rows, LAMBDA row : Shown(row, chk)))

\* After mount: all boxes checked, no exceptions yet, the effect has run.
Init ==
    /\ checked = [k \in Kinds |-> TRUE]
    /\ exceptions = <<>>
    /\ data = <<>>
    /\ filterCounts = [k \in Kinds |-> 0]

\* A checkbox's onChange: set its state; the effect reruns.
SetChecked(k, v) ==
    /\ checked' = [checked EXCEPT ![k] = v]
    /\ UpdateData(exceptions, checked')
    /\ UNCHANGED exceptions

\* useWorkunitExceptions delivers a (new) list; the effect reruns.
ExceptionsLoaded(exs) ==
    /\ exceptions' = exs
    /\ UpdateData(exs, checked)
    /\ UNCHANGED checked

Next ==
    \/ \E k \in Kinds, v \in BOOLEAN : SetChecked(k, v)
    \/ \E exs \in BoundedSeq(Severities, MaxRows) : ExceptionsLoaded(exs)

Spec == Init /\ [][Next]_vars

-----------------------------------------------------------------------------
(* Properties                                                              *)

\* The order the spec gives: Error, Alert, Warning, others alphabetically.
SpecRank(sev) == CASE sev = "Error"   -> 0
                   [] sev = "Alert"   -> 1
                   [] sev = "Warning" -> 2
                   [] OTHER           -> 3 + AlphaRank[sev]

(***************************************************************************)
(* The grid shows exactly the exceptions of the checked categories, each   *)
(* once under its own index, in the spec's severity order, rows of equal   *)
(* severity in arrival order; the checkbox counts cover every exception    *)
(* whatever is filtered out.                                               *)
(***************************************************************************)
GridMatchesExceptions ==
    /\ {r.id : r \in Range(data)} =
          {i - 1 : i \in {j \in 1..Len(exceptions) :
                            checked[Kind(exceptions[j])]}}
    /\ Len(data) = Cardinality(Range(data))
    /\ \A i \in DOMAIN data : data[i].sev = exceptions[data[i].id + 1]
    /\ \A i, j \in DOMAIN data : i < j =>
          \/ SpecRank(data[i].sev) < SpecRank(data[j].sev)
          \/ SpecRank(data[i].sev) = SpecRank(data[j].sev) /\ data[i].id < data[j].id
    /\ \A k \in Kinds :
          filterCounts[k] = Cardinality({j \in 1..Len(exceptions) :
                                            Kind(exceptions[j]) = k})

=============================================================================
