---------------------------- MODULE JsonImportForm ----------------------------
(***************************************************************************)
(* The landing-zone JSON import form                                       *)
(* (esp/src/src-react/components/forms/landing-zone/JsonImportForm.tsx).   *)
(*                                                                         *)
(* The form holds a name prefix and one target name per selected file.     *)
(* Import validates the fields and sends one FileSpray.SprayVariable per   *)
(* file at once, then waits on Promise.all of them.  A single answer       *)
(* navigates to its DFU workunit or logs its exception; several answers    *)
(* open a window per workunit, log each exception, and close the form when *)
(* none failed.  Promise.all rejects as soon as one request fails at the   *)
(* transport level; the .catch logs that one error.                        *)
(*                                                                         *)
(* Names are sequences of characters over a two-letter alphabet, "a"      *)
(* (any name character) and ":", enough to tell apart the separator logic. *)
(* The other form fields (group, queue, format, flags) are copied into     *)
(* every request unchanged and are left out, as is the choice of sourceIP  *)
(* or sourcePlane, which no property here depends on.                      *)
(***************************************************************************)
EXTENDS Naturals, Sequences, SequencesExt

CONSTANTS
    Files,          \* landing-zone files that can be selected
    FileName,       \* FileName[f]: file["name"], the initial TargetName
    Selections,     \* selections (sequences of Files) the page can pass in
    PrefixChoices,  \* values the user can type as namePrefix
    TargetChoices,  \* values the user can type as a TargetName
    MaxBatches,     \* bound on Import submissions
    MaxShows        \* bound on the times the form is shown

Colons == <<":", ":">>

\* Answers of one SprayVariable: a workunit, an ESP exception, a response
\* with neither Exceptions nor SprayResponse.wuid, or a transport failure
\* that rejects the promise.
Answers == {"wuid", "exception", "empty", "rejected"}

VARIABLES
    showForm,       \* the showForm prop (setShowForm(false) is closeForm)
    shows,          \* how often the form has been shown
    selection,      \* the selection prop
    namePrefix,     \* form value namePrefix
    selectedFiles,  \* form value selectedFiles[i].TargetName, one per file
    otherFields,    \* the other validated fields: "unset" (no group or queue
                    \*   picked yet), "valid" or "invalid"
    batches,        \* one record per submitted Import
    logged,         \* <<batch, index>> of every request whose error was logged
    surfaced        \* <<batch, index>> of every workunit navigated to or opened

vars == <<showForm, shows, selection, namePrefix, selectedFiles, otherFields,
          batches, logged, surfaced>>

Batch == [show: Nat, files: Seq(Files), dests: Seq(Seq({"a", ":"})),
          resp: Seq(Answers \cup {"pending"}), settled: BOOLEAN,
          closed: BOOLEAN]

TypeOK ==
    /\ showForm \in BOOLEAN
    /\ shows \in 0..MaxShows
    /\ selection \in Selections
    /\ namePrefix \in PrefixChoices
    /\ selectedFiles \in Seq(TargetChoices \cup {FileName[f] : f \in Files})
    /\ Len(selectedFiles) = Len(selection)
    /\ otherFields \in {"unset", "valid", "invalid"}
    /\ batches \in Seq(Batch)
    /\ logged \subseteq (Nat \X Nat)
    /\ surfaced \subseteq (Nat \X Nat)

(***************************************************************************)
(* Validation rules of the Controllers.  react-hook-form skips a pattern   *)
(* on an empty value.  namePrefix: /^([_a-z0-9]+(::)?)+$/i, i.e. name      *)
(* characters in runs, each run followed by at most one "::".  TargetName: *)
(* required, /^[-a-z0-9_]+[-a-z0-9 _\.]+$/i: two or more name characters.  *)
(***************************************************************************)
ValidPrefix(p) ==
    p # <<>> =>
        /\ p[1] = "a"
        /\ \A i \in 1..Len(p) : p[i] = ":" =>
              \/ i < Len(p) /\ p[i - 1] = "a" /\ p[i + 1] = ":"
              \/ i > 2 /\ p[i - 1] = ":" /\ p[i - 2] = "a"

ValidTarget(n) == Len(n) >= 2 /\ \A i \in 1..Len(n) : n[i] = "a"

(***************************************************************************)
(* The other rules: destGroup, DFUServerQueue and sourceFormat required    *)
(* (the first two default to "", sourceFormat to "1"), each row's NumParts *)
(* /^[0-9]+$/ (default ""), expireDays at least 1 (default "").  They are  *)
(* summarised by otherFields; a Dropdown cannot be cleared once picked.    *)
(***************************************************************************)
OtherFieldsValid(o) == o = "valid"

\* String.prototype.substring(start): a negative start counts as 0.
Substring(s, start) == IF start < 0 THEN s ELSE SubSeq(s, start + 1, Len(s))

\* destLogicalName: add "::" between prefix and name unless the prefix
\* already ends with it (written substring(-2), which is the whole prefix)
\* or the name starts with it.
DestLogicalName(prefix, target) ==
    prefix
      \o (IF /\ prefix # <<>>
             /\ Substring(prefix, -2) # Colons
             /\ target # <<>>
             /\ SubSeq(target, 1, 2) # Colons
          THEN Colons ELSE <<>>)
      \o target

\* Mutant of ResetValues: rows written into the shared array without
\* "newValues.selectedFiles = []", so a shorter selection keeps old rows.
ResetValuesKeepRows(sel) ==
    /\ namePrefix' = <<>>
    /\ selectedFiles' =
          [i \in 1..(IF Len(sel) > Len(selectedFiles) THEN Len(sel)
                                                     ELSE Len(selectedFiles)) |->
             IF i <= Len(sel) THEN FileName[sel[i]] ELSE selectedFiles[i]]
    /\ otherFields' = "unset"

\* The mount/selection effect: reset(defaultValues + one row per file).
ResetValues(sel) ==
    /\ namePrefix' = <<>>
    /\ selectedFiles' = [i \in 1..Len(sel) |-> FileName[sel[i]]]
    /\ otherFields' = "unset"

Init ==
    /\ showForm = FALSE
    /\ shows = 0
    /\ selection \in Selections
    /\ namePrefix = <<>>
    /\ selectedFiles = [i \in 1..Len(selection) |-> FileName[selection[i]]]
    /\ otherFields = "unset"
    /\ batches = <<>>
    /\ logged = {}
    /\ surfaced = {}

\* The page shows the form.
Show ==
    /\ ~showForm
    /\ shows < MaxShows
    /\ showForm' = TRUE
    /\ shows' = shows + 1
    /\ UNCHANGED <<selection, namePrefix, selectedFiles, batches, logged,
                   surfaced, otherFields>>

\* The page passes a selection array.  The effect depends on its identity,
\* so a new array with the same files resets the form values as well.
SelectionChanged(sel) ==
    /\ selection' = sel
    /\ ResetValues(sel)
    /\ UNCHANGED <<showForm, shows, batches, logged, surfaced>>

EditPrefix(p) ==
    /\ showForm
    /\ namePrefix' = p
    /\ UNCHANGED <<showForm, shows, selection, selectedFiles, batches, logged,
                   surfaced, otherFields>>

EditTarget(i, n) ==
    /\ showForm
    /\ i \in DOMAIN selectedFiles
    /\ selectedFiles' = [selectedFiles EXCEPT ![i] = n]
    /\ UNCHANGED <<showForm, shows, selection, namePrefix, batches, logged,
                   surfaced, otherFields>>

\* The user picks a group and a queue and edits the format, the row's
\* NumParts or expireDays, leaving them valid or not.
EditOtherFields(v) ==
    /\ showForm
    /\ otherFields' = v
    /\ UNCHANGED <<showForm, shows, selection, namePrefix, selectedFiles,
                   batches, logged, surfaced>>

\* Cancel, or the MessageBox's own close: closeForm().
Cancel ==
    /\ showForm
    /\ showForm' = FALSE
    /\ UNCHANGED <<shows, selection, namePrefix, selectedFiles, batches,
                   logged, surfaced, otherFields>>

\* onSubmit, fields valid: one SprayVariable per selected file, all sent
\* before any answer.  Promise.all([]) of no files resolves to an empty
\* list, which takes the several-answers branch and closes the form.
Import ==
    /\ showForm
    /\ Len(batches) < MaxBatches
    /\ ValidPrefix(namePrefix)
    /\ \A i \in DOMAIN selectedFiles : ValidTarget(selectedFiles[i])
    /\ OtherFieldsValid(otherFields)
    /\ LET n == Len(selection)
       IN /\ batches' = Append(batches,
                [show |-> shows, files |-> selection,
                 dests |-> [i \in 1..n |->
                              DestLogicalName(namePrefix, selectedFiles[i])],
                 resp |-> [i \in 1..n |-> "pending"],
                 settled |-> n = 0, closed |-> n = 0])
          /\ showForm' = (n # 0)
    /\ UNCHANGED <<shows, selection, namePrefix, selectedFiles, logged,
                   surfaced, otherFields>>

Pending(b, i) ==
    /\ b \in DOMAIN batches
    /\ i \in DOMAIN batches[b].resp
    /\ batches[b].resp[i] = "pending"

\* The Promise.all(...).then handler on the answers rs of batch b.  One
\* answer: log its exception or pushUrl to its workunit.  Several: log
\* each exception, window.open each workunit, closeForm() if none failed.
\* An answer with neither field matches no branch and is passed over.
OnSprayResults(b, rs) ==
    LET exc == {j \in DOMAIN rs : rs[j] = "exception"}
        wuids == {j \in DOMAIN rs : rs[j] = "wuid"}
        closes == Len(rs) # 1 /\ exc = {}
    IN /\ logged' = logged \cup {<<b, j>> : j \in exc}
       /\ surfaced' = surfaced \cup {<<b, j>> : j \in wuids}
       /\ batches' = [batches EXCEPT ![b].resp = rs, ![b].settled = TRUE,
                                     ![b].closed = closes]
       /\ showForm' = (showForm /\ ~closes)

\* A SprayVariable answers with a workunit, an exception or neither; if it
\* was the
\* last one outstanding, Promise.all resolves and its handler runs.
SprayAnswered(b, i, r) ==
    /\ Pending(b, i)
    /\ r \in Answers \ {"rejected"}
    /\ LET rs == [batches[b].resp EXCEPT ![i] = r]
       IN IF ~batches[b].settled /\ \A j \in DOMAIN rs : rs[j] # "pending"
             THEN OnSprayResults(b, rs)
             ELSE /\ batches' = [batches EXCEPT ![b].resp = rs]
                  /\ UNCHANGED <<logged, surfaced, showForm>>
    /\ UNCHANGED <<shows, selection, namePrefix, selectedFiles, otherFields>>

\* A SprayVariable fails at the transport level.  The first failure
\* rejects Promise.all and the .catch logs it; later ones go unheard.
SprayFailed(b, i) ==
    /\ Pending(b, i)
    /\ IF batches[b].settled
          THEN /\ batches' = [batches EXCEPT ![b].resp[i] = "rejected"]
               /\ UNCHANGED logged
          ELSE /\ batches' = [batches EXCEPT ![b].resp[i] = "rejected",
                                             ![b].settled = TRUE]
               /\ logged' = logged \cup {<<b, i>>}
    /\ UNCHANGED <<showForm, shows, selection, namePrefix, selectedFiles,
                   surfaced, otherFields>>

Next ==
    \/ Show \/ Cancel \/ Import
    \/ \E sel \in Selections : SelectionChanged(sel)
    \/ \E p \in PrefixChoices : EditPrefix(p)
    \/ \E v \in {"valid", "invalid"} : EditOtherFields(v)
    \/ \E i \in DOMAIN selectedFiles, n \in TargetChoices : EditTarget(i, n)
    \/ \E b \in DOMAIN batches : \E i \in DOMAIN batches[b].resp :
          \E r \in Answers \ {"rejected"} : SprayAnswered(b, i, r)
    \/ \E b \in DOMAIN batches : \E i \in DOMAIN batches[b].resp :
          SprayFailed(b, i)

Spec == Init /\ [][Next]_vars

-----------------------------------------------------------------------------
(* Properties                                                              *)

(***************************************************************************)
(* The spec: a multi-file spray only closes the form on full success.  A   *)
(* batch whose promises all resolved closed the form only if every spray   *)
(* returned a workunit, and every workunit it got was opened or navigated  *)
(* to, whatever came before it and in whatever order the answers arrived. *)
(***************************************************************************)
FulfilledBatchReported ==
    \A b \in DOMAIN batches :
        LET bt == batches[b] IN
        (bt.settled /\ \A j \in DOMAIN bt.resp : bt.resp[j] # "rejected") =>
            /\ bt.closed => \A j \in DOMAIN bt.resp : bt.resp[j] = "wuid"
            /\ \A j \in DOMAIN bt.resp :
                  bt.resp[j] = "wuid" => <<b, j>> \in surfaced

(***************************************************************************)
(* The spec: one spray request per selected file.  While the form is shown *)
(* once, no file is sprayed by two Imports.                                *)
(***************************************************************************)
OneSprayPerFile ==
    \A b1, b2 \in DOMAIN batches :
        (b1 < b2 /\ batches[b1].show = batches[b2].show) =>
            Range(batches[b1].files) \cap Range(batches[b2].files) = {}

(***************************************************************************)
(* The guard on destLogicalName: the prefix and the target name are        *)
(* joined by exactly one "::", so no logical name has an empty scope       *)
(* (four colons in a row).                                                 *)
(***************************************************************************)
ScopeSeparatedOnce ==
    \A b \in DOMAIN batches : \A i \in DOMAIN batches[b].dests :
        Colons \o Colons \notin SubSeqs(batches[b].dests[i])

(***************************************************************************)
(* The spec: a batch logs each error.  Once a batch has settled and all    *)
(* its requests have answered, every failed request has been logged.       *)
(***************************************************************************)
EachErrorLogged ==
    \A b \in DOMAIN batches :
        (batches[b].settled /\ \A j \in DOMAIN batches[b].resp :
                                   batches[b].resp[j] # "pending") =>
            \A j \in DOMAIN batches[b].resp :
                batches[b].resp[j] \in {"exception", "rejected"} =>
                    <<b, j>> \in logged

=============================================================================
