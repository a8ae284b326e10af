------------------------------ MODULE DaliDelete ------------------------------
(***************************************************************************)
(* The Dali delete admin tool (esp/src/src-react/components/DaliDelete.tsx).*)
(*                                                                         *)
(* A text field holds a Dali path; Submit opens a confirm dialog whose     *)
(* onSubmit sends DaliService.Delete({Path: path}).  Its .then parses the  *)
(* CSV Result and replaces the grid's columns and items; its .catch logs   *)
(* the error, which includes a Result csvParse cannot read.  Nothing       *)
(* disables Submit while a Delete is in flight, and nothing matches an     *)
(* answer to the request it belongs to.                                    *)
(*                                                                         *)
(* A request is its index in `requests`; the grid's columns and items are  *)
(* the parse of one answer, so they are modelled together by the index of  *)
(* the request whose answer they show.  The CSV content is left out.       *)
(***************************************************************************)
EXTENDS Naturals, Sequences

CONSTANTS
    Paths,        \* values the user can type into the Path field
    EmptyPath,    \* the initial value "" of path
    MaxRequests   \* bound on Delete requests sent

ASSUME EmptyPath \in Paths

VARIABLES
    path,         \* the path state, shown in the Path field
    confirming,   \* the DaliPromptConfirm dialog is open
    requests,     \* requests[i]: [path, state] of the i-th Delete sent
    shown,        \* index of the request whose answer the grid shows, 0: none
    reported,     \* history: requests whose answer was put into the grid
    logged        \* requests whose error logger.error recorded

vars == <<path, confirming, requests, shown, reported, logged>>

TypeOK ==
    /\ path \in Paths
    /\ confirming \in BOOLEAN
    /\ requests \in Seq([path: Paths, state: {"pending", "ok", "failed"}])
    /\ Len(requests) <= MaxRequests
    /\ shown \in 0..Len(requests)
    /\ reported \subseteq 1..Len(requests)
    /\ logged \subseteq 1..Len(requests)
    /\ shown # 0 => requests[shown].state = "ok"

\* Mount: empty path, empty grid, dialog closed.
Init ==
    /\ path = EmptyPath
    /\ confirming = FALSE
    /\ requests = <<>>
    /\ shown = 0
    /\ reported = {}
    /\ logged = {}

\* TableGroup onChange: setPath(value).  The confirm dialog is modal.
EditPath(p) ==
    /\ ~confirming
    /\ path' = p
    /\ UNCHANGED <<confirming, requests, shown, reported, logged>>

\* The Submit button: setDaliPromptConfirm(true).  The path is not checked.
Submit ==
    /\ ~confirming
    /\ confirming' = TRUE
    /\ UNCHANGED <<path, requests, shown, reported, logged>>

\* The dialog's cancel: it closes and nothing is sent.
Dismiss ==
    /\ confirming
    /\ confirming' = FALSE
    /\ UNCHANGED <<path, requests, shown, reported, logged>>

\* The dialog's onSubmit, memoised on [path]: Delete({Path: path}).
Confirm ==
    /\ confirming
    /\ Len(requests) < MaxRequests
    /\ confirming' = FALSE
    /\ requests' = Append(requests, [path |-> path, state |-> "pending"])
    /\ UNCHANGED <<path, shown, reported, logged>>

\* The .then: csvParse(response.Result), setColumns from its header and
\* setItems from its rows, whichever request the answer belongs to.
DeleteAnswered(i) ==
    /\ requests[i].state = "pending"
    /\ requests' = [requests EXCEPT ![i].state = "ok"]
    /\ shown' = i
    /\ reported' = reported \cup {i}
    /\ UNCHANGED <<path, confirming, logged>>

\* Mutant of DeleteFailed: the grid updated in a .finally, so a failed
\* request's (missing) result replaces what the grid showed.
DeleteFailedShown(i) ==
    /\ requests[i].state = "pending"
    /\ requests' = [requests EXCEPT ![i].state = "failed"]
    /\ logged' = logged \cup {i}
    /\ shown' = i
    /\ UNCHANGED <<path, confirming, reported>>

\* The request fails, or its answer has no Result for csvParse: the .catch
\* logs the error and the grid keeps what it showed.
DeleteFailed(i) ==
    /\ requests[i].state = "pending"
    /\ requests' = [requests EXCEPT ![i].state = "failed"]
    /\ logged' = logged \cup {i}
    /\ UNCHANGED <<path, confirming, shown, reported>>

\* ESP answers request i or the browser gives up on it: an XHR settles.
Settle(i) == i \in DOMAIN requests /\ (DeleteAnswered(i) \/ DeleteFailed(i))

Next ==
    \/ \E p \in Paths : EditPath(p)
    \/ Submit \/ Dismiss \/ Confirm
    \/ \E i \in 1..MaxRequests : Settle(i)

Spec == Init /\ [][Next]_vars

-----------------------------------------------------------------------------
(* Properties                                                              *)

(***************************************************************************)
(* The grid shows the newest answer: once the answer to a Delete has been  *)
(* shown, the grid never goes back to the answer of an earlier Delete.     *)
(***************************************************************************)
NewestAnswerShown ==
    \A i \in reported : shown >= i

=============================================================================
