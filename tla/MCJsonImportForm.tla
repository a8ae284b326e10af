--------------------------- MODULE MCJsonImportForm ---------------------------
(* The import form with two landing-zone files.  Prefixes: empty, a plain  *)
(* scope, a scope ending in "::" (all valid) and a lone ":" (invalid);      *)
(* target names: a valid one and one with a ":" (invalid).                  *)
EXTENDS JsonImportForm

CONSTANTS f1, f2

MCFiles == {f1, f2}

MCFileName == [f \in MCFiles |-> <<"a", "a">>]

MCSelections == {<<f1>>, <<f1, f2>>}

MCPrefixChoices == {<<>>, <<"a">>, <<"a", ":", ":">>, <<":">>}

\* The batch-reporting run: names do not bear on it, so the empty (valid) and one
\* invalid prefix suffice.
MCPrefixFew == {<<>>, <<":">>}

MCTargetChoices == {<<"a", "a">>, <<"a", ":">>}
==============================================================================
