------------------------------ MODULE MCDeparser ------------------------------
EXTENDS RoundTrip, MCTokens

\* The words of the definitions, and names that need quotes
MCDeparserNames == {"x", "y", "\"X\"", "\"from\"", "list"}
MCUnquoted == "\"X\"" :> "x" @@ "\"from\"" :> "from"
MCDeparserKeywords == MCKeywords \cup {"if", "exists", "integer", "boolean", "double", "numeric",
  "char", "bit", "timestamp", "temporary", "unlogged", "inherits", "generated", "always", "view",
  "replace", "bigint"}

\* A bit string, and what is written for it
MCReprefixed == "b'1'" :> "b'b1'"
MCDeparserLiterals == MCLiterals @@ "b'b1'" :> "BitString"
-----------------------------------------------------------------------------
\* The statement parsers are what the theorems of StatementProofs need.
ASSUME StatementsAreCode == IsCode(Code)
=============================================================================
