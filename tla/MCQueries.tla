------------------------------ MODULE MCQueries ------------------------------
EXTENDS JsonXmlSyntax, MCTokens

\* Every documented expression and statement, and two of them in one text
Removals == Made("DeleteStmt", Then(Relation(<<"delete", "from">>), Returned))
Pairs == {a \o <<"semi">> \o b : a, b \in {p.text : p \in Removals}}
QueryTexts == ExpressionTexts \cup SyntaxTexts \cup JsonXmlTexts \cup Pairs
-----------------------------------------------------------------------------
\* The statement parsers are what the theorems of StatementProofs need.
ASSUME StatementsAreCode == IsCode(Code)
=============================================================================
