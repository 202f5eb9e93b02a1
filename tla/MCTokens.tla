------------------------------ MODULE MCTokens ------------------------------
(***************************************************************************)
(* The tokens of the instances: keywords of scanner/keywords.go that the   *)
(* texts are made of, with their category, and one or two of each class.   *)
(***************************************************************************)
EXTENDS Changes

UpTo(C, n) == UNION {[1..k -> C] : k \in 0..n}

MCIdentifiers == {"x", "y"}
MCIntegers == {"1", "08", "2x"}
MCStrings == {"'s'"}
MCLiterals == "1.5" :> "Float" @@ "b'1'" :> "BitString" @@ "param" :> "ParamRef"
MCRejected == {"08"}
MCFlawed == {"2x"}

MCReserved == {"all", "analyse", "analyze", "and", "any", "array", "as", "asc", "asymmetric",
  "both", "case", "cast", "check", "collate", "column", "constraint", "create", "current_date",
  "default", "deferrable", "desc", "distinct", "do", "else", "end", "except", "false", "fetch",
  "for", "foreign", "from", "grant", "group", "having", "in", "initially", "intersect", "into",
  "lateral", "leading", "limit", "localtime", "not", "null", "offset", "on", "only", "or",
  "order", "placing", "primary", "references", "returning", "select", "session_user", "some",
  "symmetric", "table", "then", "to", "trailing", "true", "union", "unique", "user", "using",
  "variadic", "when", "where", "window", "with"}

\* The words of statements, of expressions, and of queries
StatementWords == {"work", "transaction", "isolation", "level", "read", "only", "write",
  "serializable", "repeatable", "committed", "uncommitted", "prepared", "savepoint",
  "constraints", "local", "session", "deferred", "immediate", "privileges", "option", "admin",
  "cascade", "restrict", "schema", "label", "mode", "nowait", "verbose", "full", "freeze",
  "index", "concurrently", "next", "prior", "forward", "backward", "absolute", "relative",
  "owned", "by", "trigger", "event", "domain", "text", "search", "parser", "database",
  "exclusive", "plans", "stdin", "cursor", "scroll", "hold", "restart", "identity", "language"}
ExpressionWords == {"is", "like", "ilike", "between", "similar", "escape", "at", "time", "zone",
  "notnull", "isnull", "int", "unbounded", "preceding", "following", "row", "rows", "groups",
  "range", "partition", "over", "filter", "within", "ignore", "respect", "exclude", "ties",
  "others", "year", "month", "day", "hour", "minute", "second", "nfc", "varying", "precision",
  "without", "nulls", "first", "last", "current"}
QueryWords == {"join", "inner", "left", "right", "cross", "outer", "natural", "values",
  "conflict", "nothing", "matched", "source", "target", "rollup", "grouping", "sets", "share",
  "no", "key", "skip", "locked", "materialized", "recursive", "overriding", "value",
  "tablesample"}
JsonXmlWords == {"document", "content", "strip", "preserve", "whitespace", "name", "version",
  "standalone", "yes", "absent", "keys", "unique", "passing", "wrapper", "empty", "error", "json",
  "format", "encoding", "ref", "columns", "path", "nested", "ordinality", "xmlattributes",
  "xmlnamespaces", "conditional", "unconditional", "object"} \cup DOMAIN TableFunction
Openings == (DOMAIN FullDispatch \cup DOMAIN Prefixed) \ {"lparen", "op", "plus", "minus"}
MCKeywords == MCReserved \cup StatementWords \cup ExpressionWords \cup QueryWords
  \cup JsonXmlWords \cup Openings
-----------------------------------------------------------------------------
\* The instructions of a program, and of those they go on to, down to the
\* routines they call: the code that the table of routines is.
GoesOnTo(c) ==
  CASE c.op \in {"switch", "peek"} -> {c.other} \cup {c.cases[t] : t \in DOMAIN c.cases}
    [] c.op = "made" -> {c.yes}
    [] c.op = "until" -> {c.body}
    [] c.op = "ifdefault" -> {c.no}
    [] c.op \in {"call", "inner"} -> {Routine[c.name]}
    [] OTHER -> {}
InstructionsOf(programs) == UNION {{s[k] : k \in DOMAIN s} : s \in programs}

RECURSIVE CodeFrom(_, _)
CodeFrom(fresh, known) ==
  IF fresh = {} THEN known
  ELSE LET next == InstructionsOf(UNION {GoesOnTo(c) : c \in fresh})
       IN  CodeFrom(next \ (known \cup fresh), known \cup fresh)
Code == CodeFrom(InstructionsOf({Routine["Stmt"]}), {})
=============================================================================
