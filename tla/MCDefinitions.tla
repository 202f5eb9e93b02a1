---------------------------- MODULE MCDefinitions ----------------------------
EXTENDS ObjectSyntax, MCTokens

\* Words of definitions that are no keywords, and those that are
DefinitionIdentifiers == MCIdentifiers \cup {"list", "hash", "sfunc", "stype", "login", "oid",
  "is_template", "restrictive"}
DefinitionWords == {
  "access", "action", "add", "after", "aggregate", "also", "alter", "always",
  "assignment", "attach", "authorization", "before", "bigint", "bit", "boolean", "cache",
  "called", "cascaded", "char", "character", "class", "cluster", "collation", "commit",
  "compression", "configuration", "connection", "conversion", "cost", "cycle", "data",
  "decimal", "definer", "delete", "detach", "dictionary", "disable", "double", "drop",
  "each", "enable", "encoding", "enum", "execute", "exists", "expression", "extension",
  "family", "float", "force", "function", "generated", "global", "handler", "if",
  "immutable", "implicit", "import", "increment", "inherit", "inherits", "inline",
  "inout", "input", "insert", "instead", "integer", "interval", "invoker", "json",
  "location", "logged", "mapping", "match", "maxvalue", "method", "minvalue", "none",
  "notify", "numeric", "of", "off", "oids", "operator", "options", "out", "owner",
  "parallel", "partial", "password", "policy", "preserve", "procedural", "procedure",
  "publication", "real", "refresh", "rename", "replace", "replica", "reset", "returns",
  "revoke", "role", "rule", "security", "sequence", "server", "set", "setof", "simple",
  "smallint", "sql", "stable", "start", "statement", "statistics", "storage", "stored",
  "strict", "subscription", "system", "tables", "tablespace", "temp", "template",
  "temporary", "timestamp", "transform", "truncate", "trusted", "type", "unlogged",
  "until", "update", "valid", "validate", "validator", "varchar", "version", "view",
  "volatile", "wrapper", "xml"}
DefinitionReserved == MCReserved \cup {"current_user", "current_role"}
DefinitionKeywords == MCKeywords \cup DefinitionReserved \cup DefinitionWords

\* Every definition, ALTER and DROP followed by anything at all, but CREATE
\* TRANSFORM, from which Parse may not return.
AnyDefinitions ==
  LET created == (DOMAIN Creatable \cup DOMAIN Replaceable) \ {"transform"}
      kinds == {<<"create", k>> : k \in created} \cup {<<"alter", k>> : k \in DOMAIN Alterable}
        \cup {<<"drop", k>> : k \in DOMAIN Droppable \cup {"table", "trigger", "index"}}
      few == UpTo({"x", "lparen", "comma", "semi"}, 2)
      more == {<<"create", "table", "x", "lparen", "y", "int">> \o t :
                 t \in UpTo({"default", "not", "constraint", "references", "on", "rparen", "semi"}, 3)}
        \cup {<<"create", "rule", "x", "as", "on", "insert", "to", "y", "do", "lparen">> \o t :
                 t \in UpTo({"notify", "x", "semi", "rparen", "select"}, 3)}
        \cup {<<"alter", k, "x">> \o t : k \in {"table", "domain", "type", "function", "policy"},
                 t \in UpTo({"add", "drop", "set", "x", "not", "semi"}, 2)}
        \cup {<<"create", k, "x">> \o t : k \in {"function", "operator", "sequence", "role", "database", "trigger"},
                 t \in UpTo({"lparen", "x", "no", "with", "in", "rparen"}, 2)}
  IN  {k \o t : k \in kinds, t \in few} \cup more

\* One statement before and after another, some that end in an error
Repeated ==
  LET all == {<<"select", "x", "not", "in", "lparen", "x", "rparen">>,
        <<"select", "x", "not", "like", "'s'">>, <<"create", "table", "x">>,
        <<"create", "table", "x", "lparen", "y", "int", "default", "x", "not", "null", "rparen">>,
        <<"create", "table", "x", "lparen", "y", "int", "default">>,
        <<"create", "table", "x", "lparen", "y", "int", "default", "lparen", "x">>,
        <<"create", "table", "x", "lparen", "y", "int", "default", "not">>,
        <<"alter", "table", "x", "alter", "x", "set", "default", "x", "not", "between", "1", "and", "1">>,
        <<"alter", "table", "x", "add", "y", "int", "default", "x", "comma">>,
        <<"create", "temp">>, <<"create", "unique", "index", "on">>, <<"insert", "into">>,
        <<"create", "view", "x", "as", "select", "x", "not", "between", "1">>}
      semi == <<"semi">>
  IN  {a \o semi \o b \o semi \o a : a, b \in all}
AllDefinitionTexts == DefinitionTexts \cup AnyDefinitions \cup Repeated
-----------------------------------------------------------------------------
TransformTexts == {<<"create", "transform", "for", "int", "language", "x", "lparen">> \o t :
  t \in UpTo({"from", "sql", "x", "comma", "rparen"}, 3)}
\* Two of each kind of statement that should be told apart
ApartTexts ==
  LET pairs(A) == {a \o <<"semi">> \o b : a, b \in A}
      grants == {<<"revoke">> \o o \o <<"x", "on">> \o k \o <<"y", "from", "y">> :
                   o \in {<<>>, <<"grant", "option", "for">>}, k \in {<<>>, <<"table">>, <<"schema">>}}
      patterns == {<<"select", "x">> \o n \o p \o <<"'s'">> :
                     n \in {<<>>, <<"not">>}, p \in {<<"like">>, <<"ilike">>, <<"similar", "to">>}}
      links == {<<"select", "x">> \o w \o <<"lparen", "select", "y", "rparen">> :
                  w \in {<<"in">>, <<"not", "in">>, <<"eq", "all">>, <<"ltgt", "all">>}}
      domains == {<<"alter", "domain", "x">> \o a : a \in {<<"set", "not", "null">>, <<"set", "default", "x">>,
                   <<"drop", "not", "null">>, <<"drop", "default">>, <<"drop", "constraint", "x">>}}
      kinds == {<<"select", "x", "is", "json">> \o k :
                  k \in {<<>>, <<"object">>, <<"as", "object">>, <<"array">>}}
      roots == {<<"select", "xmlroot", "lparen", "x", "comma", "version", "no", "value", "comma",
                  "standalone", s, "rparen">> : s \in {"yes", "no"}}
  IN  pairs(grants) \cup pairs(patterns) \cup pairs(links) \cup pairs(domains)
        \cup pairs(kinds) \cup pairs(roots)
=============================================================================
