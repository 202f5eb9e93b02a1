# Formal model of gopgsql

gopgsql reads PostgreSQL's SQL with a hand-written scanner and recursive-descent
parser and returns the tree of every statement. This directory holds TLA+ modules
translated from its source, TLC configurations that check them on small
instances, and proofs for TLAPS. All paths below are relative to `src/`.

Contents: [the system](#the-system) · [modules](#modules) ·
[runs](#runs-and-what-they-show) · [bounds](#bounds) · [fairness](#fairness-and-deadlock) ·
[proofs](#proofs) · [findings](#findings) · [divergences](#divergences-read-in-the-code-without-a-run) ·
[not modelled](#what-is-not-modelled) · [plan](#plan).

## The system

There is one thread. `parser.Parse(src, errh)` pulls: the parser asks the scanner
for a token (`Scanner.Next`), the scanner asks the source for a character
(`source.nextch`), and the source asks the `io.Reader` for bytes (`Read`). The
results go up as return values and fields; errors go up by callback: `source.errh`
→ the closure of `parser.init` (`parser/parser.go:42`) → the caller's `errh`.

| Component | State | Operations | Interacts with |
|---|---|---|---|
| Rune source, `scanner/source.go` | `buf`, its indices `b r e`, `ioerr`, `line col`, `ch chw` | `init`, `nextch`, `rewind`, `start`, `stop`, `segment`, `fill` | `io.Reader` below, the scanner above; `errh` |
| Scanner, `scanner/scan*.go` | the token (`Tok Lit Bad Kind KwCat Line Col`), `pendingDotDot` | `Init`, `Next` and the loops it calls | drives the source; `errh` |
| Tokens and keywords | none: tables that nothing changes | `LookupKeyword` | read by the scanner and the parser |
| Parser driver, `parser/parser.go` | the current token, `first`, `errcnt`, `inColDefault`, the list being made | `Parse`, `parseStmtList`, `next`, `want*`, `got*`, `colId`, `colLabel`, `parseInt`, `syntaxError` | drives the scanner; called by every parse function |
| Parse functions, `parser/parse_*.go` | the node each is making, on the Go stack | one per statement or clause | only through the helpers of the driver and each other |
| Syntax tree, `parser/nodes.go` | – | type declarations | |
| Deparser, `parser/deparse*.go` | a `strings.Builder` | `Deparse*` | reads trees |

The parse functions fall into families: transactions, session, cursors and
utilities; privileges; expressions; queries; data modification; definition
statements (DDL); JSON and XML.

### What is hard

* **The source is re-entrant in time, not in code.** `fill` moves or copies the
  buffer in the middle of a rune and of a segment, at moments that the reader
  chooses; `r`, `b`, `e` and the sentinel must all follow. A test sees it only if
  a token spans a refill, and the buffer starts at 4 KB.
* **A call may fail after it has partly succeeded**: `Read` returns bytes with an
  error, an error in the middle of a rune, or nothing at all, ten times.
* **The scanner looks ahead by one character only** and so must remember, drop
  or rescan what it has passed: the second dot of `1..`, the end of an operator
  that PostgreSQL would have cut, a dollar-quote delimiter that turns out not to be one.
* **Two ways of reporting an error** in a literal (`errorf` and `Bad`) must agree.
* **Recovery in the parser is implicit.** Nothing unwinds; every parse function
  goes on after an error, and `parseStmtList` skips to a semicolon from wherever
  they stopped. Every loop in every parse function must therefore end at EOF and in error.
* **Grammar encoded as numbers**: precedence levels with `<=` and `+1` in some
  twenty places, lists of keywords that are no aliases, functions that call
  themselves on what they made.
* **A flag outlives a function**: `inColDefault` tells the expression parser, far
  down the stack, to leave NOT alone; it must be cleared on every way out.
* **What a word is, is known later**: a parameter's name or its type, a key of
  JSON_OBJECT or the clause after the keys, ADMIN as a privilege or as ADMIN OPTION FOR.
* **Two programs that must agree**: the deparser writes what the parser reads, in
  other files, from fields that either may forget.

### What makes each component correct

* *Source*: no byte lost, repeated or stale; position counted right; `nextch`
  returns; a caller cannot tell how the reader cut the input.
* *Scanner*: goes forward and comes to EOF; a token's text is what was read; a
  decoded literal re-encodes to its source; `Bad` iff an error was reported.
* *Driver*: statements in order and disjoint; every turn takes a token; no token
  dropped without an error; the first error kept, all counted; `Parse` returns.
* *Parse functions*: the documented form gives the documented node, whichever
  optional parts are present; two statements of different meaning have different
  nodes; operators grouped by the declared levels.
* *Deparser*: the text of a tree parses into the tree.

`PROJECT.json` has the full list of components and, under `hazards`, each place
in the code where one of these could go wrong, with the properties that would show it.

## Modules

```
Utf8 ── RuneStream                 abstract: runes of a file, no buffer
  └──── Source ── SourceProofs ── PositionProofs ── SourceRefinement
          └────── MCSource         detailed: implements RuneStream
Lexis ── Scanner ── ScannerProperties ── ScannerProofs ── QuotedProofs
                          └────── MCScanner
StatementList                      abstract: the list of statements, no statement parser
  └── Parser ── ParserProofs ── StatementProofs    detailed: the driver, for any table of parse functions
        └── Routines ── Statements ── Expressions ── JsonXml ── Primaries ── Queries ── Changes
              └── Tables ── Objects ── Services ── Alterations        (after Changes)
Phrases ─┬─ DocumentedSyntax   (with Statements)                ┐
         ├─ ExpressionSyntax   (with Changes)                   │ reference
         ├─ QuerySyntax ── JsonXmlSyntax                        │ grammars
         └─ DefinitionSyntax ── ObjectSyntax (with Alterations) ┘
Induction                          used by ScannerProofs and StatementProofs
Deparser ── Writing                nodes, and what is written for them
  └────── RoundTrip                instance of Writing, extends Alterations
MCTokens ── MCParser, MCQueries, MCDefinitions, MCDeparser
```

### Source and RuneStream

`Source` has the fields of `source` as variables and `input`, `taken` for the
reader. One call of `nextch` is several steps, because `Read` answers in between:

| `pc` | place in the code | actions |
|---|---|---|
| `idle` | no call is active | `CallNextch`, `CallRewind`, `Start`, `Stop`, `Reinit` |
| `redo` | label `redo` of `nextch` | `FastPath`, `SlowPath` |
| `need` | the loop that waits for a whole rune | `Fill` (first half of `fill`), `Decode`, `AtEOF` |
| `read` | `in.Read` in `fill` | `Read` (n bytes and an error), `ReadNothing` |

Bytes are eight classes (`Utf8`): enough to have runes of one, two and three
bytes, encodings that are cut short or broken, a NUL, a newline, the byte order
mark, and the U+FFFD that is written out in the file. The caller's part
(`Start`, `Stop`, `CallRewind`, `Reinit`) happens in any order between calls;
`CallRewind` keeps the condition in its comment ("must not contain newlines").
`RewindAtNewline` is a constant: with `TRUE` the model also rewinds while `ch` is
a newline, which the comment allows and which breaks the position (see
[divergences](#divergences-read-in-the-code-without-a-run)).

`RuneStream` is what the scanner relies on: a file, an offset, and the current
character with a position that is *counted from the file* (newlines before it,
bytes since the last one) rather than maintained. `Source!Stream` maps the offset
to `taken - e + r`, the segment to `taken - e + b`, and the character to none
while a call is active; `RefinesRuneStream` is the refinement.

### Scanner

`s.ch` is the character at `pos`; `nextch` is `pos + 1`. A loop that only skips a
class of characters is one step; a loop that decides at each character is one step
for each turn (`mode`): `block` (nested comments), `quoted` (the seven loops over
quoted forms, told apart by the record `form`), `dollar`. The actions are named after
the branches of `Next`; `Skip`, `Comment`, `Fixed`, `Numeric`, `Named`, `Quoted`, `Dollar` group them.
`pendingDotDot`, `bad`, `kind` keep their values where the code does not set them, and
`head`, `from` and `said` are history. `ScannerProperties` states tokens from the
text they were read from.

### Parser and the routines

A parse function is **a sequence of instructions**, one for each call of a helper
and each Go control structure around it: `want`, `switch` (`gotKeyword`, `gotSelf`),
`peek` (`isKeyword`, comparisons of `p.tok`), `until`, `ident`, `label`, `int`,
`take`, `fail`, `put` (an assignment to a field), `call`, `inner`. `Routine` is a
CONSTANT that maps names of functions to their instructions, so `Parser` is the
driver with *any* parse functions; the theorems of `ParserProofs` hold for all of them, those of
`StatementProofs` for all that are code.
`todo` is what is left to do: a Go stack flattened into a sequence.

| `pc` | place in `parseStmtList` | actions |
|---|---|---|
| `list` | head of the loop | `ListEnd`, `CallParseStmt` |
| `stmt` | in a parse function | one `Do…` action for each kind of instruction; `ReturnStmt` |
| `sep` | after `parseStmt` | `Separator` |
| `skip` | skipping to a semicolon | `SkipToSemicolon` |
| `done` | `Parse` has returned | – |

A node is the sequence of its fields in the order in which they are set (`tree`);
an expression is its postfix form, so that two groupings have two trees. `loc`
and `isNil` are the position of the node and a `nil` result. `RefinesStatementList` maps this to
`StatementList`, what is left of the driver for one who sees statements and errors only. A token is named by
its text; its index is its position. A token in `Flawed` makes the scanner report
an error when it is read, and one in `Rejected` is an integer that `ParseInt` refuses.

| Module | Source |
|---|---|
| `Statements` | `parse_txn.go`, `parse_cursor.go`, `parse_utility*.go`, `parse_grant.go`, `parse_drop.go` (REASSIGN), CLUSTER: what holds no expression; EXPLAIN, which calls `parseStmt` |
| `Expressions` | `parse_expr.go` (precedence climbing and suffixes), `parse_opforms.go`, `parse_valfuncs.go`, `parse_sqlfuncs.go`, `parse_types.go` |
| `JsonXml` | `parse_xmljson.go`, `parse_json_table.go`: the JSON and XML functions, IS JSON, the tables of FROM |
| `Primaries` | operands of `parse_expr.go`: constants, columns, calls, windows, CASE, ARRAY, ROW, sublinks |
| `Queries` | `parse_select.go` |
| `Changes` | `parse_dml.go`, `parse_merge.go`, and PREPARE, EXECUTE, DECLARE, COPY, TRUNCATE, DO, CALL |
| `Tables` | `parse_ddl.go`, `parse_ddl2.go`: CREATE TABLE with columns, constraints and partitions, CREATE INDEX, ALTER TABLE |
| `Objects` | `parse_define.go`, `parse_func.go`, `parse_matview.go`, and the views, domains and types of other files |
| `Services` | `parse_seq.go`, `parse_fdw.go`, `parse_database.go`, roles and schemas of `parse_grant.go` |
| `Alterations` | `parse_alter.go`, `parse_drop.go` and every other ALTER and DROP; `parseStmt` with all statements (`DefinitionRoutines`) |

`inColDefault` is a variable of `Parser`: two instructions set it and ask for it, and
`Initially` it is false; `ReturnStmt` does not touch it, as the code does not.

The precedence parameter of `parseExprPrec` becomes a family of routines
(`Prec0`, `Prec1`, …), each calling the next as the code does with `prec + 1`.

`DocumentedSyntax`, `ExpressionSyntax`, `QuerySyntax`, `JsonXmlSyntax`, `DefinitionSyntax`
and `ObjectSyntax` are grammars written *from the comments* above the parse functions
and from the table of levels (`parse_expr.go:11-30`), as sets of phrases (`Phrases`): a
text with the tree it stands for. They know nothing of instructions. The properties
`SyntaxIsParsed`, `ExpressionsAreGrouped`, `QueriesAreParsed`, `JsonXmlIsParsed` and
`DefinitionsAreParsed` say that the parser makes exactly that tree of that text,
without an error.

### Deparser and RoundTrip

`Deparser` is a pure function: a node (a function from the names of its fields to
their values; what is nil, zero or empty is not in its domain) to the tokens that the
scanner finds in what is written for it. Its operators have the names of the functions
of `deparse*.go` and take their branches in the same order; the mutual recursion of
`deparseNode` and `deparseExpr` is one recursive operator, `DeparseNode`. `Unquoted` maps a name that
needs quotes to what is read when it is written without them, which the code always does.
`Reprefixed` maps a bit string to what is written for it: the scanner keeps the letter before its
quote (`scan_string.go:282`), and `deparseConst` writes another (`deparse_expr.go:18-21`). Strings and numbers
are written as they were read; a hex string is stored as a string that begins with x, for which no token stands.

`Writing` pairs statements with their nodes, field by field as the parse functions set
them, over the same choices of optional clauses as the grammars. `RoundTrip` composes the two
programs: `WrittenTexts` is the set of texts *statement ; Deparse(node of the statement)*,
`Parser` parses each, and `RoundTrips` says that there are two statements, no error, and one
tree. A value of `Writing` that did not belong to its text would show as a violation, so
the composition also checks the nodes that the model of the deparser is given.

## Runs and what they show

Properties that hold:

| Run | Configuration | States | Shows |
|---|---|---|---|
| `source` | `MCSource_short` | 1,369,000 | `TypeOK`, `WindowIntact`, `SentinelInPlace`, `ReadHasRoom`, `PositionIsCounted`, and the refinement `RefinesRuneStream`: every cut of every short input, every error, every order of calls, and `init` on a used source |
| `source_long` | `MCSource_long` | 1,042,000 | `WindowIntact` and `ReadHasRoom` where a segment is moved and the buffer grows by both rules of `nextSize`; `NextchReturns` under fairness |
| `scanner` | `MCScanner_all` | 510,000 | `TypeOK`, `TokensAdvance`, `OperatorsAreLongest`, `NumbersAreWhole`, `PendingIsSecondDot`, `BadIffReported`, `QuotedFormsDecode`, `EscapesAreChecked`, `DollarStringsDecode`; `ReachesEOF` under fairness |
| `parser` | `MCParser_all` | 831,000 | `TypeOK`, `StmtsInOrder`, `TurnsConsume`, `ErrorsAreCounted`, `NothingIsLost`, `SyntaxIsParsed`, and the refinement `RefinesStatementList`; `ParseReturns` under fairness |
| `queries` | `MCQueries_all` | 934,000 | `ExpressionsAreGrouped`, `QueriesAreParsed`, `JsonXmlIsParsed` |
| `definitions` | `MCDefinitions_all` | 338,000 | `NothingIsLost`, `FlagIsCleared`, `DefinitionsAreParsed`, `NothingIsCarriedOver`; `ParseReturns` under fairness |
| `deparser` | `MCDeparser_all` | 750,000 | `RoundTrips` for every node that the deparser writes whole |

Properties that a comment or the documentation states and the code breaks (see
[findings](#findings)): `scanner_op_whole`, `parser_returned`, `definitions_apart`,
`definitions_hang`, `deparser_parens`.

The properties in words:

* `WindowIntact` – what the buffer must still hold (from the segment, or from the
  current character) is one contiguous piece of the input that ends where reading stopped.
* `SentinelInPlace` – the byte at `e` is the sentinel whenever `nextch` may look, so that
  the fast path, which does not compare `r` with `e`, never takes a stale byte for input.
* `ReadHasRoom` – `Read` never gets an empty slice, to which every reader answers `0, nil`.
* `PositionIsCounted` – line and column, kept by increments through `rewind`, skipped
  bytes and byte order marks, are those counted from the file.
* `TokensAdvance` – no token overlaps an earlier one, every token but EOF takes a character.
* `OperatorsAreLongest` – of the operator characters it read, `finishOperator` keeps exactly the longest start
  that holds no comment and does not end in a sign, unless it is the sign alone or a character
  that SQL's own operators do not have stands in it. What becomes of the rest is not said here (see the findings).
* `NumbersAreWhole`, `PendingIsSecondDot` – a good number is its text, and `1..` owes exactly its second dot.
* `QuotedFormsDecode`, `DollarStringsDecode` – the text is the quoting of the value; inverse of the loops that decode it.
* `EscapesAreChecked` – an `E'…'` that comes to its closing quote is bad only if one of its escapes is not that of
  a character, by its digits themselves. It is good only if each of them is that of a character or is a `\U` with a first
  digit of 8 or more: such a value is negative in a rune, and the code takes it (divergences).
* `BadIffReported` – a literal is bad exactly when an error was reported in it.
* `StmtsInOrder`, `TurnsConsume`, `ErrorsAreCounted` – the list, whatever the parse functions do.
* `NothingIsLost` – a turn without an error made a statement of *all* its tokens.
* `RefinesStatementList` – the driver with its recovery implements `StatementList`: what a caller sees
  of a turn is its own statement or its own errors, whatever a statement parser leaves unread.
* `SyntaxIsParsed`, `ExpressionsAreGrouped`, `QueriesAreParsed`, `JsonXmlIsParsed`,
  `DefinitionsAreParsed` – the reference grammars, above.
* `FlagIsCleared` – between statements `inColDefault` is clear, whatever failed in the one before.
* `NothingIsCarriedOver` – two equal statements of one list have the same node, extent and
  errors, whatever stands between them: a statement that fails in the middle of a
  column's DEFAULT must not leave NOT disabled.
* `RoundTrips` – the deparser's text of a node is parsed into that node. `deparser` checks it where it holds,
  and `deparser_parens` where it does not: names with quotes, operands in parentheses, two signs, bit strings.
* `TreesTellApart` – statements that differ in a word with a meaning have different nodes.

Every property of a run that passes has a mutant in `PROJECT.json`: an operator marked
`Fault` that stands before the definition it replaces, changed as a plausible bug would
change it, under which the run finds the property violated.

## Bounds

* **Source.** `MinBuf` 3 and `MaxBuf` 3 or 4 stand for 4 KB and 1 MB. Three is the
  least that leaves room for one byte of a three-byte rune beside the sentinel and
  the first byte, so inputs of three or four bytes already refill in the middle of a
  rune and of a segment, and seven bytes grow the buffer by doubling and then by adding.
  `MaxEmptyReads` is 2 rather than 10. The inputs are all sequences of up to two or
  three bytes over the classes that interact, and the longer ones that a rune or a
  mark needs. The proofs cover every size.
* **Scanner.** All texts of up to 4 characters over the alphabets of operators, of
  numbers, of quotes (after each prefix `E' B' X' N' U&' U&"`), up to 6 for dollar quotes
  (`$a$x$a$` is the shortest with a tag and a candidate), up to 5 for comments, and mixed
  ones. Escapes: both halves of a rune over the values around each bound of the range test, and every
  octal escape over the digits around 377. Four is enough for each cut of an operator: two strippable signs, an operator
  character that keeps them, and a comment start. `MaxOpLen` 3 stands for 64.
* **Lists.** All sequences of up to 5 tokens of statements with one and two tokens, a
  name that starts none, a flawed token, and semicolons: two errors with a statement
  before, between and after them.
* **Syntax.** Every phrase of the documented grammars with every option present and
  absent, one or two elements in each list, two names, one string. Every two of the short
  statements in one text, so that the state of one could leak into the next.
* **Anything at all.** The keyword of every statement followed by up to three tokens of
  the set that its branches compare with; the same in the place of an expression,
  after a table, inside the JSON and XML functions and tables, and after each CREATE, ALTER
  and DROP (two tokens there, three in the places with loops of their own: column
  constraints and the actions of a rule). These are for `ParseReturns` and `NothingIsLost`.
  CREATE TRANSFORM is left out of `definitions`, where `ParseReturns` would fail; it is
  `definitions_hang`.
* **Carried over.** Thirteen statements, of which five set `inColDefault` and some end in an
  error there, in every list of the kind *a ; b ; a*.
* **Round trips.** Every statement kind the deparser knows, each optional clause alone and with
  the ones it could be confused with; all chains of two binary operators under AND,
  OR and NOT, whose parentheses the deparser does write. What it is known to lose
  (see [divergences](#divergences-read-in-the-code-without-a-run)) is left out of
  `WrittenTexts`; `UnwritableTexts` holds one statement for each part of the finding.
* **Expressions.** Every operator of any kind on operands with at most one operator more,
  in each operand that the levels allow and with parentheses where they do not; every chain
  of three binary operators. A wrong `+1`, or a bound of
  BETWEEN that takes the AND after it, shows with two operators; the chains of three show
  that the loop goes on with what it has made.

## Fairness and deadlock

There is one thread and nothing in it waits, except for the reader.

* `Source!FairSpec` – weak fairness of `Nextch` (the program goes on) and of `Reader`
  (every `Read` returns). The caller has none: it need not call. Without an error the
  reader may return nothing only `MaxEmptyReads` times, which is `fill`'s own count.
* `Scanner!FairSpec` – weak fairness of `Step` (a call of `Next` goes on) and of `Call`
  (the parser asks until EOF, which `parseStmtList` does).
* `Parser!FairSpec` – weak fairness of `Next`. `definitions_hang` is a counterexample under this
  fairness: the parser goes on for ever and does not stop.

`CHECK_DEADLOCK FALSE` stands only in the parser's configurations: `Parse` returns.
The source and the scanner can always be called again.

## Proofs

Checked by TLAPS (SMT, Zenon, and LS4 for the temporal steps). No number of bytes,
characters, tokens or nesting bounds the theorems.

| Module | Theorems |
|---|---|
| `SourceProofs` | `SpecIInv`; `TypeOK`, `WindowIntact`, `SentinelInPlace`, `ReadHasRoom` |
| `PositionProofs` | `SpecPInv`; `PositionIsCounted` |
| `SourceRefinement` | `RefinesRuneStream`: `Source` implements `RuneStream` |
| `ScannerProofs` | `SpecSInv`; `TypeOK`, `TokensAdvance`, `PendingIsSecondDot`, `NumbersAreWhole`, `BadIffReported`, `DollarStringsDecode`, `OperatorsAreLongest` |
| `QuotedProofs` | `QuotedFormsDecode`, `EscapesAreChecked` |
| `ParserProofs` | `SpecIInv`; `StmtsInOrder`, `TurnsConsume`, `ErrorsAreCounted` |
| `StatementProofs` | `TypeOK`, `NothingIsLost`, `FlagIsCleared`; `RefinesStatementList`: `Parser` implements `StatementList` |

**Source** — assumptions: `Inputs` are sequences of bytes, `Answers` are the three
answers, `MinBuf >= 3`, `MaxBuf` and `MaxEmptyReads` positive. Three is needed: with a
buffer of two, a segment of one byte leaves no room beside the sentinel after `Fill`
has decided not to grow.

`IInv == TypeOK /\ WindowIntact /\ SentinelInPlace /\ ReadHasRoom`. The parts hold only
together: the fast path stays within the window *because* the sentinel is at `e`
(`SentinelNotAscii`); `Read` can put the sentinel there *because* it has room;
it has room *because* `Fill` grows when more than half is kept (`NextSizeGrows`);
and the window stays intact *because* the indices are ordered as `TypeOK` says. One lemma for
each action, and `NextIInv` puts them together.

*Position.* `PositionIsCounted` is not inductive: `rewind` goes back to the segment and
`nextch` then adds the width of the character it was at. `PInv` adds `CharBytes`, that between
calls the bytes of `ch` are the newline before `r`, or have none among them. Going back
over bytes without a newline takes off the column what they have added (`PositionBack`,
`PositionInLine`). The theorem has the hypothesis `~RewindAtNewline`, and so has the
refinement: `rewind` at a newline, which its comment does not forbid, counts the newline twice, and
with `TRUE` the property fails. Nothing in the repository calls `rewind`, so the hypothesis
restricts no behaviour of the program; without it the theorem would be false. The runs use `FALSE` too.

*Refinement.* A step of `Source` that delivers a character is the step of `RuneStream` that
delivers it, every other step is a stutter: `Fill`, `Read`, `ReadNothing` and `SlowPath` change
no variable of the stream, since it is the input offset of the indices that counts. The hard
case is `Decode`: what is decoded is the bytes in the window, and what the stream decodes is the
rest of the file. `DecodePrefix` says that a piece which is a full rune, or at least `UTFMax`
bytes long, decodes as the whole does. The invariant `ErrorsArePending` is added for the piece that
is neither: then the reader has stopped, at the end of the file (the piece is
the rest) or with an error, and `RuneStream` allows the rune that is cut off to be one in
error (`DecodeTruncated`).

**Scanner** — assumptions: `Texts` are sequences of characters, `MaxOpLen` is positive.
`SInv == TypeOK /\ LoopInv /\ TokenInv`. `LoopInv` says what holds inside the loops of
`Next`: the token began before the character that is looked at; no DOT_DOT is owed there
(so `PendingIsSecondDot` cannot be broken by a token that begins in a loop); `flaw`, which is
`ok` of the code, says whether an error has been reported (hence `BadIffReported` at the end of the
loop); and the builder of a dollar-quoted string, after its delimiter, is the text
since the opening one. The last makes `DollarStringsDecode`
a step: the loop ends when a candidate is the delimiter, and what was read between the two is
what the builder has. One lemma for each group of branches of `Next`.

`QuotedFormsDecode` needs one more invariant, `QuotedLoop`: the text since the opening
quote is the quoting of what has been collected. A character adds its image at the end
(`QuotingGrows`), a doubled quote adds two, and the quote that ends the form is not
part of the value.

`EscapesAreChecked` reads the escapes off the whole token, where a backslash begins one if an
even number of them stands before it; the loop sees one character at a time. `EscapeLoop`
brings the two together: before the next character stands an even number of backslashes
(`RunGrows`, `SameRun`), so that the backslash the loop takes for an escape is one, and a flaw was found
exactly when one of the escapes that have been read does not pass (`Passes`: it is that of a character, or
negative). What an escape adds to this is two lemmas.
`EscapeReads`: it is a second backslash or has none, so that the number stays even. `EscapeMeets`: no error
was reported in it exactly when it passes. The code tests a number in
32 bits; it is the value of the digits (`Values`, `RuneOf`, `OctalValue`), and refusing surrogates and what is above
U+10FFFF by that number is refusing them by the leading digits, as the property does (`HalvesOf`, `QuarterDigits`),
where the number is not negative.
At the end of the token a flaw makes it bad. The tokens that are not E'…' strings are those without escapes, by `EscapedForm`.

**Parser, for every table** — assumptions: texts are sequences of strings, none of which is "EOF".
Nothing is assumed of `Routine` in `ParserProofs`: its theorems hold for the parse functions that
are modelled, for those that are not, and for any that will be written with these helpers.

An instruction does one of four things to the place in the text and to the errors —
nothing, `Consume`, `Report`, both (`Effect`, lemma `InstructionEffect`) — and nothing
at all to the list (`Outside`). `IInv == Types /\ TurnsInOrder /\ StmtsInOrder /\
StmtAfterEarlier` is proved over the four effects and the five actions of the list.
The strengthenings say where turns begin relative to the current token, that the
recovery has something to skip (this is why a turn takes a token even if its parse
function takes none), and that the statement being parsed begins after all that were
finished. `SpecStmtsInOrder` and `SpecTurnsConsume` follow. `SpecErrorsAreCounted` has
an invariant of its own, `Record` (what is kept and counted is what the log says, and
the log never runs ahead of the current token), proved over the same four effects.

**Parser, for parse functions that are code** — what types a node has, and what becomes of a
token, does depend on the table. `IsCode(C)` of `Parser` is what `StatementProofs` assumes
of it: `C` has every instruction that a routine can come to, the fields and values in them are strings,
and each routine, branch and body is a program in which

* `nil` stands after a `fail` (`NilAfterFail`): a parse function returns nil only
  after it has called `syntaxError`;
* what sets `inColDefault` is followed by what clears it (`ClearsFlag`).

The hypothesis is not taken on trust. TLC evaluates it as the assumption
`StatementsAreCode` of `MCQueries` (for `FullRoutines`) and of `MCDeparser` (for
`DefinitionRoutines`, every statement), where `Code` is the closure of the table; together with
the theorem this covers all texts, and the runs only the texts of their bounds.
It is false for a table with a fault: `NothingSilent` of `Alterations` returns nil without an
error, `DefaultStays` of `Tables` leaves the flag set.

The invariants are about `todo`, the stack of what is left to do. It is
a concatenation of programs and of the tails of programs, and both conditions survive
concatenation (`NilAfterFailConcat`, `ClearsFlagConcat`) and taking off the head (`…Tail`), unless
the head is the failure that was waited for — then the error has been reported. So `LInv` says of the turn
that runs: an error has been reported in it, or a failure still stands before every `nil`; a turn whose
statement parser returns nil has therefore reported one, and one that returns a statement accounts
for its tokens by the statement's extent. `FInv` says in the same way that the flag is
clear or will be cleared by what is left; at the return nothing is left.

*Refinement.* `StatementList` has no statement parser: a turn is one step, which goes on to after a
semicolon or to the end of the text and is either `Whole` (one statement of all its tokens, no error) or
`WithErrors` (errors within it, perhaps a statement of some of its tokens, and the earliest error of all is
kept). The mapping hides the turn that runs: `at` is where it began, its statement and its errors are
left out. So the steps of a turn stutter (`TurnRefines`), which needs that what they report is no
earlier than the turn (`HiddenErrors`), and its last step is the turn (`EndRefines`). The
invariant `Bounds` is added, which keeps the turns apart: when the next turn begins, all errors and all
statements lie before it, but for errors at EOF, after which no turn begins. A turn without an
error is `Whole` by the same reasoning as `NothingIsLost`, from `LInv`; so the hypothesis is again
`IsCode(C)`, and with a table that returns nil in silence the theorem would be false.

**What the proofs rest on.** `Induction` derives induction over the naturals from
`WellFoundedInduction`, stated of sets (`SetInduction`: a set with 0 and all successors has every
natural), because a fact with an operator as parameter cannot be cited; the lemmas about
`FlattenSeq`, `IsSuffix` and `Entries` are proved by it. `LiteralsAreStrings` (in `Parser`) says that three
literals are strings, which TLC evaluates and the provers do not know. `Entries` is a
recursive function and not `SelectSeq`, about which the provers know nothing.

**Only model-checked**: liveness (`NextchReturns`, `ReachesEOF`, `ParseReturns`), which is
out of the prover's reach; and the properties about particular routines and a finite set of
texts: `SyntaxIsParsed`, `ExpressionsAreGrouped`, `QueriesAreParsed`, `JsonXmlIsParsed`,
`DefinitionsAreParsed`, `NothingIsCarriedOver`, `RoundTrips`. For these the run is the whole
statement, or the routines are RECURSIVE operators, which the prover does not take; so is `Deparser`.

## Findings

Each is a run that TLC ends with a counterexample. `definitions_apart` stands for six: with
all but one of the pairs of `ApartTexts` removed it still ends in a violation, for each.

| Run | Stated | Done |
|---|---|---|
| `scanner_op_whole` | `scan_operator.go:31`: PostgreSQL's post-processing of operators | what is cut off is lost instead of being scanned again: of `*-1` the sign disappears |
| `parser_returned` | `README.md:58`: a nil handler collects the first error | errors of the scanner reach the handler only; without one `Parse` returns no error |
| `definitions_apart` | `README.md:11`: a tree equivalent to PostgreSQL's | REVOKE GRANT OPTION FOR has the node of REVOKE (`parse_grant.go:78`) |
| `definitions_apart` | `nodes.go:73`: `[NOT] SIMILAR TO` | NOT is dropped (`parse_expr.go:729`) |
| `definitions_apart` | `parse_expr.go:636`: NOT IN is negated later | before a subquery it is `= ALL`, not `<> ALL` (`:649`) |
| `definitions_apart` | `nodes.go:1870`: `'N'` is DROP DEFAULT | ALTER DOMAIN gives it to DROP NOT NULL as well (`parse_alter.go:88`) |
| `definitions_apart` | `parse_xmljson.go:485`: OBJECT and SCALAR are identifiers | they are keywords: `x IS JSON OBJECT` is `x IS JSON AS object` (`:489`) |
| `definitions_apart` | `README.md:11` | STANDALONE YES, NO and NO VALUE of XMLROOT have one node (`parse_xmljson.go:146`) |
| `definitions_hang` | `README.md:164`: the parser stops at the first error | CREATE TRANSFORM FOR int LANGUAGE x (y) is never left (`parse_define.go:339`) |
| `deparser_parens` | `deparse.go:8`: a node back into SQL text | operands without parentheses, names without quotes, `- -x` written as a comment (`deparse_expr.go:42, 57-63`), B'1' written B'b1' (`:18-21`) |

## Divergences read in the code, without a run

Met while translating. The model does what the code does in each case; no property is
kept for them.

*Source.* A NUL byte is reported and skipped on the fast path (`source.go:101`) and
delivered by `DecodeRune` on the slow one (`:124`), depending on how the reader cut the
input. `rewind` while `ch` is a newline counts the newline twice (`:77-92`); the function has no caller.

*Scanner.* `N'…'` is scanned from its opening quote on: `N'a'` is an empty string and then the
name `a` (`scan_ident.go:33-34`). `Init` does not reset `pendingDotDot` (`scanner.go:31`). Line and column
of an operator that starts with `-` or `/` are those of its second character (`:117`).
Identifiers and keywords keep the `Bad` of an earlier literal (`scan_ident.go:76`).
`u&a` loses the `&`: the comment says it is still `ch`, but `nextch` has passed it
(`scan_ident.go:39-52`). `0b12` is the two numbers `0b1` and `2`, without an error (`scan_number.go:154`).
In `$a$x$b$a$` the `$` that closes the candidate `$b$` is not tried as the start of the next,
so the string does not end there (`scan_string.go:390-398`). `\UFFFFFFFF` is -1 in 32 bits
and passes the range test (`:151`; `EscapesAreChecked` allows it by name, `IsNegative`), and `\uFFFD` is taken for the error value and dropped (`:66`).

*Parser, list.* `README.md:164` says that parsing stops at the first error; it goes on. If the token in error is
the semicolon, it has been passed when the recovery begins, and the next statement is skipped
too (`parser.go:267, 375`). Empty statements are
errors. `StmtEnd` (`nodes.go:45`: a byte offset, or -1) is `line*10000+column` and never -1;
`Location` is that of the second token for most statements. `parseInt` uses base 0,
so `017` is 15 and `08` an error (`parser.go:445`).

*Parser, statements.* LOCK … IN takes every token up to MODE, over semicolons
(`parse_txn.go:342`). NOTIFY accepts a comma without a payload (`:256`). ASENSITIVE never
matches: it is compared as a keyword and then as an identifier (`parse_cursor.go:21`). FETCH 0 and FETCH ALL
have one node. ON DATABASE becomes `OBJECT_SCHEMA` (`parse_grant.go:172`). LOAD, COMMIT PREPARED and
COMMENT … IS accept a missing string. EXPLAIN `(` is always taken for options.

*Parser, expressions.* `x IN ((1), 2)` is parsed as a subquery and rejected (`:640`).
Comparison, BETWEEN and LIKE chain, which PostgreSQL rejects. Reserved keywords are accepted
as columns. `(expr).field` and `x[:]` are not parsed. In the DEFAULT of a column NOT before IN, LIKE and BETWEEN
is an error even in parentheses (`parse_expr.go:294`). A prefix operator binds like unary minus.
The restricted expressions of BETWEEN have no subscripts, `|`, `->` or `OPERATOR()`.
FLOAT(n) is float8 whatever n (`:1672`). A VARIADIC argument cannot be named.

*Parser, queries and changes.* UNION and INTERSECT have one precedence. The LIMIT of
`(SELECT … LIMIT 1) LIMIT 2` overwrites the inner one. A subquery that starts with WITH, and
WITH before TABLE, are errors. After a subselect in FROM, join keywords are taken for an alias and AS may be doubled.
ORDER BY … USING `<` and a top-level TABLE t ORDER BY are rejected. The node of a set
operation stands at the word UNION. INSERT INTO t `(SELECT …)` is taken for a column list
(`parse_dml.go:29-47`), and after an alias the column list becomes the alias's (`:20`; `nodes.go:646`:
nil columns are all of them). WHERE CURRENT OF is not supported.

*Parser, JSON and XML.* INDENT of XMLSERIALIZE and CONDITIONAL, UNCONDITIONAL of JSON_QUERY are
keywords that the code compares with an identifier: the documented forms are errors
(`parse_xmljson.go:187, 347`). In XMLTABLE a path takes the NOT of NOT NULL for an operator, which is
an error without a DEFAULT between them (`parse_json_table.go:393`). After JSON_TABLE and XMLTABLE without an
alias the word of a join is taken for one (`parse_select.go:467`). JSON_OBJECT without pairs
cannot have WITH UNIQUE KEYS, and NULL is no key and no element, for the list stops at it
(`parse_xmljson.go:228, 291`); a key without a value is dropped. AS in XMLNAMESPACES is not parsed. A
behaviour without ON is dropped, and so is STRIP or PRESERVE WHITESPACE.

*Parser, definitions.* RETURNS NULL ON NULL INPUT in a function without RETURNS reads NULL as its
type. `f(x DEFAULT 1)` is misparsed: the branch for the default of an unnamed parameter is not reached. STRICT, IMMUTABLE and
COST in ALTER FUNCTION, INHERIT in the options of a role, are keywords compared with an identifier, and
an unknown word is swallowed. The arguments of ALTER AGGREGATE are dropped. ALTER DATABASE RENAME and
OWNER TO are errors; ALTER TYPE ADD ATTRIBUTE and RENAME TO, ALTER TABLE SET ( and RESET ( leave
the rest of the statement to an error; ALTER CONSTRAINT and NOT DEFERRABLE
leave their attributes. ON with neither UPDATE nor DELETE is swallowed, ON UPDATE SET without a word is
accepted, MATCH is found only after the actions. EXCLUDE takes the keyword alone. GENERATED alone, and
DEFERRABLE in a column, become `CONSTR_NULL`; COLLATE ends the constraints of a column. TEMP and
UNLOGGED before what is no table are dropped. `AS 'a',` is accepted. CREATE RULE … DO ( runs past the end of the statement.
SET SCHEMA has a RenameStmt. DROP DEFAULT and DROP NOT NULL of ALTER DOMAIN: see the findings.

*Deparser.* Besides the finding: AT TIME ZONE is written `x timezone y`; ESCAPE, window frames, NOWAIT and
SKIP LOCKED, the WITH of VALUES and of set operations, the parentheses of set operations and of
joins, grouping sets, table constraints, the modifiers of a type after WITH TIME ZONE, the WHERE of
ON CONFLICT, the actions of a foreign key, ALWAYS or BY DEFAULT of an identity, the parentheses, collation and
class of an index expression, the values of EXPLAIN's options, the check option and persistence of a view are lost.
The alias of INSERT takes the column list after it, as in the parser.

## What is not modelled

* **Fields of `nodes.go`**: type declarations have no behaviour. What the parse functions set stands
  in their trees, and what the deparser reads in the values of `Writing`.
* **Two nodes of the deparser**, `RangeFunction` and `PartitionCmd`: no parse function makes them.
* **Words compared with an identifier although they are keywords** (see the divergences) can be
  reached only with quotes; the model has no quoted name that is one of these words, and leaves the branch out.
* **Values**: which number a literal or a numeric escape stands for, beyond whether the escape's is a
  character; the range test works on both halves of a 32-bit rune.
* **`Init` on a scanner in use**: a parser is made with its scanner and begins once (`parser.go:42`), so the scanner
  starts in `Init` and never comes back to it. `Source` does model `init` on a used source.
* **Wording of errors**, and positions beyond their order: the encoding of `p.pos` is
  monotone except for lines of 10000 characters and more.
* **The depth of Go's stack**: the code has no limit and so no behaviour to model.
* Tests and examples are not part of the program.

## Plan

| Step | Contents | State |
|---|---|---|
| A | `Utf8`, `RuneStream`, `Source`; refinement; `SourceProofs` | done |
| B | `Lexis`, `Scanner`, `ScannerProperties` | done |
| C | `Parser`, `Routines`, `Statements`, `DocumentedSyntax`; `ParserProofs` | done |
| D | `Expressions`, `Primaries`, `Queries`, `Changes`; `ExpressionSyntax`, `QuerySyntax` | done |
| E | `Tables`, `Objects`, `Services`, `Alterations`; `DefinitionSyntax`, `ObjectSyntax`; `inColDefault` | done |
| F | `Deparser`, `Writing`, `RoundTrip` | done |
| G | `JsonXml`, `JsonXmlSyntax` | done |
| H | `PositionProofs`, `SourceRefinement`, `Induction`, `ScannerProofs`, `QuotedProofs`, `StatementProofs` | done |
| I | 32-bit values of `\u`, `\U`, octal escapes, and surrogates (`EscapesAreChecked`) | done |
| J | `EscapesAreChecked` for every text; `StatementList` and its refinement | done |
