------------------------------- MODULE Parser -------------------------------
(* Tokenizer and Parser: the text of a batch of statements, its tokens and    *)
(* its syntax trees. A text is a sequence of pieces: a word, a run of digits,  *)
(* or one other character.                                                     *)
(*                                                                             *)
(* A position is an index of a piece or a token; Lost is where an exception     *)
(* leads, and nothing leads away from it.                                      *)
EXTENDS Integers, Sequences, FiniteSets, SequencesExt, FiniteSetsExt

CONSTANTS Names,  \* words that are no keywords
          Digits  \* runs of digits

VARIABLES
  query, \* the statements that are meant, and the gap between tokens
  state, \* where the parser is
  out    \* the statements parsed

IsParse == query.op = "parse"

Lost == 0

-----------------------------------------------------------------------------
(* Words. *)

Reserved ==
  {"SELECT", "FROM", "WHERE", "GROUP", "ORDER", "HAVING", "LIMIT", "OFFSET", "QUALIFY", "UNION",
   "INTERSECT", "EXCEPT", "WITH", "RECURSIVE", "INSERT", "INTO", "UPDATE", "DELETE", "SET", "VALUES",
   "CREATE", "DROP", "ALTER", "EXPLAIN", "COPY", "TABLE", "TO", "JOIN", "INNER", "LEFT", "RIGHT", "FULL",
   "OUTER", "CROSS", "ON", "USING", "NATURAL", "AND", "OR", "NOT", "IS", "IN", "LIKE", "BETWEEN", "NULL",
   "TRUE", "FALSE", "DISTINCT", "ALL", "ASC", "DESC", "AS", "BY", "CASE", "WHEN", "THEN", "ELSE", "END",
   "CAST", "EXISTS", "OVER", "PARTITION", "FILTER", "NULLS", "FIRST", "LAST", "COLUMN", "IF", "ADD"}

\* Keywords that may be the name of a column in an expression ...
NameInExpression ==
  {"GENERATE_SERIES", "VIEW", "FILTER", "SAMPLE", "IF", "YEAR", "MONTH", "DAY", "HOUR", "MINUTE",
   "SECOND", "EPOCH", "DOW", "DATE", "TIME", "TIMESTAMP", "MATCHED", "CONFLICT", "DO", "NOTHING",
   "RETURNING", "ROWS", "RANGE", "PRECEDING", "FOLLOWING", "ROW", "CURRENT", "UNBOUNDED"}

Aggregates == {"COUNT", "SUM", "AVG", "MIN", "MAX"}

TypeNames ==
  {"INTEGER", "INT", "BIGINT", "SMALLINT", "TINYINT", "HUGEINT", "FLOAT", "DOUBLE", "REAL", "BOOLEAN",
   "BOOL", "VARCHAR", "TEXT", "CHAR", "BLOB", "DATE", "TIME", "TIMESTAMP", "DECIMAL", "NUMERIC"}

\* ... and all that are not reserved.
NonReserved ==
  (NameInExpression \ {"FILTER", "IF"}) \cup Aggregates \cup TypeNames \cup
  {"PRIMARY", "KEY", "UNIQUE", "DEFAULT", "CHECK", "REFERENCES", "FOREIGN", "FOR", "CONSTRAINT", "INDEX",
   "DESCRIBE", "PRAGMA", "LIVE", "NOW", "CURRENT_TIMESTAMP", "CURRENT_DATE", "EXTRACT", "TRUNCATE",
   "ILIKE", "ESCAPE", "UNKNOWN", "PIVOT", "UNPIVOT", "MERGE", "BEGIN", "COMMIT", "ROLLBACK", "TRANSACTION"}

Keywords == Reserved \cup NonReserved
Words    == Keywords \cup Names
WordPieces == Words \cup Digits \cup {"_"}

-----------------------------------------------------------------------------
(* Tokenizer. *)

Text == query.text
Peek(at) == IF at \in DOMAIN Text THEN Text[at] ELSE ""

RECURSIVE Between(_, _), Past(_, _), UpTo(_, _), SkipBlockComment(_)
Between(from, to) == IF from > to THEN "" ELSE Text[from] \o Between(from + 1, to)

\* The first position from one on whose piece is none of the set, or one of it.
Past(at, pieces) == IF Peek(at) \in pieces THEN Past(at + 1, pieces) ELSE at
UpTo(at, pieces) == IF at > Len(Text) \/ Peek(at) \in pieces THEN at ELSE UpTo(at + 1, pieces)

SkipLineComment(at) == UpTo(at, {"\n"})

SkipBlockComment(at) ==
  CASE Peek(at) = "" -> Lost
    [] Peek(at) = "*" /\ Peek(at + 1) = "/" -> at + 2
    [] OTHER -> SkipBlockComment(at + 1)

RECURSIVE SkipWhitespace(_)
SkipWhitespace(at) ==
  CASE Peek(at) \in {" ", "\n"} -> SkipWhitespace(at + 1)
    [] Peek(at) = "-" /\ Peek(at + 1) = "-" -> SkipWhitespace(SkipLineComment(at))
    [] Peek(at) = "/" /\ Peek(at + 1) = "*" -> SkipWhitespace(SkipBlockComment(at + 2))
    [] OTHER -> at

Token(type, value, at) == [type |-> type, value |-> value, at |-> at]

ReadIdentifierOrKeyword(at) ==
  LET end  == Past(at, WordPieces)
      word == Between(at, end - 1)
  IN  Token(IF word \in Keywords THEN word ELSE "IDENTIFIER", word, end)

ReadNumber(at) ==
  LET PastDigits(i) == IF Peek(i) \in Digits THEN i + 1 ELSE i
      whole    == PastDigits(at)
      point    == IF Peek(whole) = "." /\ Peek(whole + 1) # "." THEN PastDigits(whole + 1) ELSE whole
      exponent == IF Peek(point + 1) \in {"+", "-"} THEN point + 2 ELSE point + 1
      end      == IF Peek(point) # "e" THEN point ELSE IF Peek(exponent) \in Digits THEN exponent + 1 ELSE Lost
  IN  Token(IF end = whole THEN "INTEGER_LITERAL" ELSE "FLOAT_LITERAL", Between(at, end - 1), end)

RECURSIVE ReadString(_, _)
ReadString(at, value) ==
  CASE Peek(at) = "" -> Token("STRING_LITERAL", value, Lost)
    [] Peek(at) # "'" -> ReadString(at + 1, value \o Peek(at))
    [] Peek(at + 1) = "'" -> ReadString(at + 2, value \o "'")
    [] OTHER -> Token("STRING_LITERAL", value, at + 1)

QuotedIdentifier(at) ==
  LET end == UpTo(at + 1, {"\""})
  IN  Token("IDENTIFIER", Between(at + 1, end - 1), IF end > Len(Text) THEN Lost ELSE end + 1)

Pairs   == {"::", "<=", "<>", "<<", ">=", ">>", "!=", "||"}
Singles == {"(", ")", "[", "]", "{", "}", ",", ";", ".", ":", "+", "-", "*", "/", "%", "=", "<", ">", "|", "&", "^"}

Punctuation(at) ==
  LET pair == Peek(at) \o Peek(at + 1)
  IN  IF pair \in Pairs THEN Token(pair, pair, at + 2)
      ELSE Token(Peek(at), Peek(at), IF Peek(at) \in Singles THEN at + 1 ELSE Lost)

NextToken(at) ==
  LET c == Peek(at)
  IN  CASE c = "" -> Token("EOF", "", at)
        [] c \in Words \cup {"_"} -> ReadIdentifierOrKeyword(at)
        [] c \in Digits \/ (c = "." /\ Peek(at + 1) \in Digits) -> ReadNumber(at)
        [] c = "'"  -> ReadString(at + 1, "")
        [] c = "\"" -> QuotedIdentifier(at)
        [] OTHER -> Punctuation(at)

\* The tokens of a text, none if there is an exception.
RECURSIVE Tokens(_, _)
Tokens(at, before) ==
  LET start == SkipWhitespace(at)
      token == NextToken(start)
  IN  IF start = Lost \/ token.at = Lost THEN <<>>
      ELSE IF token.type = "EOF" THEN Append(before, token)
      ELSE Tokens(token.at, Append(before, token))

-----------------------------------------------------------------------------
(* The parser's look at its tokens. *)

Type(at)  == IF at \in DOMAIN state.tokens THEN state.tokens[at].type ELSE "lost"
Value(at) == IF at \in DOMAIN state.tokens THEN state.tokens[at].value ELSE ""

Advance(at)     == IF Type(at) \in {"EOF", "lost"} THEN at ELSE at + 1
Match(at, type) == IF Type(at) = type THEN Advance(at) ELSE at
Expect(at, type) == IF Type(at) = type THEN Advance(at) ELSE Lost

IsIdentifierOrNonReserved(at) == Type(at) = "IDENTIFIER" \/ Type(at) \in NonReserved
ExpectIdentifier(at) == IF IsIdentifierOrNonReserved(at) THEN at + 1 ELSE Lost

None == [is |-> "none"]
Node(tree, at) == [tree |-> tree, at |-> at]

-----------------------------------------------------------------------------
(* Expressions. *)

Binary(op, l, r)  == [is |-> "binary", op |-> op, left |-> l, right |-> r]
Compare(op, l, r) == [is |-> "compare", op |-> op, left |-> l, right |-> r]
Not(e)            == [is |-> "not", of |-> e]
Minus(e)          == [is |-> "minus", of |-> e]
Literal(kind, v)  == [is |-> "literal", kind |-> kind, value |-> v]
Column(table, n)  == [is |-> "column", table |-> table, name |-> n]
Test(e, t, n)     == [is |-> "test", of |-> e, test |-> t, negated |-> n]
Cast(e, t, try)   == [is |-> "cast", of |-> e, type |-> t, try |-> try]
Subquery(k, s, e) == [is |-> "query", kind |-> k, select |-> s, of |-> e]
Call(n, args)     == [is |-> "call", name |-> n, args |-> args, distinct |-> FALSE, star |-> FALSE, filter |-> None]
WindowOf(n, args, f, p, o) ==
  [is |-> "window", name |-> n, args |-> args, filter |-> f, partition |-> p, order |-> o]

\* Parse(what, at) reads one of what the grammar names at a position.
RECURSIVE Parse(_, _)

ParseExpression(at) == Parse("or", at)
ParseAddSub(at)     == Parse("sum", at)

CommaList(what, at) ==
  LET RECURSIVE More(_, _)
      More(from, before) ==
        LET item == Parse(what, from)
            all  == Append(before, item.tree)
        IN  IF Type(item.at) = "," THEN More(item.at + 1, all) ELSE Node(all, item.at)
  IN  More(at, <<>>)

Enclosed(what, at) ==
  LET inside == Parse(what, Expect(at, "(")) IN Node(inside.tree, Expect(inside.at, ")"))

\* A clause that begins with a keyword, or nothing.
Clause(keyword, what, at) == IF Type(at) = keyword THEN Parse(what, at + 1) ELSE Node(None, at)
ListClause(keyword, what, at) ==
  IF Type(at) = keyword THEN CommaList(what, Expect(at + 1, "BY")) ELSE Node(<<>>, at)

Name(at) == Node(Value(at), ExpectIdentifier(at))

Operators == [or |-> {"OR"}, and |-> {"AND"}, sum |-> {"+", "-", "||", "&", "|", "^", "<<", ">>"},
              product |-> {"*", "/", "%"}]
Operand   == [or |-> "and", and |-> "not", sum |-> "product", product |-> "unary"]

\* ParseOr, ParseAnd, ParseAddSub, ParseMulDiv: operands and operators are taken from the left.
RECURSIVE Rest(_, _)
Rest(level, left) ==
  LET right == Parse(Operand[level], left.at + 1)
  IN  IF Type(left.at) \notin Operators[level] THEN left
      ELSE Rest(level, Node(Binary(Value(left.at), left.tree, right.tree), right.at))

IsTest(left) ==
  LET negated == Type(left.at + 1) = "NOT"
      at      == Match(left.at + 1, "NOT")
      right   == ParseAddSub(Expect(at + 1, "FROM"))
  IN  CASE Type(at) = "DISTINCT" ->
             Node(Compare(IF negated THEN "IS NOT DISTINCT FROM" ELSE "IS DISTINCT FROM", left.tree, right.tree), right.at)
        [] Type(at) \in {"TRUE", "FALSE", "UNKNOWN", "NULL"} ->
             Node(Test(left.tree, Type(at), negated), at + 1)
        [] OTHER -> Node(None, Lost)

\* LIKE and its kin; a pattern with an ESCAPE character is written in terms of the backslash.
Pattern(op, left, at) ==
  LET pattern == ParseAddSub(at)
      escape  == ParseAddSub(pattern.at + 1)
      IsText(e) == e.is = "literal" /\ e.kind = "STRING_LITERAL"
  IN  IF Type(pattern.at) # "ESCAPE" THEN Node(Compare(op, left.tree, pattern.tree), pattern.at)
      ELSE IF ~IsText(pattern.tree) \/ ~IsText(escape.tree) THEN Node(None, Lost)
      ELSE IF escape.tree.value = "" THEN Node(Compare(op, left.tree, pattern.tree), escape.at)
      ELSE IF escape.tree.value \in {"%", "_"} THEN Node(None, Lost)
      ELSE Node(Compare(op, left.tree, [pattern.tree EXCEPT !.value = @ \o " escaped by " \o escape.tree.value]),
                escape.at)

Range3(left, at) ==
  LET low  == ParseAddSub(at)
      high == ParseAddSub(Expect(low.at, "AND"))
  IN  Node(Call("BETWEEN", <<left.tree, low.tree, high.tree>>), high.at)

InList(left, at) ==
  LET inside == Expect(at, "(")
      select == Parse("select", inside)
      list   == CommaList("or", inside)
  IN  IF Type(inside) \in {"SELECT", "WITH"}
      THEN Node(Subquery("IN", select.tree, left.tree), Expect(select.at, ")"))
      ELSE Node(Call("IN", <<left.tree>> \o list.tree), Expect(list.at, ")"))

ParseComparison(at) ==
  LET left == ParseAddSub(at)
      p    == left.at
      Negated(n) == Node(Not(n.tree), n.at)
      right == ParseAddSub(p + 1)
  IN  CASE Type(p) = "IS" -> IsTest(left)
        [] Type(p) \in {"=", "<>", "!=", "<", ">", "<=", ">="} -> Node(Compare(Value(p), left.tree, right.tree), right.at)
        [] Type(p) \in {"LIKE", "ILIKE"} -> Pattern(Type(p), left, p + 1)
        [] Type(p) = "NOT" /\ Type(p + 1) \in {"LIKE", "ILIKE"} -> Pattern("NOT " \o Type(p + 1), left, p + 2)
        [] Type(p) = "BETWEEN" -> Range3(left, p + 1)
        [] Type(p) = "NOT" /\ Type(p + 1) = "BETWEEN" -> Negated(Range3(left, p + 2))
        [] Type(p) = "NOT" /\ Type(p + 1) = "IN" -> Negated(InList(left, p + 2))
        [] Type(p) = "IN" -> InList(left, p + 1)
        [] OTHER -> left

ParseNot(at) ==
  IF Type(at) # "NOT" THEN ParseComparison(at)
  ELSE LET child == Parse("not", at + 1) IN Node(Not(child.tree), child.at)

ParseTypeName(at) ==
  LET one == Expect(at + 2, "INTEGER_LITERAL")
      two == IF Type(one) = "," THEN Expect(one + 1, "INTEGER_LITERAL") ELSE one
  IN  IF Type(at) \notin TypeNames \cup {"IDENTIFIER"} THEN Node(<<>>, Lost)
      ELSE IF Type(at + 1) # "(" THEN Node(<<Value(at)>>, at + 1)
      ELSE Node(IF one = two THEN <<Value(at), Value(at + 2)>> ELSE <<Value(at), Value(at + 2), Value(two - 1)>>,
                Expect(two, ")"))

ParseUnary(at) ==
  LET RECURSIVE Casts(_)
      Casts(e) ==
        LET type == ParseTypeName(e.at + 1)
        IN  IF Type(e.at) # "::" THEN e ELSE Casts(Node(Cast(e.tree, type.tree, FALSE), type.at))
      child == Parse("unary", at + 1)
  IN  CASE Type(at) = "-" -> Node(Minus(child.tree), child.at)
        [] Type(at) = "+" -> child
        [] OTHER -> Casts(Parse("primary", at))

ParseCast(at) ==
  LET e    == ParseExpression(Expect(at + 1, "("))
      type == ParseTypeName(Expect(e.at, "AS"))
  IN  Node(Cast(e.tree, type.tree, Type(at) # "CAST"), Expect(type.at, ")"))

\* The operand of a simple CASE is compared with the value of each WHEN.
ParseCase(at) ==
  LET simple    == Type(at) # "WHEN"
      scrutinee == ParseExpression(at)
      RECURSIVE Whens(_, _)
      Whens(from, args) ==
        LET when == ParseExpression(from + 1)
            then == ParseExpression(Expect(when.at, "THEN"))
            test == IF simple THEN Compare("=", scrutinee.tree, when.tree) ELSE when.tree
            else == Clause("ELSE", "or", from)
        IN  IF Type(from) = "WHEN" THEN Whens(then.at, args \o <<test, then.tree>>)
            ELSE Node(Call("CASE", IF else.at = from THEN args ELSE Append(args, else.tree)), Expect(else.at, "END"))
  IN  Whens(IF simple THEN scrutinee.at ELSE at, <<>>)

ParseExtract(at) ==
  LET part == Expect(at, "(")
      e    == ParseExpression(Expect(Advance(part), "FROM"))
  IN  Node(Call("EXTRACT", <<Literal("STRING_LITERAL", Value(part)), e.tree>>), Expect(e.at, ")"))

ParseName(at) ==
  CASE Type(at + 1) = "(" -> Parse("call", at)
    [] Type(at + 1) = "." /\ Type(at + 2) = "*" -> Node(Column(Value(at), "*"), at + 3)
    [] Type(at + 1) = "." -> Node(Column(Value(at), Value(at + 2)), ExpectIdentifier(at + 2))
    [] OTHER -> Node(Column("", Value(at)), at + 1)

ParsePrimary(at) ==
  LET t      == Type(at)
      select == Enclosed("select", IF t = "EXISTS" THEN at + 1 ELSE at)
      call   == Type(at + 1) = "("
  IN  CASE t = "(" /\ Type(at + 1) \in {"SELECT", "WITH"} -> Node(Subquery("SCALAR", select.tree, None), select.at)
        [] t = "(" /\ Type(at + 1) \notin {"SELECT", "WITH"} -> Enclosed("or", at)
        [] t = "NULL" -> Node(Literal("NULL", ""), at + 1)
        [] t \in {"TRUE", "FALSE"} -> Node(Literal(t, t), at + 1)
        [] t = "EXISTS" -> Node(Subquery("EXISTS", select.tree, None), select.at)
        [] t = "CAST" \/ (t = "IDENTIFIER" /\ Value(at) = "TRY_CAST") -> ParseCast(at)
        [] t = "CASE" -> ParseCase(at + 1)
        [] t \in Aggregates \cup {"LEFT", "RIGHT", "NOW"} /\ call -> Parse("call", at)
        [] t \in Aggregates \cup {"LEFT", "RIGHT"} /\ ~call -> Node(Column("", t), at + 1)
        [] t \in {"CURRENT_TIMESTAMP", "CURRENT_DATE"} \/ (t = "NOW" /\ ~call) -> Node(Call(t, <<>>), at + 1)
        [] t = "EXTRACT" -> ParseExtract(at + 1)
        [] t = "*" -> Node(Column("", "*"), at + 1)
        [] t \in {"INTEGER_LITERAL", "FLOAT_LITERAL", "STRING_LITERAL"} -> Node(Literal(t, Value(at)), at + 1)
        [] t \in {"DATE", "TIME", "TIMESTAMP"} /\ Type(at + 1) = "STRING_LITERAL" ->
             Node(Literal(t, Value(at + 1)), at + 2)
        [] t \in {"DATE", "TIME", "TIMESTAMP"} /\ Type(at + 1) # "STRING_LITERAL" -> ParseName(at)
        [] t = "IDENTIFIER" /\ Value(at) # "TRY_CAST" -> ParseName(at)
        [] t \in NameInExpression \ {"DATE", "TIME", "TIMESTAMP"} -> ParseName(at)
        [] OTHER -> Node(None, Lost)

-----------------------------------------------------------------------------
(* Calls. Three functions have a syntax of their own. *)

\* first KEYWORD second, or first and what Else reads behind a comma.
SubstringArguments(at) ==
  LET text   == ParseExpression(at)
      start  == ParseExpression(text.at + 1)
      length == ParseExpression(start.at + 1)
  IN  IF Type(text.at) # "FROM" THEN CommaList("or", at)
      ELSE IF Type(start.at) # "FOR" THEN Node(<<text.tree, start.tree>>, start.at)
      ELSE Node(<<text.tree, start.tree, length.tree>>, length.at)

TrimSides == [LEADING |-> "LTRIM", TRAILING |-> "RTRIM", BOTH |-> "TRIM"]

TrimArguments(at) ==
  LET side  == Type(at) = "IDENTIFIER" /\ Value(at) \in DOMAIN TrimSides
      first == IF side THEN at + 1 ELSE at
      chars == ParseExpression(first)
      text  == ParseExpression(IF Type(first) = "FROM" THEN first + 1 ELSE chars.at + 1)
  IN  CASE Type(first) = "FROM" -> Node(<<text.tree>>, text.at)
        [] Type(first) # "FROM" /\ Type(chars.at) = "FROM" -> Node(<<text.tree, chars.tree>>, text.at)
        [] OTHER -> CommaList("or", first)

TrimName(name, at) ==
  IF Type(at) = "IDENTIFIER" /\ Value(at) \in DOMAIN TrimSides THEN TrimSides[Value(at)] ELSE name

PositionArguments(at) ==
  LET needle == ParseAddSub(at)
      text   == ParseExpression(needle.at + 1)
      more   == CommaList("or", needle.at + 1)
  IN  CASE Type(needle.at) = "IN" -> Node(<<text.tree, needle.tree>>, text.at)
        [] Type(needle.at) = "," -> Node(<<needle.tree>> \o more.tree, more.at)
        [] OTHER -> Node(<<needle.tree>>, needle.at)

Arguments(name, at) ==
  CASE name \in {"SUBSTRING", "SUBSTR"} -> SubstringArguments(at)
    [] name \in {"TRIM", "LTRIM", "RTRIM"} -> TrimArguments(at)
    [] name = "POSITION" -> PositionArguments(at)
    [] OTHER -> CommaList("or", at)

OrderItem(at) ==
  LET e     == ParseExpression(at)
      asc   == Type(e.at) # "DESC"
      dir   == IF Type(e.at) \in {"ASC", "DESC"} THEN e.at + 1 ELSE e.at
      nulls == IF Type(dir) = "NULLS" THEN Type(dir + 1) ELSE ""
      end   == CASE nulls = "" -> dir [] nulls \in {"FIRST", "LAST"} -> dir + 2 [] OTHER -> dir + 1
  IN  Node([of |-> e.tree, asc |-> asc,
            nullsFirst |-> IF nulls \in {"FIRST", "LAST"} THEN nulls = "FIRST" ELSE ~asc], end)

WindowOrderItem(at) ==
  LET e == ParseExpression(at)
  IN  Node([of |-> e.tree, asc |-> Type(e.at) # "DESC"],
           IF Type(e.at) \in {"ASC", "DESC"} THEN e.at + 1 ELSE e.at)

FilterClause(at) == IF Type(at) = "FILTER" THEN Enclosed("where", at + 1) ELSE Node(None, at)

ParseFunctionCall(name, at) ==
  LET star     == name = "COUNT" /\ Type(at + 1) = "*"
      distinct == Type(at + 1) = "DISTINCT"
      first    == IF Type(at + 1) \in {"DISTINCT", "ALL"} THEN at + 2 ELSE at + 1
      args     == CASE Type(at + 1) = ")" -> Node(<<>>, at + 1)
                    [] star -> Node(<<>>, at + 2)
                    [] OTHER -> Arguments(name, first)
      trim     == name \in {"TRIM", "LTRIM", "RTRIM"} /\ Type(at + 1) # ")"
      filter   == FilterClause(Expect(args.at, ")"))
      split    == ListClause("PARTITION", "or", Expect(filter.at + 1, "("))
      order    == ListClause("ORDER", "window item", split.at)
  IN  IF Type(filter.at) = "OVER" /\ ~trim
      THEN Node(WindowOf(name, args.tree, filter.tree, split.tree, order.tree), Expect(order.at, ")"))
      ELSE Node([Call(IF trim THEN TrimName(name, first) ELSE name, args.tree)
                   EXCEPT !.distinct = distinct, !.star = star, !.filter = filter.tree], filter.at)

-----------------------------------------------------------------------------
(* FROM: a chain of sources, each with its join to the next one. *)

Source(kind, n, args, query1) ==
  [kind |-> kind, name |-> n, args |-> args, select |-> query1, alias |-> "", columns |-> <<>>,
   join |-> "", on |-> None]

FileFunctions == {"READ_CSV", "READ_CSV_AUTO", "READ_JSON", "READ_JSON_AUTO", "READ_PARQUET", "READ_ARROW",
                  "READ_AVRO", "READ_XLSX", "SQLITE_SCAN"}

Alias(at) ==
  CASE Type(at) = "AS" -> Node(Value(at + 1), ExpectIdentifier(at + 1))
    [] Type(at) # "AS" /\ IsIdentifierOrNonReserved(at) -> Node(Value(at), at + 1)
    [] OTHER -> Node("", at)

ColumnAliases(at) == IF Type(at) = "(" THEN Enclosed("names", at) ELSE Node(<<>>, at)

\* The columns of a subquery take the names of the list.
Renamed(select, names) ==
  [select EXCEPT ![1].list = [i \in DOMAIN @ |-> IF i \in DOMAIN names THEN [@[i] EXCEPT !.alias = names[i]] ELSE @[i]]]

\* The alias behind a chain is its first source's.
WithAlias(chain) ==
  LET alias   == Alias(chain.at)
      columns == ColumnAliases(alias.at)
      first   == chain.tree[1]
  IN  Node(<<[first EXCEPT !.alias = IF alias.at = chain.at THEN @ ELSE alias.tree,
                           !.columns = @ \o columns.tree,
                           !.select = IF first.kind = "select" THEN Renamed(@, columns.tree) ELSE @]>> \o Tail(chain.tree),
           columns.at)

TableSource(at) ==
  LET t      == Type(at)
      select == Enclosed("select", at)
      args   == Enclosed("expressions", at + 1)
      rows   == Parse("values", at + 2)
      One(kind, n, a, s, p) == Node(<<Source(kind, n, a, s)>>, p)
  IN  CASE t = "(" /\ Type(at + 1) \in {"SELECT", "WITH"} -> One("select", "", <<>>, select.tree, select.at)
        [] t = "(" /\ Type(at + 1) = "VALUES" ->
             One("select", "", <<>>, rows.tree, Expect(rows.at, ")"))
        [] t = "(" /\ Type(at + 1) \notin {"SELECT", "WITH", "VALUES"} -> Enclosed("table", at)
        [] t = "GENERATE_SERIES" \/ (t = "IDENTIFIER" /\ Value(at) \in FileFunctions) ->
             One("function", Value(at), args.tree, None, args.at)
        [] t = "STRING_LITERAL" -> One("function", "__FILE__", <<Literal(t, Value(at))>>, None, at + 1)
        [] OTHER -> One("table", Value(at), <<>>, None,
                        IF Value(at) \in FileFunctions THEN Lost ELSE ExpectIdentifier(at))

JoinType(at) ==
  CASE Type(at) \in {"INNER", "CROSS", "NATURAL"} -> Node(Type(at), at + 1)
    [] Type(at) \in {"LEFT", "RIGHT", "FULL"} -> Node(Type(at), Match(at + 1, "OUTER"))
    [] Type(at) = "JOIN" -> Node("INNER", at)
    [] OTHER -> Node("", at)

\* Fault: what is joined goes behind the first source of the chain.
AttachedToFirst(chain, tail, join, on, right) == <<[chain[1] EXCEPT !.join = join, !.on = on]>> \o right

\* What is joined is put behind the tail, and takes the place of what is there.
Attached(chain, tail, join, on, right) ==
  SubSeq(chain, 1, tail - 1) \o <<[chain[tail] EXCEPT !.join = join, !.on = on]>> \o right

ParseTableRef(at) ==
  LET RECURSIVE Joins(_, _)
      Joins(chain, tail) ==
        LET join  == JoinType(chain.at)
            right == Parse("table", Expect(join.at, "JOIN"))
            on    == IF join.tree = "CROSS" THEN Node(None, right.at) ELSE Clause("ON", "or", right.at)
            all   == Attached(chain.tree, tail, join.tree, on.tree, right.tree)
        IN  IF join.tree = "" THEN chain ELSE Joins(Node(all, on.at), Len(all))
  IN  Joins(WithAlias(TableSource(at)), 1)

FromClause(at) ==
  LET RECURSIVE Commas(_)
      Commas(chain) ==
        LET next == Parse("table", chain.at + 1)
        IN  IF Type(chain.at) # "," THEN chain
            ELSE Commas(Node(Attached(chain.tree, Len(chain.tree), "CROSS", chain.tree[Len(chain.tree)].on, next.tree), next.at))
  IN  Commas(Parse("table", at))

-----------------------------------------------------------------------------
(* SELECT: the branches of a chain of set operations. *)

EmptyBranch ==
  [ctes |-> <<>>, distinct |-> FALSE, list |-> <<>>, from |-> <<>>, where |-> None, group |-> <<>>,
   groupAll |-> FALSE, having |-> None, qualify |-> None, order |-> <<>>, limit |-> None, offset |-> None, setOp |-> ""]

SelectItem(at) ==
  LET e     == ParseExpression(at)
      alias == Alias(e.at)
  IN  Node([of |-> e.tree, alias |-> alias.tree], alias.at)

\* The names of a common table's columns are skipped, whatever they are.
CommonTable(recursive, at) ==
  LET names == IF Type(at + 1) = "(" THEN Enclosed("skipped names", at + 1)
               ELSE Node("", ExpectIdentifier(at))
      query1 == Enclosed("select", Expect(names.at, "AS"))
  IN  Node([name |-> Value(at), recursive |-> recursive, select |-> query1.tree],
           IF ExpectIdentifier(at) = Lost THEN Lost ELSE query1.at)

WithClause(at) ==
  CASE Type(at) # "WITH" -> Node(<<>>, at)
    [] Type(at) = "WITH" /\ Type(at + 1) = "RECURSIVE" -> CommaList("recursive table", at + 2)
    [] OTHER -> CommaList("common table", at + 1)

GroupClause(at) ==
  IF Type(at) = "GROUP" /\ Type(at + 1) = "BY" /\ Type(at + 2) = "ALL"
  THEN Node([all |-> TRUE, list |-> <<>>], at + 3)
  ELSE LET list == ListClause("GROUP", "or", at) IN Node([all |-> FALSE, list |-> list.tree], list.at)

ParseSelectCore(ctes, at) ==
  LET first   == IF Type(at) \in {"DISTINCT", "ALL"} THEN at + 1 ELSE at
      list    == CommaList("item", first)
      from    == IF Type(list.at) = "FROM" THEN FromClause(list.at + 1) ELSE Node(<<>>, list.at)
      where   == Clause("WHERE", "or", from.at)
      group   == GroupClause(where.at)
      having  == Clause("HAVING", "or", group.at)
      qualify == Clause("QUALIFY", "or", having.at)
  IN  Node(<<[EmptyBranch EXCEPT !.ctes = ctes, !.distinct = Type(at) = "DISTINCT", !.list = list.tree,
               !.from = from.tree, !.where = where.tree, !.group = group.tree.list, !.groupAll = group.tree.all,
               !.having = having.tree, !.qualify = qualify.tree]>>, qualify.at)

\* Each row is a branch; the first one names the columns.
ParseValuesAsSelect(at) ==
  LET rows == CommaList("row", at)
      Item(r, i) == [of |-> rows.tree[r][i], alias |-> IF r = 1 THEN "column" \o ToString(i - 1) ELSE ""]
  IN  Node([r \in DOMAIN rows.tree |->
              [EmptyBranch EXCEPT !.list = [i \in DOMAIN rows.tree[r] |-> Item(r, i)],
                                  !.setOp = IF r < Len(rows.tree) THEN "UNION ALL" ELSE ""]], rows.at)

\* ORDER BY, LIMIT and OFFSET are kept with the last branch read so far.
Ending(branches, item) ==
  LET order  == ListClause("ORDER", item, branches.at)
      limit  == Clause("LIMIT", "or", order.at)
      offset == Clause("OFFSET", "or", limit.at)
      Kept(new, old) == IF new = None THEN old ELSE new
  IN  Node([branches.tree EXCEPT ![Len(branches.tree)].order = @ \o order.tree,
                                 ![Len(branches.tree)].limit = Kept(limit.tree, @),
                                 ![Len(branches.tree)].offset = Kept(offset.tree, @)], offset.at)

SetOperation(branches, operand) ==
  LET at    == branches.at
      all   == Type(at) = "UNION" /\ Type(at + 1) = "ALL"
      right == Parse(operand, IF all THEN at + 2 ELSE at + 1)
  IN  IF Type(at) \notin {"UNION", "INTERSECT", "EXCEPT"} THEN branches
      ELSE Node([branches.tree EXCEPT ![Len(branches.tree)].setOp = IF all THEN "UNION ALL" ELSE Type(at)] \o right.tree,
                right.at)

\* Behind VALUES the nulls of a descending column are not put first.
ValuesOrderItem(at) ==
  LET item == WindowOrderItem(at)
  IN  Node([of |-> item.tree.of, asc |-> item.tree.asc, nullsFirst |-> FALSE], item.at)

ParseSelectStatement(at) ==
  LET ctes   == WithClause(at)
      rows   == Parse("values", ctes.at + 1)
      values == Node([rows.tree EXCEPT ![1].ctes = ctes.tree], rows.at)
  IN  IF Type(ctes.at) = "VALUES" THEN SetOperation(Ending(values, "values order item"), "select")
      ELSE SetOperation(Ending(ParseSelectCore(ctes.tree, Expect(ctes.at, "SELECT")), "order item"), "select")

\* A query in parentheses: one set operation may follow, and the end of both.
ParseParenthesized(at) ==
  LET inner == Enclosed(IF Type(at + 1) = "(" THEN "parenthesized" ELSE "select", at)
  IN  Ending(SetOperation(inner, "operand"), "order item")

-----------------------------------------------------------------------------
(* Statements. *)

ParseInsertStatement(at) ==
  LET columns == IF Type(at + 3) = "(" THEN Enclosed("names", at + 3) ELSE Node(<<>>, ExpectIdentifier(at + 2))
      select  == Parse("select", columns.at)
      rows    == CommaList("row", Expect(columns.at, "VALUES"))
      Insert(s, r) == [is |-> "insert", table |-> Value(at + 2), columns |-> columns.tree, select |-> s, rows |-> r]
  IN  IF Type(at + 1) # "INTO" \/ ~IsIdentifierOrNonReserved(at + 2) THEN Node(None, Lost)
      ELSE IF Type(columns.at) \in {"SELECT", "WITH"} THEN Node(Insert(select.tree, <<>>), select.at)
      ELSE Node(Insert(<<>>, rows.tree), rows.at)

Assignment(at) ==
  LET e == ParseExpression(Expect(ExpectIdentifier(at), "="))
  IN  Node([column |-> Value(at), to |-> e.tree], e.at)

ParseUpdateStatement(at) ==
  LET sets  == CommaList("assignment", Expect(ExpectIdentifier(at + 1), "SET"))
      where == Clause("WHERE", "or", sets.at)
  IN  Node([is |-> "update", table |-> Value(at + 1), sets |-> sets.tree, where |-> where.tree], where.at)

ParseDeleteStatement(at) ==
  LET where == Clause("WHERE", "or", ExpectIdentifier(Expect(at + 1, "FROM")))
  IN  Node([is |-> "delete", table |-> Value(at + 2), where |-> where.tree], where.at)

ParseColumnDef(at) ==
  LET type == ParseTypeName(ExpectIdentifier(at))
      RECURSIVE Constraints(_)
      Constraints(c) ==
        CASE Type(c.at) = "NOT" -> Constraints(Node([c.tree EXCEPT !.notNull = TRUE], Expect(c.at + 1, "NULL")))
          [] Type(c.at) = "PRIMARY" ->
               Constraints(Node([c.tree EXCEPT !.notNull = TRUE, !.key = TRUE], Expect(c.at + 1, "KEY")))
          [] OTHER -> c
  IN  Constraints(Node([name |-> Value(at), type |-> type.tree, notNull |-> FALSE, key |-> FALSE], type.at))

\* CREATE [OR REPLACE] [LIVE] VIEW, CREATE [OR REPLACE] [LIVE] TABLE.
ParseCreateStatement(at) ==
  LET replace == Type(at + 1) = "OR" /\ Value(at + 2) = "REPLACE"
      noOr    == CASE replace -> at + 3 [] Type(at + 1) = "OR" /\ ~replace -> at + 2 [] OTHER -> at + 1
      live    == Type(noOr) = "LIVE"
      kind    == Match(noOr, "LIVE")
      view    == Parse("select", Expect(ExpectIdentifier(kind + 1), "AS"))
      ifNot   == Type(kind + 1) = "IF"
      name    == IF ifNot THEN Expect(Expect(kind + 2, "NOT"), "EXISTS") ELSE Expect(kind, "TABLE")
      end     == ExpectIdentifier(name)
      select  == Parse("select", end + 1)
      columns == Enclosed("columns", end)
      Table(s, c) == [is |-> "create", table |-> Value(name), replace |-> replace, ifNotExists |-> ifNot,
                      select |-> s, columns |-> c]
  IN  IF Type(kind) = "VIEW"
      THEN Node([is |-> "view", name |-> Value(kind + 1), replace |-> replace, live |-> live, select |-> view.tree], view.at)
      ELSE IF Type(kind) # "TABLE" THEN Node(None, Lost)
      ELSE IF Type(end) = "AS" THEN Node(Table(select.tree, <<>>), select.at)
      ELSE Node(Table(<<>>, columns.tree), columns.at)

ParseDropStatement(at) ==
  LET ifExists == Type(at + 2) = "IF"
      name     == IF ifExists THEN Expect(at + 3, "EXISTS") ELSE at + 2
  IN  Node([is |-> "drop", table |-> Value(name), ifExists |-> ifExists],
           IF Type(at + 1) \in {"VIEW", "TABLE"} THEN ExpectIdentifier(name) ELSE Lost)

ParsePragmaStatement(at) ==
  LET name == ExpectIdentifier(at + 1)
      word == IF Type(name + 1) = "STRING_LITERAL" THEN name + 2 ELSE ExpectIdentifier(name + 1)
      Pragma(arg, p) == Node([is |-> "pragma", name |-> Value(at + 1), arg |-> arg], p)
  IN  IF Type(name) # "(" THEN Pragma("", name)
      ELSE IF Type(name + 1) = ")" THEN Pragma("", name + 2) ELSE Pragma(Value(name + 1), Expect(word, ")"))

\* A table, a file or a table function is described as SELECT * from it.
ParseDescribeStatement(at) ==
  LET select == Parse("select", at + 1)
      args   == IF Type(at + 3) = ")" THEN Node(<<>>, at + 4)
                ELSE Enclosed("expressions", at + 2)
      From(source, p) ==
        Node([is |-> "describe",
              select |-> <<[EmptyBranch EXCEPT !.list = <<[of |-> Column("", "*"), alias |-> ""]>>, !.from = <<source>>]>>], p)
  IN  CASE Type(at + 1) \in {"SELECT", "WITH"} -> Node([is |-> "describe", select |-> select.tree], select.at)
        [] Type(at + 1) = "STRING_LITERAL" ->
             From(Source("function", "__FILE__", <<Literal("STRING_LITERAL", Value(at + 1))>>, None), at + 2)
        [] Type(at + 1) = "IDENTIFIER" /\ Type(at + 2) = "(" ->
             From(Source("function", Value(at + 1), args.tree, None), args.at)
        [] Type(at + 1) = "IDENTIFIER" /\ Type(at + 2) # "(" -> From(Source("table", Value(at + 1), <<>>, None), at + 2)
        [] OTHER -> Node(None, Lost)

ParseShowStatement(at) ==
  LET kind  == Value(at + 1)
      table == IF Type(at + 2) = "FROM" THEN at + 3 ELSE at + 2
      end   == CASE Type(at + 1) # "IDENTIFIER" -> Lost
                 [] Type(at + 1) = "IDENTIFIER" /\ kind \in {"TABLES", "DATABASES", "SCHEMAS"} -> at + 2
                 [] Type(at + 1) = "IDENTIFIER" /\ kind = "COLUMNS" -> ExpectIdentifier(table)
                 [] OTHER -> Lost
  IN  Node([is |-> "show", kind |-> kind, table |-> IF kind = "COLUMNS" THEN Value(table) ELSE "",
            like |-> IF Type(end) = "LIKE" THEN Value(end + 1) ELSE ""],
           IF Type(end) = "LIKE" THEN Expect(end + 1, "STRING_LITERAL") ELSE end)

\* Options that are not known are skipped a token at a time. At the end of the
\* text the loop does not end; that is Lost here.
CopyOptions(at, copy) ==
  LET RECURSIVE Options(_, _)
      Options(p, c) ==
        LET comma(q) == Match(q, ",")
            next == comma(Advance(Advance(p)))
        IN  CASE Type(p) \in {"EOF", "lost"} -> Node(c, Lost)
              [] Type(p) = ")" -> Node(c, p + 1)
              [] Value(p) = "DELIMITER" -> Options(comma(Expect(p + 1, "STRING_LITERAL")), [c EXCEPT !.delimiter = Value(p + 1)])
              [] Value(p) = "HEADER" -> Options(next, [c EXCEPT !.header = Value(p + 1) \in {"TRUE", "1"}])
              [] Value(p) = "FORMAT" -> Options(next, [c EXCEPT !.format = Value(p + 1)])
              [] Value(p) \notin {"DELIMITER", "HEADER", "FORMAT"} /\ Type(p) \notin {"EOF", "lost", ")"} -> Options(comma(p + 1), c)
  IN  Options(at, copy)

ParseCopyStatement(at) ==
  LET select == Enclosed("select", at + 1)
      way    == IF Type(at + 1) = "(" THEN select.at ELSE ExpectIdentifier(at + 1)
      file   == IF Type(way) \in {"TO", "FROM"} THEN way + 1 ELSE Lost
      end    == Expect(file, "STRING_LITERAL")
      copy   == [is |-> "copy", table |-> IF Type(at + 1) = "(" THEN "" ELSE Value(at + 1),
                 select |-> IF Type(at + 1) = "(" THEN select.tree ELSE <<>>, from |-> Type(way) = "FROM",
                 file |-> Value(file), format |-> "CSV", delimiter |-> ",", header |-> TRUE]
  IN  IF Type(end) = "WITH" THEN CopyOptions(Expect(end + 1, "("), copy) ELSE Node(copy, end)

ParseAlterStatement(at) ==
  LET table  == ExpectIdentifier(Expect(at + 1, "TABLE"))
      action == IF Type(table) = "IDENTIFIER" THEN Value(table) ELSE Type(table)
      name   == Match(table + 1, "COLUMN")
      type   == ParseTypeName(ExpectIdentifier(name))
      to     == Expect(ExpectIdentifier(name), "TO")
      Alter(arg, p) == Node([is |-> "alter", table |-> Value(at + 2), action |-> action, column |-> Value(name), arg |-> arg], p)
  IN  CASE action = "ADD" -> Alter(type.tree, type.at)
        [] action = "DROP" -> Alter(<<>>, ExpectIdentifier(name))
        [] action = "RENAME" -> Alter(<<Value(to)>>, ExpectIdentifier(to))
        [] OTHER -> Node(None, Lost)

MergeAlias(at) ==
  IF Type(at) = "AS" THEN Node(Value(at + 1), Advance(at + 1))
  ELSE IF Type(at) = "IDENTIFIER" THEN Node(Value(at), at + 1) ELSE Node("", at)

\* WHEN [MATCHED] THEN UPDATE or WHEN NOT MATCHED THEN INSERT; the assignments
\* and the columns of several clauses add up.
MergeWhens(at, merge) ==
  LET RECURSIVE Whens(_)
      Whens(m) ==
        LET insert  == Expect(Expect(Expect(m.at + 2, "MATCHED"), "THEN"), "INSERT")
            columns == IF Type(insert) = "(" THEN Enclosed("names", insert) ELSE Node(<<>>, insert)
            values  == Enclosed("expressions", Expect(columns.at, "VALUES"))
            update  == Expect(Expect(Expect(Match(m.at + 1, "MATCHED"), "THEN"), "UPDATE"), "SET")
            sets    == CommaList("assignment", update)
        IN  IF Type(m.at) # "WHEN" THEN m
            ELSE IF Type(m.at + 1) = "NOT"
            THEN Whens(Node([m.tree EXCEPT !.hasInsert = TRUE, !.columns = @ \o columns.tree, !.values = @ \o values.tree], values.at))
            ELSE Whens(Node([m.tree EXCEPT !.hasUpdate = TRUE, !.sets = @ \o sets.tree], sets.at))
  IN  Whens(Node(merge, at))

ParseMergeStatement(at) ==
  LET target == MergeAlias(ExpectIdentifier(Expect(at + 1, "INTO")))
      source == Match(target.at, "USING")
      alias  == MergeAlias(ExpectIdentifier(source))
      on     == ParseExpression(Expect(alias.at, "ON"))
  IN  MergeWhens(on.at, [is |-> "merge", target |-> Value(at + 2), targetAlias |-> target.tree, source |-> Value(source),
                         sourceAlias |-> alias.tree, on |-> on.tree, hasUpdate |-> FALSE, sets |-> <<>>,
                         hasInsert |-> FALSE, columns |-> <<>>, values |-> <<>>])

ParseStatement(at) ==
  LET t      == Type(at)
      inner  == Parse("statement", at + 1)
      Select(s) == Node([is |-> "select", select |-> s.tree], s.at)
  IN  CASE t \in {"WITH", "SELECT", "VALUES"} -> Select(Parse("select", at))
        [] t = "(" -> Select(ParseParenthesized(at))
        [] t = "CREATE" -> ParseCreateStatement(at)
        [] t = "DROP" -> ParseDropStatement(at)
        [] t = "INSERT" -> ParseInsertStatement(at)
        [] t = "UPDATE" -> ParseUpdateStatement(at)
        [] t = "DELETE" -> ParseDeleteStatement(at)
        [] t = "EXPLAIN" -> Node([is |-> "explain", of |-> inner.tree], inner.at)
        [] t \in {"DESCRIBE", "DESC"} -> ParseDescribeStatement(at)
        [] t = "PRAGMA" -> ParsePragmaStatement(at)
        [] t = "MERGE" -> ParseMergeStatement(at)
        [] t = "IDENTIFIER" /\ Value(at) = "SHOW" -> ParseShowStatement(at)
        [] t = "COPY" -> ParseCopyStatement(at)
        [] t \in {"BEGIN", "COMMIT", "ROLLBACK"} -> Node([is |-> t], Match(at + 1, "TRANSACTION"))
        [] t = "ALTER" -> ParseAlterStatement(at)
        [] t = "TRUNCATE" -> Node([is |-> "truncate", table |-> Value(Match(at + 1, "TABLE"))],
                                  ExpectIdentifier(Match(at + 1, "TABLE")))
        [] OTHER -> Node(None, Lost)

\* The names of the grammar.
Parse(what, at) ==
  CASE what = "statement" -> ParseStatement(at)
    [] what \in DOMAIN Operators -> Rest(what, Parse(Operand[what], at))
    [] what = "not" -> ParseNot(at)
    [] what = "unary" -> ParseUnary(at)
    [] what = "primary" -> ParsePrimary(at)
    [] what = "call" -> ParseFunctionCall(Value(at), at + 1)
    [] what = "select" -> ParseSelectStatement(at)
    [] what = "parenthesized" -> ParseParenthesized(at)
    [] what = "operand" -> IF Type(at) = "(" THEN Enclosed("select", at) ELSE Parse("select", at)
    [] what = "values" -> ParseValuesAsSelect(at)
    [] what = "table" -> ParseTableRef(at)
    [] what = "item" -> SelectItem(at)
    [] what = "where" -> Parse("or", Expect(at, "WHERE"))
    [] what = "order item" -> OrderItem(at)
    [] what = "window item" -> WindowOrderItem(at)
    [] what = "values order item" -> ValuesOrderItem(at)
    [] what = "common table" -> CommonTable(FALSE, at)
    [] what = "recursive table" -> CommonTable(TRUE, at)
    [] what = "expressions" -> CommaList("or", at)
    [] what = "row" -> Enclosed("expressions", at)
    [] what = "name" -> Name(at)
    [] what = "names" -> CommaList("name", at)
    [] what = "skipped name" -> Node("", Advance(at))
    [] what = "skipped names" -> CommaList("skipped name", at)
    [] what = "assignment" -> Assignment(at)
    [] what = "column" -> ParseColumnDef(at)
    [] what = "columns" -> CommaList("column", at)

-----------------------------------------------------------------------------
(* Parser::Parse: the tokens of the whole text first, then its statements. *)

Unparsed == [at |-> 0, tokens |-> <<>>]

Tokenize ==
  LET tokens == Tokens(1, <<>>)
  IN  /\ IsParse /\ state = Unparsed /\ out = <<>>
      /\ IF tokens = <<>> THEN out' = "error" /\ UNCHANGED state
         ELSE state' = [at |-> 1, tokens |-> tokens] /\ UNCHANGED out
      /\ UNCHANGED query

OneStatement ==
  LET statement == Parse("statement", state.at)
  IN  /\ IsParse /\ state.at # Lost /\ out # "error"
      /\ Type(state.at) \notin {"EOF", ";"}
      /\ IF statement.at = Lost THEN out' = "error" /\ UNCHANGED state
         ELSE /\ out' = Append(out, statement.tree)
              /\ state' = [state EXCEPT !.at = Match(statement.at, ";")]
      /\ UNCHANGED query

EmptyStatement ==
  /\ IsParse /\ state.at # Lost /\ out # "error"
  /\ Type(state.at) = ";"
  /\ state' = [state EXCEPT !.at = @ + 1]
  /\ UNCHANGED <<query, out>>

Next == Tokenize \/ OneStatement \/ EmptyStatement

-----------------------------------------------------------------------------
Sql == INSTANCE SqlText

Done == state.at # Lost /\ Type(state.at) = "EOF"

\* What standard SQL writes for a batch of statements, with no parentheses but those
\* that precedence calls for and with comments between the tokens, is parsed to these
\* statements; but for the expressions that SqlText says are read in another way.
ParsedAsMeant ==
  IsParse /\ ~Sql!MeansElse(query.meant) =>
    /\ out # "error"
    /\ Done /\ state.tokens # <<>> => out = query.meant
=============================================================================
