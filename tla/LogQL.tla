------------------------------- MODULE LogQL -------------------------------
(***************************************************************************)
(* The texts of LogQL queries: how the CLI's library writes one            *)
(* (cli/logql/logql.go), how the query API reads one                       *)
(* (queryapi/internal/logql/parser.go, ast.go), and how the logs command   *)
(* finds the labels a query requires (cli/internal/command/logs.go).       *)
(*                                                                         *)
(* A text is a sequence of characters.  The characters are the ones these  *)
(* three treat differently: blank, quotes, backslash, braces, comma, the   *)
(* operators' characters, the regexp characters . and |, and the letters e *)
(* and k, which stand for every character with no meaning of its own: they *)
(* form names and, after a backslash, no escape.  Digits, single quotes,   *)
(* other escapes and other regexp syntax are left out.                     *)
(*                                                                         *)
(* A parsing function returns the set of its results: empty for an error.  *)
(***************************************************************************)
EXTENDS Naturals, Sequences, FiniteSets, FiniteSetsExt

Letters == {"e", "k"}

\* The characters that are called by a name.
Blank == "blank"
Comma == "comma"
QuoteMark == "quote"
Backquote == "backquote"
LeftBrace == "open"
RightBrace == "close"

\* The characters strconv.Quote escapes, and the ones regexp.QuoteMeta does.
Escapable == {QuoteMark, "\\"}
MetaChars == {"\\", ".", "|", LeftBrace, RightBrace}

Chars == Letters \cup MetaChars \cup {Blank, QuoteMark, Backquote, Comma, "=", "!", "~"}

\* FlattenSeq and IsPrefix are the ones of SequencesExt, which is not extended:
\* the modules it brings with it make every step of the proofs slow.
FlattenSeq(texts) ==
    IF Len(texts) = 0 THEN texts
    ELSE LET flatten[i \in 1..Len(texts)] == IF i = 1 THEN texts[i] ELSE flatten[i-1] \o texts[i]
         IN  flatten[Len(texts)]

IsPrefix(s, t) == Len(s) <= Len(t) /\ SubSeq(s, 1, Len(s)) = SubSeq(t, 1, Len(s))

DropChars(s, n) == SubSeq(s, n + 1, Len(s))

TrimSpace(s) ==
    LET solid == {i \in DOMAIN s : s[i] # Blank}
    IN  IF solid = {} THEN <<>> ELSE SubSeq(s, Min(solid), Max(solid))

\* Every character of chars in s preceded by a backslash.
Escape(s, chars) ==
    FlattenSeq([i \in DOMAIN s |-> IF s[i] \in chars THEN <<"\\", s[i]>> ELSE <<s[i]>>])

Join(texts, sep) ==
    FlattenSeq([i \in DOMAIN texts |-> IF i = 1 THEN texts[i] ELSE sep \o texts[i]])
-----------------------------------------------------------------------------
(***************************************************************************)
(* The builder's texts.                                                    *)
(***************************************************************************)
EmptySelector == [matchers |-> <<>>, filters |-> <<>>]

\* strconv.Quote
Quote(s) == <<QuoteMark>> \o Escape(s, Escapable) \o <<QuoteMark>>

\* regexp.QuoteMeta
QuoteMeta(s) == Escape(s, MetaChars)

\* Mutant: the values are joined as they are.
AlternationUnescaped(values) == Join(values, <<"|">>)

Alternation(values) == Join([i \in DOMAIN values |-> QuoteMeta(values[i])], <<"|">>)

dedupe(values) ==
    LET trimmed == [i \in DOMAIN values |-> TrimSpace(values[i])]
        isNew(i) == trimmed[i] # <<>> /\ \A j \in 1..(i - 1) : trimmed[j] # trimmed[i]
    IN  FlattenSeq([i \in DOMAIN values |-> IF isNew(i) THEN <<trimmed[i]>> ELSE <<>>])

\* Selector.String
String(selector) ==
    LET part(m) == m.label \o m.op \o Quote(m.value)
        clause(f) == <<Blank>> \o f.op \o <<Blank>> \o Quote(f.value)
    IN  <<LeftBrace>>
          \o Join([i \in DOMAIN selector.matchers |-> part(selector.matchers[i])], <<Comma, Blank>>)
          \o <<RightBrace>>
          \o FlattenSeq([i \in DOMAIN selector.filters |-> clause(selector.filters[i])])
-----------------------------------------------------------------------------
(***************************************************************************)
(* Reading a text from left to right: outside of quotes, inside, or after  *)
(* a backslash inside, where the next character is escaped.                *)
(***************************************************************************)

\* How the text goes on after a character.
After(mode, char, quotes) ==
    CASE mode = "outside" -> IF char \in quotes THEN "inside" ELSE "outside"
      [] mode = "inside" /\ char = "\\" -> "escaped"
      [] mode = "inside" /\ char # "\\" -> IF char \in quotes THEN "outside" ELSE "inside"
      [] mode = "escaped" -> "inside"

\* Reading(s, start, quotes)[i]: how it goes on after the first i characters.
Reading(s, start, quotes) ==
    LET mode[i \in 0..Len(s)] ==
            IF i = 0 THEN start ELSE After(mode[i - 1], s[i], quotes)
    IN  mode

DoubleQuote == {QuoteMark}
-----------------------------------------------------------------------------
(***************************************************************************)
(* Regular expressions: literals, escaped characters, . and |.             *)
(***************************************************************************)

\* What a character of a pattern stands for.
Atom(char, isEscaped) ==
    [kind |-> CASE ~isEscaped /\ char = "." -> "any"
                [] ~isEscaped /\ char = "|" -> "bar"
                [] OTHER -> "literal",
     char |-> char]

\* The atoms of a pattern, in order; an error for a trailing backslash and
\* for an escaped letter.
Atoms(p) ==
    LET mode == Reading(p, "inside", {})
        isError == \/ mode[Len(p)] = "escaped"
                   \/ \E i \in DOMAIN p : mode[i - 1] = "escaped" /\ p[i] \in Letters
    IN  IF isError THEN {}
        ELSE {FlattenSeq([i \in DOMAIN p |-> IF mode[i] = "escaped" THEN <<>>
                                             ELSE <<Atom(p[i], mode[i - 1] = "escaped")>>])}

\* What lies between two neighbouring bars.
Alternatives(atoms) ==
    LET cuts == {0, Len(atoms) + 1} \cup {i \in DOMAIN atoms : atoms[i].kind = "bar"}
        next(i) == {j \in cuts : i < j /\ \A k \in cuts : ~(i < k /\ k < j)}
    IN  UNION {{SubSeq(atoms, i + 1, j - 1) : j \in next(i)} : i \in cuts}

\* regexp.Compile: the alternatives, each a sequence of atoms.
Compile(p) == {Alternatives(atoms) : atoms \in Atoms(p)}

\* An alternative matches all of s.
Spells(alternative, s) ==
    /\ Len(alternative) = Len(s)
    /\ \A i \in DOMAIN s : alternative[i].kind = "literal" => alternative[i].char = s[i]

Substrings(s) == {SubSeq(s, i, j) : i \in 1..(Len(s) + 1), j \in 0..Len(s)}

\* MatchString of ^(?:p)$, which is how a label matcher's pattern is compiled ...
AnchoredMatch(p, s) == \E r \in Compile(p) : \E alternative \in r : Spells(alternative, s)

\* ... and of p, as a line filter's is.
MatchString(p, s) ==
    \E r \in Compile(p) : \E alternative \in r, t \in Substrings(s) : Spells(alternative, t)
-----------------------------------------------------------------------------
(***************************************************************************)
(* The query API's parser.                                                 *)
(***************************************************************************)
Equal == <<"=">>
NotEqual == <<"!", "=">>
Regexp == <<"=", "~">>
NotRegexp == <<"!", "~">>
LineContains == <<"|", "=">>
LineMatches == <<"|", "~">>

\* The operators in the order in which they are tried.
MatchOps == <<Regexp, NotRegexp, NotEqual, Equal>>
FilterOps == <<LineContains, LineMatches, NotEqual, NotRegexp>>

scanOp(ops, s) ==
    LET found == {i \in DOMAIN ops : IsPrefix(ops[i], s)}
    IN  {[value |-> ops[i], rest |-> DropChars(s, Len(ops[i]))] :
            i \in {i \in found : \A j \in found : i <= j}}

scanIdent(s) ==
    LET n == Max({i \in 0..Len(s) : \A j \in 1..i : s[j] \in Letters})
    IN  IF n = 0 THEN {} ELSE {[value |-> SubSeq(s, 1, n), rest |-> DropChars(s, n)]}

\* strconv.QuotedPrefix and Unquote, after the opening double quote: the value
\* up to the next unescaped quote, and what follows.
unquote(s) ==
    LET mode == Reading(s, "inside", DoubleQuote)
        ends == {i \in DOMAIN s : mode[i] = "outside"}
        end == Min(ends)
        isError == \E i \in 1..end : mode[i - 1] = "escaped" /\ s[i] \notin Escapable
    IN  IF ends = {} \/ isError THEN {}
        ELSE {[value |-> FlattenSeq([i \in 1..(end - 1) |->
                                       IF mode[i] = "escaped" THEN <<>> ELSE <<s[i]>>]),
               rest |-> DropChars(s, end)]}

\* A backquoted string is taken as it is.
scanString(s) ==
    CASE s # <<>> /\ s[1] = QuoteMark -> unquote(Tail(s))
      [] s # <<>> /\ s[1] = Backquote ->
           LET ends == {i \in 2..Len(s) : s[i] = Backquote}
           IN  IF ends = {} THEN {}
               ELSE {[value |-> SubSeq(s, 2, Min(ends) - 1), rest |-> DropChars(s, Min(ends))]}
      [] OTHER -> {}

\* A regexp must compile.
Compiles(op, value) == op \in {Regexp, NotRegexp, LineMatches} => Compile(value) # {}

\* What may follow a matcher: a comma and the text after it, or nothing.
afterMatcher(s) ==
    CASE s = <<>> -> {<<>>}
      [] s # <<>> /\ s[1] = Comma -> {TrimSpace(Tail(s))}
      [] OTHER -> {}

\* One pass of the loop of parseMatchers.
scanMatcher(p) ==
    UNION {UNION {UNION {{[out |-> Append(p.out, [label |-> id.value, op |-> op.value,
                                                  value |-> str.value]),
                           rest |-> rest] : rest \in afterMatcher(TrimSpace(str.rest))} :
                     str \in {v \in scanString(TrimSpace(op.rest)) : Compiles(op.value, v.value)}} :
                 op \in scanOp(MatchOps, TrimSpace(id.rest))} :
          id \in scanIdent(p.rest)}

\* Every pass takes a character of the text at least.
parseMatchers(body) ==
    LET pass[n \in 0..Len(body)] ==
            IF n = 0 THEN {[out |-> <<>>, rest |-> TrimSpace(body)]}
            ELSE UNION {IF p.rest = <<>> THEN {p} ELSE scanMatcher(p) : p \in pass[n - 1]}
    IN  {p.out : p \in {x \in pass[Len(body)] : x.rest = <<>>}}

\* One pass of the loop of parseFilters.  rejectUnsupported gives some of the
\* texts scanFilterOp refuses an error of their own.
scanFilter(p) ==
    UNION {{[out |-> Append(p.out, [op |-> op.value, value |-> str.value]),
             rest |-> TrimSpace(str.rest)] :
               str \in {v \in scanString(TrimSpace(op.rest)) : Compiles(op.value, v.value)}} :
             op \in scanOp(FilterOps, p.rest)}

parseFilters(text) ==
    LET pass[n \in 0..Len(text)] ==
            IF n = 0 THEN {[out |-> <<>>, rest |-> text]}
            ELSE UNION {IF p.rest = <<>> THEN {p} ELSE scanFilter(p) : p \in pass[n - 1]}
    IN  {p.out : p \in {x \in pass[Len(text)] : x.rest = <<>>}}

\* The places of the braces that close a selector.
ClosingBraces(s) ==
    LET mode == Reading(s, "outside", DoubleQuote)
    IN  {i \in DOMAIN s : mode[i - 1] = "outside" /\ s[i] = RightBrace}

\* The place of the first one, 0 if there is none.
closingBrace(s) == IF ClosingBraces(s) = {} THEN 0 ELSE Min(ClosingBraces(s))

Parse(raw) ==
    LET s == TrimSpace(raw)
        end == closingBrace(s)
    IN  IF s = <<>> \/ s[1] # LeftBrace \/ end = 0 THEN {}
        ELSE {[matchers |-> ms, filters |-> fs] :
                 ms \in parseMatchers(SubSeq(s, 2, end - 1)) \ {<<>>},
                 fs \in parseFilters(TrimSpace(DropChars(s, end)))}

\* LabelMatcher.Matches
MatcherMatches(m, value) ==
    \/ m.op = Equal /\ value = m.value
    \/ m.op = NotEqual /\ value # m.value
    \/ m.op = Regexp /\ AnchoredMatch(m.value, value)
    \/ m.op = NotRegexp /\ ~AnchoredMatch(m.value, value)

\* LineFilter.Matches
FilterMatches(f, line) ==
    \/ f.op = LineContains /\ f.value \in Substrings(line)
    \/ f.op = NotEqual /\ f.value \notin Substrings(line)
    \/ f.op = LineMatches /\ MatchString(f.value, line)
    \/ f.op = NotRegexp /\ ~MatchString(f.value, line)
-----------------------------------------------------------------------------
(***************************************************************************)
(* The logs command's reading of a query.                                  *)
(***************************************************************************)

\* The text of a selector without its quoted strings, mode telling which they are.
WithoutStrings(s, mode) ==
    FlattenSeq([i \in DOMAIN s |->
        CASE s[i] = QuoteMark /\ mode[i - 1] # "escaped" -> <<Blank>>
          [] s[i] # QuoteMark /\ mode[i - 1] = "outside" -> <<s[i]>>
          [] OTHER -> <<>>])

\* Mutant: the character after a backslash is looked at.
unquotedUnescaped(s) ==
    LET quotes(i) == {j \in 1..i : s[j] = QuoteMark}
    IN  WithoutStrings(s, [i \in 0..Len(s) |->
            IF Cardinality(quotes(i)) % 2 = 0 THEN "outside" ELSE "inside"])

\* The loop of unquotedSelector over the text between the braces.
unquoted(s) == WithoutStrings(s, Reading(s, "outside", DoubleQuote))

unquotedSelector(query) ==
    LET opens == {i \in DOMAIN query : query[i] = LeftBrace}
        text == DropChars(query, Min(opens))
        end == closingBrace(text)
    IN  IF opens = {} THEN <<>>
        ELSE unquoted(IF end = 0 THEN text ELSE SubSeq(text, 1, end - 1))

\* The names matcherPattern finds in s before = or =~: a longest run of letters,
\* then blanks, then the operator.
MatchedNames(s) ==
    LET isRun(i, j) == /\ i <= j
                       /\ \A n \in i..j : s[n] \in Letters
                       /\ i = 1 \/ s[i - 1] \notin Letters
        after(j) == TrimSpace(DropChars(s, j))
    IN  {SubSeq(s, r[1], r[2]) :
            r \in {r \in (DOMAIN s) \X (DOMAIN s) : /\ isRun(r[1], r[2])
                                                   /\ IsPrefix(Equal, after(r[2]))}}

requiredLabels(query) == MatchedNames(unquotedSelector(query))
=============================================================================
