----------------------------- MODULE LogQLQuery -----------------------------
(***************************************************************************)
(* A query on its way from the caller to the query API: built with the     *)
(* methods of cli/logql/logql.go, or typed for datumctl telemetry logs.    *)
(* The text is read by the query API's parser and by the logs command,     *)
(* which hints at required labels that have no values (LogQL.tla).         *)
(*                                                                         *)
(* asked is history: the conditions the builder's calls asked for, in the  *)
(* words of the methods' comments.  A condition says of a label, or of the *)
(* line, the texts it wants or excludes.                                   *)
(***************************************************************************)
EXTENDS LogQL

CONSTANTS
    Labels,        \* label names
    Values,        \* the values and line texts a caller may pass
    Lists,         \* the lists of values
    Tokens,        \* pieces of text a user types
    MaxConditions, \* bound on the conditions of a built query
    MaxTokens      \* bound on the pieces of a typed query

ASSUME QueryAssumption ==
    /\ MaxConditions \in Nat
    /\ MaxTokens \in Nat
    /\ Labels \subseteq Seq(Letters) \ {<<>>}
    /\ Values \subseteq Seq(Chars)
    /\ Lists \subseteq Seq(Seq(Chars))
    /\ Tokens \subseteq Seq(Chars)

VARIABLES
    selector, \* the Selector being built
    asked,    \* the conditions asked for so far
    typed     \* the pieces typed so far

vars == <<selector, asked, typed>>

\* Stands for the log line where a condition names a label.
Line == <<>>

Init ==
    /\ selector = EmptySelector
    /\ asked = <<>>
    /\ typed = <<>>
-----------------------------------------------------------------------------
(***************************************************************************)
(* Building.                                                               *)
(***************************************************************************)
Call(conditions) ==
    /\ typed = <<>>
    /\ Len(asked) < MaxConditions
    /\ asked' = asked \o conditions
    /\ UNCHANGED typed

Asks(on, wanted, texts) == <<[on |-> on, wanted |-> wanted, texts |-> texts]>>

add(l, op, v) ==
    selector' = [selector EXCEPT !.matchers = Append(@, [label |-> l, op |-> op, value |-> v])]

Eq(l, v) == Call(Asks(l, TRUE, {v})) /\ add(l, Equal, v)

Neq(l, v) == Call(Asks(l, FALSE, {v})) /\ add(l, NotEqual, v)

\* The values a caller means: trimmed, without the blank ones.
Named(values) == {TrimSpace(values[i]) : i \in DOMAIN values} \ {<<>>}

\* What OneOf and NoneOf share, with the operators for one value and several.
AnyOf(l, values, wanted, one, several) ==
    LET kept == dedupe(values)
    IN  /\ Call(IF Named(values) = {} THEN <<>> ELSE Asks(l, wanted, Named(values)))
        /\ CASE Len(kept) = 0 -> UNCHANGED selector
             [] Len(kept) = 1 -> add(l, one, kept[1])
             [] OTHER -> add(l, several, Alternation(kept))

OneOf(l, values) == AnyOf(l, values, TRUE, Equal, Regexp)

NoneOf(l, values) == AnyOf(l, values, FALSE, NotEqual, NotRegexp)

\* What Contains and Excludes share.
Filtered(text, wanted, op) ==
    /\ Call(IF text = <<>> THEN <<>> ELSE Asks(Line, wanted, {text}))
    /\ selector' = IF text = <<>> THEN selector
                   ELSE [selector EXCEPT !.filters = Append(@, [op |-> op, value |-> text])]

ContainsText(text) == Filtered(text, TRUE, LineContains)

Excludes(text) == Filtered(text, FALSE, NotEqual)

Build ==
    \/ \E l \in Labels, v \in Values : Eq(l, v) \/ Neq(l, v)
    \/ \E l \in Labels, values \in Lists : OneOf(l, values) \/ NoneOf(l, values)
    \/ \E v \in Values : ContainsText(v) \/ Excludes(v)

(***************************************************************************)
(* Typing.                                                                 *)
(***************************************************************************)
Type(token) ==
    /\ asked = <<>>
    /\ Len(typed) < MaxTokens
    /\ typed' = Append(typed, token)
    /\ UNCHANGED <<selector, asked>>

Next == Build \/ \E token \in Tokens : Type(token)

Spec == Init /\ [][Next]_vars
-----------------------------------------------------------------------------
(***************************************************************************)
(* Properties.                                                             *)
(***************************************************************************)

\* The text the query API is sent.
Text == IF typed = <<>> THEN String(selector) ELSE FlattenSeq(typed)

\* The texts a label's value or a line is tried with; the empty one is the
\* value of a label the stream does not have.
Probes == UNION {Substrings(v) : v \in Values}

\* A condition holds of a label's value, and of a line.
HoldsOfValue(c, v) == c.wanted <=> v \in c.texts
HoldsOfLine(c, line) == c.wanted <=> \E t \in c.texts : t \in Substrings(line)

AskedOf(on) == {asked[i] : i \in {j \in DOMAIN asked : asked[j].on = on}}

\* The query API reads a built query as exactly the conditions asked for: on
\* every label the same values pass (OneOf's alternation included, whatever
\* quotes, braces and regexp characters the values hold) and the same lines
\* do, and it refuses the text only when no label matcher was asked for
\* (Selector.String against Parse and Matches).
AskedIsMatched ==
    typed = <<>> =>
        IF selector.matchers = <<>> THEN Parse(Text) = {}
        ELSE \E q \in Parse(Text) :
                /\ \A l \in Labels, v \in Probes :
                      (\A c \in AskedOf(l) : HoldsOfValue(c, v))
                        <=> \A i \in DOMAIN q.matchers :
                               q.matchers[i].label = l => MatcherMatches(q.matchers[i], v)
                /\ \A line \in Probes :
                      (\A c \in AskedOf(Line) : HoldsOfLine(c, line))
                        <=> \A i \in DOMAIN q.filters : FilterMatches(q.filters[i], line)

\* The logs command reads from a query that the API accepts exactly the labels
\* that the API matches with = or =~, so its hint about labels without values
\* names no text from inside a value and misses no label (requiredLabels
\* against Parse).
HintsAreRequired ==
    \A q \in Parse(Text) :
        requiredLabels(Text) = {q.matchers[i].label :
            i \in {j \in DOMAIN q.matchers : q.matchers[j].op \in {Equal, Regexp}}}

\* A closing brace inside a quoted value does not end the selector: whatever
\* text is typed between backquotes, which scanString accepts, the query is
\* read with that text as its value (closingBrace's comment).
BracesInQuotesAreIgnored ==
    LET value == FlattenSeq(typed)
        query == <<LeftBrace, "e", "=", Backquote>> \o value \o <<Backquote, RightBrace>>
    IN  Backquote \notin {value[i] : i \in DOMAIN value} =>
            \E q \in Parse(query) : q.matchers[1].value = value
=============================================================================
