---------------------------- MODULE MCLogQLQuery ----------------------------
(***************************************************************************)
(* Instances of LogQLQuery: values holding the characters that quoting,    *)
(* regexps and the selector's own syntax give a meaning, and the pieces    *)
(* from which a user types queries with and without them.                  *)
(***************************************************************************)
EXTENDS LogQLQuery

MCLabels == {<<"e">>, <<"k">>}

MCValues == {<<>>, <<Blank, "e">>, <<"e", "k">>, <<".">>, <<"\\">>,
             <<RightBrace, QuoteMark>>, <<"e", "|", "k">>, <<QuoteMark, Comma, Backquote, "k", "=">>}

MCLists == {<<v, w>> : v, w \in MCValues}

MCTokens == {<<LeftBrace, "e", "=">>, <<"k", Blank, "!", "=", QuoteMark>>, <<"k", "=", "~", QuoteMark>>,
             <<QuoteMark>>, <<"\\">>, <<QuoteMark, Comma>>, <<RightBrace>>}

MCBackquoteTokens == {<<LeftBrace>>, <<"e", "=">>, <<"k", "=">>, <<Backquote>>, <<RightBrace>>}
=============================================================================
