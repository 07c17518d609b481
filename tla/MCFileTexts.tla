----------------------------- MODULE MCFileTexts -----------------------------
(***************************************************************************)
(* FileTexts on all short texts over a letter and two kinds of quotes, and *)
(* on all small JSON objects whose strings hold braces, quotes, backslashes *)
(* and fences.                                                             *)
(***************************************************************************)
EXTENDS FileTexts

Words(chars, n) == UNION {[1 .. k -> chars] : k \in 0 .. n}

MCChars == {"a", "b", "x", "quote", "curly", "backslash", "{", "}", "[", "]", "fence"}
MCTexts == Words({"a", "quote", "curly"}, 4)
MCOlds == Words({"a", "quote", "curly"}, 2)
MCNews == {<<>>, <<"a">>, <<"b", "curly">>}

Joined(A, B) == {a \o b : a \in A, b \in B}
Units == {<<"x">>, <<"{">>, <<"}">>, <<"fence">>,
          <<"backslash", "quote">>, <<"backslash", "backslash">>}
Strings == {<<"quote">> \o s \o <<"quote">> :
              s \in {<<>>, <<"fence", "{", "}", "fence">>} \cup Units}
Values == {<<>>, <<"x">>} \cup Strings
Braced(S) == {<<"{">> \o s \o <<"}">> : s \in S}
Flat == Braced(Joined(Values, Values))
Keys == {<<>>, <<"x">>, <<"quote", "{", "quote">>,
         <<"quote", "backslash", "quote", "quote">>}
MCObjects == Flat \cup Braced(Joined(Keys, Joined(Flat, {<<"x">>})))

\* Arrays with an object, and strings that hold an object, fenced or not, or
\* what is between two fences in strings of an object.
Unquoted == {o \in MCObjects : "quote" \notin {o[i] : i \in DOMAIN o}}
Inside == Words({"x", "{", "}"}, 2) \cup Unquoted
          \cup {<<"fence">> \o o \o <<"fence">> : o \in Unquoted}
MCOtherValues == {<<"quote">> \o s \o <<"quote">> : s \in Inside}
                 \cup {<<"[">> \o o \o <<"]">> : o \in MCObjects}

MCBefores == {<<>>, <<"x">>, <<"quote">>, <<"[">>, <<"{", "x">>, <<"fence">>}
MCAfters == {<<>>, <<"x", "}">>, <<"quote">>, <<"quote", "{">>, <<"]">>}
=============================================================================
