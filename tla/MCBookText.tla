----------------------------- MODULE MCBookText -----------------------------
(* Texts put together from a header, a START marker with its line, a body,  *)
(* and an END marker with a footer; each part also in forms that no source  *)
(* should have: markers inside a line, twice, in the wrong order or not at  *)
(* all, a lone "\\r", fields without a value; and some with what is blank   *)
(* to some of the programs only, inside a line and at the end of a part.    *)
EXTENDS BookText

Lower == [c \in {"A"} |-> "a"]
Stops == << <<"b", "b">>, <<"#", "A", "a">>, <<>>, <<"blank", "a", "a", "b", "cr">> >>

Headers == {
    <<>>, <<"Title:">>, <<"Title:", "blank", "a", "cr", "nl">>, <<"nl", "Title:", "a", "blank", "A", "nl">>,
    <<"Title:", "nl", "a", "nl", "Title:", "b", "nl">>, <<"a", "Title:", "a", "nl">>,
    <<"Title:", "blank", "nl">>, <<"Title:", "a", "cr", "b", "nl">>, <<"a", "cr", "Title:", "b", "nl">>,
    <<"Date:", "a", "blank", "[", "b", "nl">>, <<"Date:", "[", "b", "nl", "Title:", "a", "cr", "nl">>,
    <<"EndThe", "nl">> }
Starts == {<<>>, <<"StartThe">>, <<"StartThis", "blank", "a", "cr", "nl">>, <<"StartThe", "cr", "EndThe", "nl">>,
           <<"StartThis", "nl", "b", "StartThe", "nl">>}
Bodies == {<<>>, <<"a", "A">>, <<"A", "b", "blank", "b", "b", "nl">>, <<"a", "cr", "cr", "nl", "b", "a", "[">>,
           <<"blank", "a", "a", "b", "[", "A", "b", "b", "nl">>}
Ends == {<<>>, <<"EndThe">>, <<"EndThis", "nl", "EndThe">>, <<"nl", "EndThis", "a">>}

OddHeaders == {
    <<"Title:", "wide", "nl", "a", "nl", "Title:", "b", "nl">>, <<"Title:", "blank", "line", "b", "nl">>,
    <<"Title:", "line", "Title:", "a", "nl">>,
    <<"Date:", "wide", "[", "b", "sep", "Title:", "a", "nobreak">>, <<"Title:", "control", "a", "wide", "b", "nl">>,
    <<"Title:", "a", "wide", "b", "nl", "Date:", "nl", "A", "nobreak", "A", "[", "a", "cr", "nl">>,
    <<"line", "Title:", "nobreak", "cr", "nl", "sep", "b", "cr">> }
OddStarts == {<<"StartThe", "nl">>, <<"StartThis", "a", "line", "EndThe", "nl">>}
OddBodies == {<<"nobreak", "a", "A", "nl">>, <<"a", "b", "control">>, <<"A", "b", "sep", "a", "wide", "a", "nl">>,
              <<"line", "a", "b", "wide", "nl">>}

SomeTexts == {h \o s \o b \o e : h \in Headers, s \in Starts, b \in Bodies, e \in Ends}
             \cup {h \o s \o b \o <<"EndThe">> : h \in OddHeaders, s \in OddStarts, b \in OddBodies}
=============================================================================
