---------------------------- MODULE MCRslPrepro ----------------------------
(* Texts for RslPrepro: all short ones of a few kinds of line, and files   *)
(* that include others.                                                    *)
EXTENDS RslPrepro

LOCAL INSTANCE SequencesExt

Ln(k, a) == [k |-> k, a |-> a]
Use(a) == Ln("text", a)
WithLF(s) == FlattenSeq([i \in 1..Len(s) |-> <<s[i], LF>>])

\* f is guarded against being included twice, g does not end its last line.
MCIncluded ==
    [f |-> WithLF(<<Ln("ifndef", "A"), Ln("define", "A"), Use("f1"), Ln("endif", "")>>),
     g |-> WithLF(<<Use("g1"), Ln("define", "B")>>) \o <<Use("A")>>,
     h |-> WithLF(<<Ln("include", "f"), Use("h1")>>)]

MCLines == {Use("A"), Ln("ifdef", "A"), Ln("ifndef", "B"), Ln("else", ""), Ln("endif", ""),
            Ln("define", "A"), Ln("include", "f"), Ln("pragma", "")}

MCLastLines == {Ln("include", "g"), Ln("include", "h"), Ln("include", "f"), Ln("include", "none"),
                Ln("if", "A"), Ln("if", ""), Ln("define", ""), Use("y")}

MCTexts ==
    {<<LF>>} \cup {WithLF(<<x>> \o s) : s \in [1..3 -> MCLines],
                        x \in {Use("A"), Ln("define", "A"), Ln("ifndef", "B")}}
    \cup {WithLF(<<Ln("ifdef", "A")>> \o s \o <<Ln("else", ""), Use("z")>>) \o <<Ln("endif", "")>> :
            s \in [1..3 -> MCLines]}
    \cup {WithLF(s) \o <<x>> : s \in [1..2 -> MCLines], x \in MCLastLines}
    \cup {WithLF(<<Ln(k, "A"), Ln("if", ""), x, Ln("endif", ""), Use("y")>>) :
            k \in {"ifdef", "ifndef"}, x \in MCLines}
    \cup {WithLF(<<Ln("include", n), Ln("include", "f"), Use("y")>>) : n \in {"g", "h"}}

MCPieces == {<<"/", "/">>, <<"/", "*">>, <<"*", "/">>, <<"a">>, <<" ">>, <<"LF">>, <<"\\">>}
MCChunks == UNION {{FlattenSeq(s) : s \in [1..n -> MCPieces]} : n \in 1..4}
=============================================================================
