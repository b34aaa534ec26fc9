----------------------------- MODULE MCRslExpr -----------------------------
(* Code blocks for RslExpr: all right sides of up to three operators,      *)
(* brackets, items of arrays, chains of assignments, a few statements.     *)
EXTENDS RslExpr

MCVarTypes == [a |-> "float", b |-> "float", c |-> "float", p |-> "bool",
               v |-> "vector", u |-> "vector", m |-> "float", w |-> "vector"]

MCOps == {"*", "/", "^", "+", "-", "<", "==", "&&", "||"}

MCRights ==
    {<<"a", o1, "b", o2, "c", o3, "a">> : o1, o2, o3 \in MCOps}
    \cup {<<"(", x, o1, y, ")", o2, "p">> : o1, o2 \in MCOps, x \in {"a", "2", "p"}, y \in {"2", "p"}}
    \cup {<<x, o1, "(", y, o2, "1", ")">> : o1, o2 \in MCOps, x \in {"a", "2", "p"}, y \in {"2", "p"}}
    \cup {<<"p", l1, "a", "<", "b", l2, "b", "+", "2", "==", "c">> : l1, l2 \in {"&&", "||"}}

MCItems ==
    { <<"m", "[", "1", "]">>, <<"m", "[", "a", "+", "b", "*", "2", "]">>,
      <<"m", "[", "m", "[", "b", "]", "]">>, <<"m", "[", "1", "]", "*", "m", "[", "2", "]">>,
      <<"v", ".", "u">>, <<"v", ".", "(", "u", "*", "2", ")", "+", "a">>,
      <<"a", "+", "v", ".", "u", "*", "b">>, <<"w", "[", "1", "]", ".", "v">>,
      <<"v", ".", "w", "[", "1", "]">>, <<"(", "(", "a", ")", ")">>,
      <<"1", "+", "2", "*", "1">>, <<"1", "==", "2">>, <<"-", "a">>, <<"b">>, <<"1">> }

MCCodeBlocks ==
    {<<"a", "=">> \o r \o <<";">> : r \in MCRights}
    \cup {<<"p", "=">> \o r \o <<";">> : r \in {x \in MCRights : x[2] \in {"&&", "||", "==", "<"}}}
    \cup {<<d, op>> \o r \o <<";">> : d \in {"c", "v"}, op \in Assigns, r \in MCItems}
    \cup {<<"m", "[", i, "]", op>> \o r \o <<";">> : i \in {"1", "a"}, op \in {"=", "+="}, r \in MCItems}
    \cup {<<d, o1, e, o2, "a", o3, "2", ";">> : d, e \in {"a", "b", "v"}, o1, o2, o3 \in {"=", "+=", "*="}}
    \cup {<<d, "=">> \o r \o <<";", "b", "+=", "a", "+", d, ";", "a", "-=", "b", ";">> :
            d \in {"a", "b"}, r \in MCItems}
    \cup { <<"m", "[", "1", "]", "=", "m", "[", "2", "]", "=", "a", ";">>,
           <<"c", "=", "m", "[", "a", "]", "=", "b", "=", "2", ";">>,
           <<"p", "=", "(", "1", "<", "2", ")", "==", "(", "2", "<", "1", ")", ";">>,
           <<"(", "a", "]", "=", "b", ";">>, <<"a", "=", "(", "b", ";">> }
=============================================================================
