------------------------------ MODULE RslPrepro ------------------------------
(***************************************************************************)
(* The preprocessor of the RSL compiler (RSLC::PREPRO).  A text is a       *)
(* sequence of lines and newlines: a line is one item, LF another, so that *)
(* cutting a line can leave a newline behind and a file that does not end  *)
(* with one runs into the next line.  Each pass of processFile over a line *)
(* is one step.  ClearChunk, which comes before, is a function of the      *)
(* characters of a text; one step applies it to a text of characters.      *)
(*                                                                         *)
(* SymbolsMap is a map from const char *: it compares addresses and not    *)
(* names.  What a look-up finds once something is in the map depends on    *)
(* where the strings happen to lie, and is a choice here.                  *)
(***************************************************************************)
EXTENDS Integers, Sequences

LOCAL INSTANCE SequencesExt

CONSTANTS
    Texts,      \* source files: sequences of lines and LF
    Chunks,     \* texts as they come, for ClearChunk: sequences of characters
    Included    \* name of an #include |-> its text; other names are not found

(* A line is [k, a]: the kind of a directive with its argument, or "text"  *)
(* with a name that it uses ("" for none), and "value" once that is        *)
(* replaced.                                                               *)
LF == [k |-> "LF", a |-> ""]

VARIABLES
    psrc,       \* the text given to Prepro
    ptext,      \* out_text, being processed in place
    pi,         \* index of the line at hand
    pact,       \* actStack
    psyms,      \* the symbols defined so far
    pstat,      \* "run", "done", "error"; a chunk: "chars", "spliced", "stripped", "clear"
    pasked      \* history: the look-ups of #ifdef, #ifndef and applySymbols

pvars == <<psrc, ptext, pi, pact, psyms, pstat, pasked>>

PTypeOK ==
    /\ pstat \in {"chars", "spliced", "stripped", "clear", "run", "done", "error"}
    /\ pact \in Seq(BOOLEAN)
    /\ pi \in 1..(Len(ptext) + 2)

PInitOn(texts, chunks) ==
    /\ \/ pstat = "run" /\ psrc \in texts
       \/ pstat = "chars" /\ psrc \in chunks
    /\ ptext = psrc /\ pi = 1
    /\ pact = <<>> /\ psyms = {} /\ pasked = <<>>

PInit == PInitOn(Texts, Chunks)

----------------------------------------------------------------------------
\* lineEnd: the next newline, or the end of the text.
LineEnd(t, i) ==
    LET ends == {j \in i..Len(t) : t[j] = LF}
    IN IF ends = {} THEN Len(t) + 1 ELSE CHOOSE j \in ends : \A l \in ends : j <= l

\* CutVectorInclusive: from i to before e, and e too unless it is the last.
CutVectorInclusive(t, i, e) ==
    SubSeq(t, 1, i - 1) \o SubSeq(t, IF e < Len(t) THEN e + 1 ELSE e, Len(t))

IsBlockActive == pact # <<>> => Last(pact)

Cur == ptext[pi]

\* MatchesAdvance takes what the end of the line cuts short: a bare #if is an #ifdef.
Directive == IF Cur.k = "if" /\ Cur.a = "" THEN "ifdef" ELSE Cur.k

CutLine == ptext' = CutVectorInclusive(ptext, pi, LineEnd(ptext, pi)) /\ UNCHANGED pi

\* The name after a directive; "" stands for none and for what is not a name.
IsAlphaNumStr(n) == n # ""

\* symbols.find: the addresses of the strings decide, so a name that is there may not be found.
Find(by, found) ==
    /\ found \in IF psyms = {} THEN {FALSE} ELSE BOOLEAN
    /\ pasked' = Append(pasked, [by |-> by, found |-> found])

----------------------------------------------------------------------------
\* Mutant: #ifdef inside an inactive block is looked up like any other.
HandleIfDefAlways(expectFound) ==
    /\ Directive = (IF expectFound THEN "ifdef" ELSE "ifndef")
    /\ \E found \in BOOLEAN :
            Find("if", found) /\ pact' = Append(pact, found = expectFound)
    /\ IsAlphaNumStr(Cur.a)
    /\ CutLine
    /\ UNCHANGED <<psrc, psyms, pstat>>

\* #ifdef and #ifndef: inside an inactive block only the nesting is kept.
HandleIfDef(expectFound) ==
    /\ Directive = (IF expectFound THEN "ifdef" ELSE "ifndef")
    /\ \/ ~IsBlockActive /\ pact' = Append(pact, FALSE) /\ UNCHANGED pasked
       \/ /\ IsBlockActive
          /\ \E found \in BOOLEAN :
                Find("if", found) /\ pact' = Append(pact, found = expectFound)
          /\ IsAlphaNumStr(Cur.a)
    /\ CutLine
    /\ UNCHANGED <<psrc, psyms, pstat>>

HandleElse ==
    /\ Cur.k = "else" /\ pact # <<>>
    /\ pact' = [pact EXCEPT ![Len(pact)] = ~@]
    /\ CutLine
    /\ UNCHANGED <<psrc, psyms, pstat, pasked>>

HandleEndIf ==
    /\ Cur.k = "endif" /\ pact # <<>>
    /\ pact' = Front(pact)
    /\ CutLine
    /\ UNCHANGED <<psrc, psyms, pstat, pasked>>

(* An #else or #endif too many, #elif and #if with a condition (not        *)
(* supported, active or not), a directive without its name, an #include of a file that is not   *)
(* there.                                                                  *)
PreproThrows ==
    /\ \/ Cur.k \in {"else", "endif"} /\ pact = <<>>
       \/ Directive \in {"if", "elif"}
       \/ Directive \in {"ifdef", "ifndef", "define"} /\ IsBlockActive /\ ~IsAlphaNumStr(Cur.a)
       \/ Cur.k = "include" /\ IsBlockActive /\ Cur.a \notin DOMAIN Included
    /\ pstat' = "error"
    /\ UNCHANGED <<psrc, ptext, pi, pact, psyms, pasked>>

(* The file takes the place of the line and of the newline after it, and   *)
(* is processed from its first line on.                                    *)
HandleInclude ==
    /\ Cur.k = "include" /\ IsBlockActive /\ Cur.a \in DOMAIN Included
    /\ LET e == LineEnd(ptext, pi)
           t == SubSeq(ptext, 1, pi - 1) \o Included[Cur.a] \o SubSeq(ptext, e, Len(ptext))
           insertEnd == pi + Len(Included[Cur.a])
       IN ptext' = CutVectorInclusive(t, insertEnd, insertEnd)
    /\ UNCHANGED <<psrc, pi, pact, psyms, pstat, pasked>>

HandleDefine ==
    /\ Cur.k = "define" /\ IsBlockActive /\ IsAlphaNumStr(Cur.a)
    /\ psyms' = psyms \cup {Cur.a}
    /\ CutLine
    /\ UNCHANGED <<psrc, pact, pstat, pasked>>

\* A line of an inactive block, other directives included.
CutInactive ==
    /\ ~IsBlockActive
    /\ Cur.k \notin {"ifdef", "ifndef", "else", "endif", "if", "elif"}
    /\ CutLine
    /\ UNCHANGED <<psrc, pact, psyms, pstat, pasked>>

(* A line that stays, an unknown directive as well.  applySymbols replaces *)
(* a name in it that it finds.                                             *)
KeepLine ==
    /\ IsBlockActive /\ Cur.k \in {"text", "pragma", "LF"}
    /\ \/ Cur.k = "text" /\ Cur.a # "" /\ \E found \in BOOLEAN :
            /\ Find("text", found)
            /\ ptext' = IF found THEN [ptext EXCEPT ![pi].k = "value"] ELSE ptext
       \/ (Cur.k # "text" \/ Cur.a = "") /\ UNCHANGED <<ptext, pasked>>
    /\ pi' = LineEnd(ptext, pi) + 1
    /\ UNCHANGED <<psrc, pact, psyms, pstat>>

\* The end of the text, whether or not every #if was closed.
PreproDone ==
    /\ pstat = "run" /\ pi > Len(ptext)
    /\ pstat' = "done"
    /\ UNCHANGED <<psrc, ptext, pi, pact, psyms, pasked>>

----------------------------------------------------------------------------
(* ClearChunk.  A text of characters; "LF" is 0x0a, " " a space or tab.    *)

\* MatchesAdvance: a match that the end of the text cuts short is one.
Matches(t, i, w) == \A j \in 1..Len(w) : i + j - 1 <= Len(t) => t[i + j - 1] = w[j]

\* text[i]; "?" is what lies behind the chunk.
CharAt(t, i) == IF i <= Len(t) THEN t[i] ELSE "?"

\* SkipHWhites: the first index from i on that is not blank.
SkipHWhites(t, i) ==
    LET ends == {j \in i..Len(t) : t[j] # " "}
    IN IF ends = {} THEN Len(t) + 1 ELSE CHOOSE j \in ends : \A l \in ends : j <= l

(* spliceLines from i on: a backslash goes with the newline after it, or   *)
(* with the last character of the chunk.                                   *)
RECURSIVE SpliceLines(_, _)
SpliceLines(t, i) ==
    IF i > Len(t) THEN <<>>
    ELSE LET i2 == SkipHWhites(t, i + 1)
         IN IF t[i] # "\\" \/ i2 > Len(t) THEN <<t[i]>> \o SpliceLines(t, i + 1)
            ELSE IF t[i2] = "LF" \/ i2 = Len(t) THEN SpliceLines(t, i2 + 1)
            ELSE <<t[i2 - 1]>> \o SpliceLines(t, i2)

(* stripComments from i on, being in code, a line or a block comment.  The *)
(* loop steps over one more character after each match: at the beginning   *)
(* of a comment it is dropped, after a block comment it is taken as it is. *)
RECURSIVE StripComments(_, _, _)
StripComments(t, i, in) ==
    IF i > Len(t) THEN <<>>
    ELSE CASE in = "line" -> IF t[i] = "LF" THEN <<"LF">> \o StripComments(t, i + 1, "code")
                             ELSE StripComments(t, i + 1, "line")
           [] in = "block" -> IF Matches(t, i, <<"*", "/">>)
                              THEN <<CharAt(t, i + 2)>> \o StripComments(t, i + 3, "code")
                              ELSE StripComments(t, i + 1, "block")
           [] in = "code" /\ Matches(t, i, <<"/", "/">>) -> StripComments(t, i + 3, "line")
           [] in = "code" /\ Matches(t, i, <<"/", "*">>) -> <<"LF">> \o StripComments(t, i + 3, "block")
           [] OTHER -> <<t[i]>> \o StripComments(t, i + 1, "code")

(* optimizeWhitespaces: no blanks at the beginning of a line, no empty     *)
(* line after another newline.                                             *)
OptimizeWhitespaces(t) ==
    LET BlankHead(i) == t[i] = " " /\ \E j \in 0..(i - 1) : /\ j = 0 \/ t[j] = "LF"
                                                            /\ \A l \in (j + 1)..i : t[l] = " "
        u == SelectSeq([i \in 1..Len(t) |-> IF BlankHead(i) THEN "" ELSE t[i]], LAMBDA c : c # "")
    IN SelectSeq([i \in 1..Len(u) |-> IF u[i] = "LF" /\ i > 1 /\ u[i - 1] = "LF" THEN "" ELSE u[i]],
                 LAMBDA c : c # "")

(* ClearChunk: the three passes one after the other. *)
ClearChunk ==
    /\ \/ pstat = "chars" /\ pstat' = "spliced" /\ ptext' = SpliceLines(ptext, 1)
       \/ pstat = "spliced" /\ pstat' = "stripped" /\ ptext' = StripComments(ptext, 1, "code")
       \/ pstat = "stripped" /\ pstat' = "clear" /\ ptext' = OptimizeWhitespaces(ptext)
    /\ UNCHANGED <<psrc, pi, pact, psyms, pasked>>

PStep ==
    \/ /\ pstat = "run" /\ pi <= Len(ptext)
       /\ \/ HandleIfDef(TRUE) \/ HandleIfDef(FALSE) \/ HandleElse \/ HandleEndIf
          \/ PreproThrows \/ HandleInclude \/ HandleDefine \/ CutInactive \/ KeepLine
    \/ PreproDone \/ ClearChunk

PNext == PStep

PSpec == PInit /\ [][PNext]_pvars

----------------------------------------------------------------------------
(* What a text means, with the answers to its #ifdefs: its lines that are  *)
(* not under a condition that is off, included files in place.  "dead" is  *)
(* a condition inside one that is off.  odd: the text has an #else of a    *)
(* dead condition, or includes a file whose last line does not end.        *)
Lines(t) == SelectSeq(t, LAMBDA l : l # LF)

RECURSIVE Meant(_, _, _, _)
Meant(ls, conds, answers, out) ==
    IF ls = <<>> THEN [lines |-> out, odd |-> FALSE]
    ELSE LET h  == Head(ls)
             r  == Tail(ls)
             on == \A i \in 1..Len(conds) : conds[i] = "on"
             Go(c) == Meant(r, c, answers, out)
         IN CASE h.k \in {"ifdef", "ifndef", "if"} ->
                    IF on THEN Meant(r, Append(conds, IF Head(answers) = (h.k = "ifdef")
                                                      THEN "on" ELSE "off"), Tail(answers), out)
                    ELSE Go(Append(conds, "dead"))
              [] h.k = "else" ->
                    CASE Last(conds) = "on" -> Go(Append(Front(conds), "off"))
                      [] Last(conds) = "off" -> Go(Append(Front(conds), "on"))
                      [] OTHER -> [lines |-> out, odd |-> TRUE]
              [] h.k = "endif" -> Go(Front(conds))
              [] h.k = "include" /\ on ->
                    IF Last(Included[h.a]) = LF \/ r = <<>>
                    THEN Meant(Lines(Included[h.a]) \o r, conds, answers, out)
                    ELSE [lines |-> out, odd |-> TRUE]
              [] h.k \in {"text", "pragma"} /\ on -> Meant(r, conds, answers, Append(out, h.a))
              [] OTHER -> Go(conds)

Answers == LET ifs == SelectSeq(pasked, LAMBDA q : q.by = "if")
           IN [i \in 1..Len(ifs) |-> ifs[i].found]

\* The lines that processFile leaves are those the text means.
LinesAsMeant ==
    pstat = "done" =>
        LET m  == Meant(Lines(psrc), <<>>, Answers, <<>>)
            ls == Lines(ptext)
        IN m.odd \/ m.lines = [i \in 1..Len(ls) |-> ls[i].a]

(* A text without its comments, each block comment a newline, as the       *)
(* language has it.  odd: a comment that is empty or follows another one   *)
(* or the end cuts short.                                                  *)
RECURSIVE Uncommented(_, _, _, _)
Uncommented(t, i, in, out) ==
    LET Has(w) == <<t[i], CharAt(t, i + 1)>> = w
        odd == \/ /\ in = "code"
                  /\ \/ t[i] = "/" /\ i = Len(t)
                     \/ Has(<<"/", "/">>) /\ CharAt(t, i + 2) \in {"LF", "?"}
                     \/ Has(<<"/", "*">>) /\ CharAt(t, i + 2) = "*" /\ CharAt(t, i + 3) = "/"
               \/ /\ in = "block"
                  /\ \/ t[i] = "*" /\ i = Len(t)
                     \/ Has(<<"*", "/">>) /\ CharAt(t, i + 2) \in {"/", "?"}
    IN CASE i > Len(t) -> [text |-> out, odd |-> FALSE]
         [] i <= Len(t) /\ odd -> [text |-> out, odd |-> TRUE]
         [] OTHER ->
            CASE in = "code" /\ Has(<<"/", "/">>) -> Uncommented(t, i + 2, "line", out)
              [] in = "code" /\ Has(<<"/", "*">>) -> Uncommented(t, i + 2, "block", Append(out, "LF"))
              [] in = "block" /\ Has(<<"*", "/">>) -> Uncommented(t, i + 2, "code", out)
              [] in = "line" /\ t[i] = "LF" -> Uncommented(t, i, "code", out)
              [] in = "code" /\ ~Has(<<"/", "/">>) /\ ~Has(<<"/", "*">>)
                        -> Uncommented(t, i + 1, in, Append(out, t[i]))
              [] OTHER -> Uncommented(t, i + 1, in, out)

\* A backslash that is not before a newline.
Escapes(t) == \E i \in 1..Len(t) : t[i] = "\\" /\ CharAt(t, SkipHWhites(t, i + 1)) # "LF"

\* ClearChunk takes out the comments and nothing else, joins lines and drops blanks.
ChunkAsMeant ==
    pstat = "clear" =>
        \A joined \in {SpliceLines(psrc, 1)} : \A u \in {Uncommented(joined, 1, "code", <<>>)} :
            Escapes(psrc) \/ u.odd \/ ptext = OptimizeWhitespaces(u.text)

(* A shader's text is preprocessed to what it means (RSLC_Prepro.cpp,      *)
(* RSLC_Prepro_ClearChunk.cpp): nested conditionals, includes and comments *)
(* take out exactly what they should, except in the odd cases.             *)
TextAsMeant == LinesAsMeant /\ ChunkAsMeant

(* The newline that a cut leaves at the end of the text is cut again for   *)
(* ever if the text ends inside an inactive block.                         *)
CutsForEver == pi = Len(ptext) /\ Cur = LF /\ ~IsBlockActive

\* processFile is under way, but for the newline above.
InProcessFile == pstat = "run" /\ ~CutsForEver
=============================================================================
