------------------------------- MODULE Select -------------------------------
(***************************************************************************)
(* The `--exclude` matcher (select.rs): Pattern::parse, the two-pointer    *)
(* loops match_segs and match_glob, and Selection::select, run one loop    *)
(* turn at a time on every pattern and path of a small alphabet.           *)
(*                                                                         *)
(* A pattern is a sequence of characters.  A literal character has one     *)
(* scalar and one or two bytes; a name that is not valid text is matched   *)
(* by bytes, any other by scalars.                                         *)
(***************************************************************************)
EXTENDS Naturals, Sequences, SequencesExt, FiniteSets

CONSTANTS
    Letters,    \* literal characters (strings of one character)
    Wide,       \* those of them that take two bytes
    MaxPattern, \* bound: characters of a pattern
    Paths,      \* the relative paths tried: sequences of names
    Broken,     \* names that are not valid text
    None

VARIABLES
    typed,      \* the pattern as typed
    rel, ft,    \* the entry: its path, and its type
    recursive,  \* whether directories are entered
    pat,        \* the parsed pattern, or the error
    at,         \* where select is
    segs,       \* match_segs: p, t and star
    glob,       \* match_glob: p, t and star
    steps,      \* turns of the inner loop for this component
    verdict

vars == <<typed, rel, ft, recursive, pat, at, segs, glob, steps, verdict>>
input == <<typed, rel, ft, recursive>>

\* "!" stands for the characters a pattern may not hold: the backslash, the
\* reserved ones and the control characters.  The caps on lengths and counts
\* are left out.
Chars == Letters \cup {"*", "?", "/", ".", "!"}

\* A character is its own scalar; a wide one has a second byte.
Bytes(c) == IF c \in Wide THEN <<c, "~">> ELSE <<c>>
AllBytes(name) == FlattenSeq([i \in 1 .. Len(name) |-> Bytes(name[i])])

\* Comp::new: decided once per component.
Comp(name) == IF name \in Broken THEN [scalars |-> FALSE, units |-> AllBytes(name)]
              ELSE [scalars |-> TRUE, units |-> name]

----------------------------------------------------------------------------
\* Pattern::parse

\* body.split('/'): the parts between the slashes, empty ones included.
Split(s) ==
    LET cut == {0, Len(s) + 1} \cup {i \in 1 .. Len(s) : s[i] = "/"}
        c   == SetToSortSeq(cut, <)
    IN  [i \in 1 .. Len(c) - 1 |-> SubSeq(s, c[i] + 1, c[i + 1] - 1)]

Lit(u) == [tok |-> "lit", u |-> u]
Token(c) == [tok |-> IF c = "*" THEN "star" ELSE "any", u |-> ""]

\* glob(): the tokens of a part in both encodings.
Glob(part) ==
    [seg |-> "glob",
     scalars |-> [i \in 1 .. Len(part) |->
                    IF part[i] \in {"*", "?"} THEN Token(part[i]) ELSE Lit(part[i])],
     bytes |-> FlattenSeq([i \in 1 .. Len(part) |->
                    IF part[i] \in {"*", "?"} THEN <<Token(part[i])>>
                    ELSE [j \in 1 .. Len(Bytes(part[i])) |-> Lit(Bytes(part[i])[j])]])]
Deep == [seg |-> "deep", scalars |-> << >>, bytes |-> << >>]
One == [seg |-> "one", scalars |-> << >>, bytes |-> << >>]

HasDoubleStar(part) == \E i \in 1 .. Len(part) - 1 : part[i] = "*" /\ part[i + 1] = "*"
BadPart(parts, i) ==
    \/ parts[i] = << >> \/ parts[i] = <<".">> \/ parts[i] = <<".", ".">>
    \/ parts[i] = <<"*", "*">> /\ i > 1 /\ parts[i - 1] = <<"*", "*">>
    \/ parts[i] # <<"*", "*">> /\ HasDoubleStar(parts[i])

\* A trailing `**` is one or more components, any other zero or more.
SegsOf(parts) ==
    FlattenSeq([i \in 1 .. Len(parts) |->
                  IF parts[i] # <<"*", "*">> THEN <<Glob(parts[i])>>
                  ELSE IF i = Len(parts) THEN <<One, Deep>> ELSE <<Deep>>])

NoPattern == [ok |-> FALSE, dirOnly |-> FALSE, anchored |-> FALSE, segs |-> << >>]

Parse(s) ==
    LET dirOnly == s # << >> /\ Last(s) = "/"
        b1      == IF dirOnly THEN Front(s) ELSE s
        lead    == b1 # << >> /\ Head(b1) = "/"
        parts   == Split(IF lead THEN Tail(b1) ELSE b1)
    IN  IF s = << >> \/ s = <<"/">> \/ "!" \in Range(s)
           \/ (\E i \in 1 .. Len(parts) : BadPart(parts, i))
        THEN NoPattern
        ELSE [ok |-> TRUE, dirOnly |-> dirOnly, anchored |-> lead \/ Len(parts) > 1,
              segs |-> SegsOf(parts)]

----------------------------------------------------------------------------
Pointer(p, t, star) == [p |-> p, t |-> t, star |-> star]
Begin == Pointer(0, 0, None)

\* The text of match_segs: the whole path, or its last component.
Cand == LET comps == [i \in 1 .. Len(rel) |-> Comp(rel[i])]
        IN  IF pat.anchored THEN comps ELSE <<Last(comps)>>

TypeOK ==
    /\ at \in {"parse", "select", "segs", "glob", "end"}
    /\ segs.p \in 0 .. Len(pat.segs) /\ (at # "parse" => segs.t \in 0 .. Len(rel))
    /\ steps \in Nat /\ verdict \in {None, "keep", "excluded", "skipped", "refused"}

Init ==
    /\ typed \in UNION {[1 .. n -> Chars] : n \in 0 .. MaxPattern}
    /\ rel \in Paths /\ ft \in {"dir", "file"} /\ recursive \in BOOLEAN
    /\ pat = NoPattern /\ at = "parse" /\ segs = Begin /\ glob = Begin
    /\ steps = 0 /\ verdict = None

\* Selection::compile: a list with a pattern that does not parse is refused.
Compile ==
    /\ at = "parse"
    /\ pat' = Parse(typed)
    /\ IF pat'.ok THEN at' = "select" /\ UNCHANGED verdict
                  ELSE at' = "end" /\ verdict' = "refused"
    /\ UNCHANGED <<input, segs, glob, steps>>

\* select_with after the patterns: the recursion flag.
Unmatched == IF ~recursive /\ ft = "dir" THEN "skipped" ELSE "keep"
Decide(matched) == /\ at' = "end"
                   /\ verdict' = IF matched THEN "excluded" ELSE Unmatched

\* Pattern::matches: a directory pattern looks at directories only.
Matches ==
    /\ at = "select"
    /\ IF pat.dirOnly /\ ft # "dir" THEN Decide(FALSE) ELSE at' = "segs" /\ UNCHANGED verdict
    /\ UNCHANGED <<input, pat, segs, glob, steps>>

Seg == pat.segs[segs.p + 1]
HasSeg == segs.p < Len(pat.segs)

\* A mismatch goes back to the last star, which takes one more.
Retry(w) == Pointer(w.star[1] + 1, w.star[2] + 1, <<w.star[1], w.star[2] + 1>>)

\* The mismatch branch of match_segs.
SegsRetry == IF segs.star = None THEN Decide(FALSE) /\ UNCHANGED segs
             ELSE segs' = Retry(segs) /\ at' = "segs" /\ UNCHANGED verdict

\* One turn of match_segs: a star is noted, a glob is tried on the component.
SegsTurn ==
    /\ at = "segs" /\ segs.t < Len(Cand)
    /\ \/ /\ HasSeg /\ Seg.seg = "deep"
          /\ segs' = Pointer(segs.p + 1, segs.t, <<segs.p, segs.t>>)
          /\ UNCHANGED <<at, glob, steps, verdict>>
       \/ /\ HasSeg /\ Seg.seg = "one"
          /\ segs' = [segs EXCEPT !.p = @ + 1, !.t = @ + 1]
          /\ UNCHANGED <<at, glob, steps, verdict>>
       \/ /\ HasSeg /\ Seg.seg = "glob"
          /\ at' = "glob" /\ glob' = Begin /\ steps' = 0
          /\ UNCHANGED <<segs, verdict>>
       \/ ~HasSeg /\ SegsRetry /\ UNCHANGED <<glob, steps>>
    /\ UNCHANGED <<input, pat>>

\* mutant: what is left of the pattern is not looked at.
SegsEnd_open ==
    /\ at = "segs" /\ segs.t = Len(Cand)
    /\ Decide(TRUE)
    /\ UNCHANGED <<input, pat, segs, glob, steps>>

\* The text is used up: only stars may be left.
SegsEnd ==
    /\ at = "segs" /\ segs.t = Len(Cand)
    /\ Decide(\A i \in segs.p + 1 .. Len(pat.segs) : pat.segs[i].seg = "deep")
    /\ UNCHANGED <<input, pat, segs, glob, steps>>

\* match_seg: the encoding follows the component.
Units == Cand[segs.t + 1].units
Toks == IF Cand[segs.t + 1].scalars THEN Seg.scalars ELSE Seg.bytes
Tok == Toks[glob.p + 1]
GlobDone(matched) ==
    /\ UNCHANGED glob
    /\ IF matched THEN /\ segs' = [segs EXCEPT !.p = @ + 1, !.t = @ + 1]
                       /\ at' = "segs" /\ UNCHANGED verdict
                  ELSE SegsRetry

\* One turn of match_glob.
GlobTurn ==
    /\ at = "glob" /\ glob.t < Len(Units)
    /\ steps' = steps + 1
    /\ LET has == glob.p < Len(Toks)
           hit == has /\ (Tok.tok = "any" \/ (Tok.tok = "lit" /\ Tok.u = Units[glob.t + 1]))
       IN  \/ /\ has /\ Tok.tok = "star"
              /\ glob' = Pointer(glob.p + 1, glob.t, <<glob.p, glob.t>>)
              /\ UNCHANGED <<at, segs, verdict>>
           \/ /\ hit
              /\ glob' = [glob EXCEPT !.p = @ + 1, !.t = @ + 1]
              /\ UNCHANGED <<at, segs, verdict>>
           \/ /\ ~hit /\ ~(has /\ Tok.tok = "star") /\ glob.star # None
              /\ glob' = Retry(glob)
              /\ UNCHANGED <<at, segs, verdict>>
           \/ ~hit /\ ~(has /\ Tok.tok = "star") /\ glob.star = None /\ GlobDone(FALSE)
    /\ UNCHANGED <<input, pat>>

\* The name is used up: only stars may be left.
GlobEnd ==
    /\ at = "glob" /\ glob.t = Len(Units)
    /\ GlobDone(\A i \in glob.p + 1 .. Len(Toks) : Toks[i].tok = "star")
    /\ UNCHANGED <<input, pat, steps>>

Next == Compile \/ Matches \/ SegsTurn \/ SegsEnd \/ GlobTurn \/ GlobEnd
Spec == Init /\ [][Next]_vars

----------------------------------------------------------------------------
\* Properties

\* What a glob means: position i of the tokens and j of the units, by trying
\* every length a star may have.
GlobMeaning(toks, units) ==
    LET M[i \in 1 .. Len(toks) + 1, j \in 1 .. Len(units) + 1] ==
            IF i > Len(toks) THEN j > Len(units)
            ELSE IF toks[i].tok = "star" THEN \E k \in j .. Len(units) + 1 : M[i + 1, k]
            ELSE /\ j <= Len(units)
                 /\ toks[i].tok = "any" \/ toks[i].u = units[j]
                 /\ M[i + 1, j + 1]
    IN  M[1, 1]

\* What a sequence of segments means on a path.
SegsMeaning(sg, comps) ==
    LET M[i \in 1 .. Len(sg) + 1, j \in 1 .. Len(comps) + 1] ==
            IF i > Len(sg) THEN j > Len(comps)
            ELSE IF sg[i].seg = "deep" THEN \E k \in j .. Len(comps) + 1 : M[i + 1, k]
            ELSE /\ j <= Len(comps)
                 /\ \/ sg[i].seg = "one"
                    \/ sg[i].seg = "glob" /\ GlobMeaning(IF comps[j].scalars THEN sg[i].scalars
                                                         ELSE sg[i].bytes, comps[j].units)
                 /\ M[i + 1, j + 1]
    IN  M[1, 1]

\* The two-pointer loops decide exactly what the pattern means, although they
\* only ever go back to the last star.
VerdictIsMeaning ==
    (at = "end" /\ pat.ok) =>
       (verdict = "excluded" <=> ((pat.dirOnly => ft = "dir") /\ SegsMeaning(pat.segs, Cand)))

\* A pattern `dir/**` excludes what is inside and keeps the directory itself:
\* the trailing `**` is one or more components.
TrailingKeepsTheDirectory ==
    (at = "end" /\ pat.ok /\ Len(rel) = 1 /\ Len(typed) > 3 /\ ~pat.dirOnly
        /\ SubSeq(typed, Len(typed) - 2, Len(typed)) = <<"/", "*", "*">>
        /\ Head(typed) \notin {"*", "/"})
       => verdict # "excluded"

\* The advertised cost: a component is matched in at most one turn per pair of
\* a token and a unit, and one more per unit.
CostBounded ==
    at = "glob" => steps <= (Len(Toks) + 1) * (Len(Units) + 1)

\* A pattern without `?` decides a name the same way by scalars and by bytes.
EncodingsAgree ==
    \A i \in 1 .. Len(pat.segs) : \A n \in 1 .. Len(rel) :
       (pat.ok /\ at = "select" /\ \A k \in 1 .. Len(typed) : typed[k] # "?") =>
          (GlobMeaning(pat.segs[i].bytes, AllBytes(rel[n]))
             <=> GlobMeaning(pat.segs[i].scalars, rel[n]))

=============================================================================
