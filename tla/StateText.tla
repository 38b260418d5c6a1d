------------------------------ MODULE StateText ------------------------------
(***************************************************************************)
(* The conversions a state record's texts go through, over every text up   *)
(* to a length: crates/flux-core/src/state.rs native_hex, from_native_hex, *)
(* native_parts, identity_text, parse_identity and absolute_lexical, on    *)
(* POSIX.  A text is a sequence of bytes; hex digits are left out, a byte  *)
(* standing for its two.  std's Path::components is external.              *)
(***************************************************************************)
EXTENDS Integers, Sequences, SequencesExt, FiniteSets

CONSTANTS
    None,      \* no value
    Alphabet,  \* the bytes texts are made of
    MaxLen,    \* the longest text
    MaxVolume  \* the largest number of a volume or an index

VARIABLE text

Nul == "NUL"
Slash == "/"

\* The pieces of a text between occurrences of a byte.
Split(t, sep) ==
    LET cuts == {0} \cup {i \in 1..Len(t) : t[i] = sep} \cup {Len(t) + 1}
        next(i) == CHOOSE j \in cuts : j > i /\ \A k \in cuts : k > i => j <= k
        starts == SetToSortSeq(cuts \ {Len(t) + 1}, <)
    IN  [n \in DOMAIN starts |-> SubSeq(t, starts[n] + 1, next(starts[n]) - 1)]

-----------------------------------------------------------------------------
(* Paths.  A PathBuf is the text it was built from; two are equal when     *)
(* their components are.                                                   *)

IsRooted(p) == p # <<>> /\ p[1] = Slash

\* std::path::Path::components: the root, then the parts, without empty ones
\* and without "." but for a leading one.
components(p) ==
    LET parts == Split(p, Slash)
        kept == {i \in DOMAIN parts : /\ parts[i] # <<>>
                                      /\ parts[i] = <<".">> => (i = 1 /\ ~IsRooted(p))}
    IN  (IF IsRooted(p) THEN <<<<Slash>>>> ELSE <<>>)
        \o [n \in 1..Cardinality(kept) |-> parts[SetToSortSeq(kept, <)[n]]]

\* The components with "/" between them, none after the root.
native_hex(p) ==
    FoldLeft(LAMBDA out, c : IF out = <<>> \/ out = <<Slash>> THEN out \o c
                             ELSE out \o <<Slash>> \o c,
             <<>>, components(p))

native_parts(t) ==
    LET rest == IF IsRooted(t) THEN Tail(t) ELSE t
        parts == Split(rest, Slash)
    IN  IF IsRooted(t) /\ rest = <<>> THEN <<<<Slash>>>>
        ELSE IF \E i \in DOMAIN parts : parts[i] = <<>> \/ Contains(parts[i], Nul) THEN None
        ELSE (IF IsRooted(t) THEN <<<<Slash>>>> ELSE <<>>) \o parts

\* PathBuf::push of a part: a root replaces, a part is appended.
push(p, part) == IF part = <<Slash>> \/ p = <<>> THEN part
                 ELSE IF Last(p) = Slash THEN p \o part
                 ELSE p \o <<Slash>> \o part

from_native_hex(t) ==
    IF t = <<>> \/ native_parts(t) = None THEN None
    ELSE FoldLeft(push, <<>>, native_parts(t))

IsParent(c) == c = <<".", ".">>

\* The components of the absolute path with "." dropped and each ".." popping
\* the normal component before it.
absolute_lexical(p) ==
    FoldLeft(LAMBDA out, c : IF c = <<".">> THEN out
                             ELSE IF IsParent(c)
                                  THEN IF out # <<>> /\ Last(out) # <<Slash>>
                                       THEN Front(out) ELSE out
                             ELSE Append(out, c),
             <<>>, components(p))

-----------------------------------------------------------------------------
(* Identities: strong:<volume>:<index>, weak:<volume>:<index>, unavailable. *)

Digits == {"0", "1"}

\* Binary here, decimal in the code: the rule about leading zeros is one.
Number(d) == FoldLeft(LAMBDA n, c : 2 * n + (IF c = "1" THEN 1 ELSE 0), 0, d)

canonical(d) ==
    /\ d # <<>> /\ \A i \in DOMAIN d : d[i] \in Digits
    /\ d = <<"0">> \/ d[1] # "0"

parse_identity(t) ==
    LET parts == Split(t, ":")
    IN  IF t = <<"unavailable">> THEN [class |-> "unavailable", volume |-> 0, index |-> 0]
        ELSE IF Len(parts) # 3 \/ ~canonical(parts[2]) \/ ~canonical(parts[3]) THEN None
        ELSE IF Number(parts[2]) > MaxVolume \/ Number(parts[3]) > MaxVolume THEN None
        ELSE IF parts[1] \notin {<<"strong">>, <<"weak">>} THEN None
        ELSE [class |-> parts[1][1], volume |-> Number(parts[2]), index |-> Number(parts[3])]

Binary[n \in Nat] == IF n = 0 THEN <<"0">>
                     ELSE IF n = 1 THEN <<"1">>
                     ELSE Append(Binary[n \div 2], IF n % 2 = 1 THEN "1" ELSE "0")

identity_text(id) ==
    IF id.class = "unavailable" THEN <<"unavailable">>
    ELSE <<id.class, ":">> \o Binary[id.volume] \o <<":">> \o Binary[id.index]

-----------------------------------------------------------------------------
Init == text = <<>>
Next == Len(text) < MaxLen /\ \E b \in Alphabet : text' = Append(text, b)
Spec == Init /\ [][Next]_text

\* Every path a record stores is read back as the same path: "/" next to the
\* root, repeated separators, "." and ".." included.
PathRoundTrip ==
    (components(text) # <<>> /\ ~Contains(text, Nul)) =>
      /\ from_native_hex(native_hex(text)) # None
      /\ components(from_native_hex(native_hex(text))) = components(text)

\* A text native_hex cannot have produced, because a part of it is empty or
\* holds a NUL, is no path.
EmptyPartRefused ==
    from_native_hex(text) # None =>
      ~Contains(text, Nul) /\ ~\E i \in 1..Len(text) - 1 : text[i] = Slash /\ text[i + 1] = Slash

\* Popping from the left agrees with matching every ".." with the nearest
\* component before it that no other one takes.
LexicalIsMatching ==
    IsRooted(text) =>
      LET cs == SelectSeq(components(text), LAMBDA c : c # <<Slash>>)
          balance(i, j) == Cardinality({k \in i + 1..j : ~IsParent(cs[k])})
                           - Cardinality({k \in i + 1..j : IsParent(cs[k])})
          kept == {i \in DOMAIN cs : ~IsParent(cs[i]) /\ \A j \in i..Len(cs) : balance(i, j) >= 0}
      IN  absolute_lexical(text) =
            <<<<Slash>>>> \o [n \in 1..Cardinality(kept) |-> cs[SetToSortSeq(kept, <)[n]]]

\* An identity's text is the only one that reads as it.
IdentityRoundTrip ==
    parse_identity(text) # None => identity_text(parse_identity(text)) = text
=============================================================================
