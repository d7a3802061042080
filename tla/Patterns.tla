------------------------------ MODULE Patterns ------------------------------
(* The three readings of a pattern: the tree-walker's (match_pattern,       *)
(* interpreter/mod.rs), which binds names, the VM's (match_rec, vm/vm.rs),  *)
(* which pushes values, and the compiler's (collect_binding_names,          *)
(* compiler/mod.rs), which says what names those values have.               *)
(* A pattern is _, a name, a literal, a vector with or without a rest, a    *)
(* variant, or alternatives.  A vector value is a pair; a variant holds its *)
(* name and its arguments.                                                  *)
EXTENDS Naturals, Sequences, FiniteSetsExt, SequencesExt

\* match_pattern: what the pattern's names are bound to, or <<>> if it fails;
\* of a vector or a variant, what its parts bind, a later name over an equal one.
RECURSIVE MatchPattern(_, _), MatchAll(_, _)
MatchAll(ps, vs) ==
  IF ps = <<>> THEN <<[y \in {} |-> y]>>
  ELSE LET first == MatchPattern(Head(ps), Head(vs))
           rest  == IF first = <<>> THEN <<>> ELSE MatchAll(Tail(ps), Tail(vs))
       IN IF rest = <<>> THEN <<>> ELSE <<rest[1] @@ first[1]>>
MatchPattern(p, v) ==
  CASE p[1] = "_"       -> MatchAll(<<>>, <<>>)
    [] p[1] = "bind"    -> <<p[2] :> v>>
    [] p[1] = "lit"     -> IF v = p[2] THEN MatchAll(<<>>, <<>>) ELSE <<>>
    [] p[1] = "variant" -> IF v[1] = "variant" /\ v[2] = p[3] /\ Len(v) = Len(p[2]) + 2
                           THEN MatchAll(p[2], SubSeq(v, 3, Len(v))) ELSE <<>>
    [] p[1] = "vec"     -> IF v[1] = "pair" /\ (Len(p[2]) = 2 \/ (p[3] /\ Len(p[2]) < 2))
                           THEN MatchAll(p[2], Tail(v)) ELSE <<>>
    [] p[1] = "or"      -> LET fits == {i \in DOMAIN p[2] : MatchPattern(p[2][i], v) # <<>>}
                           IN IF fits = {} THEN <<>> ELSE MatchPattern(p[2][Min(fits)], v)

\* match_rec: what the pattern binds, one after the other, or <<"fails">>.
RECURSIVE MatchRec(_, _), MatchParts(_, _)
MatchParts(ps, vs) ==
  IF ps = <<>> THEN <<"fits", <<>>>>
  ELSE LET first == MatchRec(Head(ps), Head(vs))
           rest  == IF first[1] = "fails" THEN first ELSE MatchParts(Tail(ps), Tail(vs))
       IN IF rest[1] = "fails" THEN rest ELSE <<"fits", first[2] \o rest[2]>>
MatchRec(p, v) ==
  LET If(fits) == IF fits THEN <<"fits", <<>>>> ELSE <<"fails">>
  IN CASE p[1] = "_"       -> If(TRUE)
       [] p[1] = "bind"    -> <<"fits", <<v>>>>
       [] p[1] = "lit"     -> If(v = p[2])
       [] p[1] = "variant" -> IF v[1] = "variant" /\ v[2] = p[3] /\ Len(v) = Len(p[2]) + 2
                              THEN MatchParts(p[2], SubSeq(v, 3, Len(v))) ELSE If(FALSE)
       [] p[1] = "vec"     -> IF v[1] = "pair" /\ (IF p[3] THEN Len(p[2]) <= 2 ELSE Len(p[2]) = 2)
                              THEN MatchParts(p[2], Tail(v)) ELSE If(FALSE)
       [] p[1] = "or"      -> LET fits == {i \in DOMAIN p[2] : MatchRec(p[2][i], v)[1] = "fits"}
                              IN IF fits = {} THEN If(FALSE) ELSE MatchRec(p[2][Min(fits)], v)

\* collect_binding_names: of an or-pattern, those of the first alternative.
RECURSIVE BindingNames(_)
BindingNames(p) ==
  CASE p[1] = "bind" -> <<p[2]>>
    [] p[1] \in {"vec", "variant"} -> FlattenSeq([i \in DOMAIN p[2] |-> BindingNames(p[2][i])])
    [] p[1] = "or" -> BindingNames(p[2][1])
    [] OTHER -> <<>>
=============================================================================
