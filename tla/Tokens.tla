---- MODULE Tokens ----
(***************************************************************************)
(* The cursor of the recursive-descent parsers of graphql/parse.go and     *)
(* grpcproto/parse.go.  A token is [kind, value, number]; a test of its    *)
(* value does not see its kind.  A cursor is what is left of the tokens,   *)
(* whether a call failed, and the result of the last call: [rest, failed,  *)
(* out].                                                                   *)
(***************************************************************************)
EXTENDS Naturals, Integers, Sequences

Word(v) == [kind |-> "name", value |-> v, number |-> 0]
Text(v) == [kind |-> "string", value |-> v, number |-> 0]
\* A number of a proto file; in GraphQL a number is a word.
Number(n) == [kind |-> "number", value |-> "digits", number |-> n]
Mark(v) == [kind |-> "punct", value |-> v, number |-> 0]

Cursor(tokens, out) == [rest |-> tokens, failed |-> FALSE, out |-> out]

At(s, v) == s.rest # <<>> /\ Head(s.rest).value = v
AtKind(s, kind) == s.rest # <<>> /\ Head(s.rest).kind = kind
AtAny(s, vs) == s.rest # <<>> /\ Head(s.rest).value \in vs

\* The source must not end here.
Advance(s) == IF s.rest = <<>> THEN [s EXCEPT !.failed = TRUE] ELSE [s EXCEPT !.rest = Tail(s.rest)]
Past(s, v) == IF At(s, v) THEN Advance(s) ELSE s

\* The name the cursor is at, "" if it is at none.
NameAt(s) == IF AtKind(s, "name") THEN Head(s.rest).value ELSE ""
PastName(s) == IF AtKind(s, "name") THEN Advance(s) ELSE s

\* A loop, every turn of which takes a token at least; turns(n, p) does n of
\* them, by halves.
While(s, Goes(_), Turn(_)) ==
    LET RECURSIVE turns(_, _)
        turns(n, p) ==
            IF n = 0 \/ p.rest = <<>> \/ ~Goes(p) THEN p
            ELSE IF n = 1 THEN Turn(p)
            ELSE turns(n - n \div 2, turns(n \div 2, p))
    IN turns(Len(s.rest), s)

\* The items up to the closing mark, which a source that ends may lack.
Items(s, close, Item(_)) == Past(While(s, LAMBDA p : ~At(p, close), Item), close)

\* Over a bracket with all that is in it; the result is left alone.
SkipBalanced(s, open, close) ==
    LET turn(p) == [Advance(p) EXCEPT !.out =
            CASE At(p, open) -> p.out + 1 [] At(p, close) -> p.out - 1 [] OTHER -> p.out]
        end == While([Advance(s) EXCEPT !.out = 1], LAMBDA p : p.out > 0, turn)
    IN IF ~At(s, open) THEN s
       ELSE [end EXCEPT !.failed = end.failed \/ end.out > 0, !.out = s.out]

\* The lexer bounds the tokens and the brackets that are open.
WithinLimits(tokens, opening, closing, maxItems, maxDepth) ==
    LET turn(p) == [Advance(p) EXCEPT
            !.out = CASE AtAny(p, opening) -> p.out + 1 [] AtAny(p, closing) /\ p.out > 0 -> p.out - 1 [] OTHER -> p.out]
        end == While(Cursor(tokens, 0), LAMBDA p : p.out <= maxDepth, turn)
    IN Len(tokens) <= maxItems /\ end.out <= maxDepth
====
