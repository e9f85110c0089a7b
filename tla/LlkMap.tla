------------------------------- MODULE LlkMap -------------------------------
(***************************************************************************)
(* The LLKMap expression language of lib/Mapping/LlkMap.cpp that rule and  *)
(* layout declarations share: its parser and printer over tokens, the      *)
(* identifier check, and the evaluator with its quantifier budget.         *)
(*                                                                         *)
(* Text is a sequence of tokens.  A value is a record whose one field says *)
(* its kind, so that an integer and a string can be compared; an error is  *)
(* the value Err, and the wording of errors is left out.                   *)
(***************************************************************************)
EXTENDS Integers, Sequences, FiniteSets, SequencesExt, FiniteSetsExt

Int64(n) == [int |-> n]
Text(s) == [str |-> s]
Handle(on, of) == [on |-> on, of |-> of]
Err == [err |-> TRUE]
IsInt(v) == "int" \in DOMAIN v
IsText(v) == "str" \in DOMAIN v
IsHandle(v) == "on" \in DOMAIN v
Truth(b) == Int64(IF b THEN 1 ELSE 0)
Truthy(v) == IsInt(v) /\ v.int # 0

(* Expression trees *)
Lit(n) == [kind |-> "int", int |-> n]
Quoted(s) == [kind |-> "str", text |-> s]
Ident(x) == [kind |-> "id", text |-> x]
Node(k, op, args) == [kind |-> k, text |-> op, args |-> args]
Un(op, e) == Node("unary", op, <<e>>)
Bin(op, a, b) == Node("binary", op, <<a, b>>)
CallExpr(f, args) == Node("call", f, args)
Member(m, e, args) == Node("member", m, <<e>> \o args)
Quant(q, x, dom, body) == Node("quant", q, <<Ident(x), dom, body>>)
Leaf(e) == e.kind \in {"int", "str", "id"}

KnownCalls == {"floordiv", "ceildiv", "mod", "min", "max", "machine.compute", "machine.memory"}
KnownMembers == {"lanes", "count", "capacity_bytes", "alignment_bytes"}

RECURSIVE ValidateExpr(_, _)
\* The bound variable of a quantifier is in scope in the body only.
ValidateExpr(e, allowed) ==
  CASE e.kind \in {"int", "str"} -> TRUE
    [] e.kind = "id" -> e.text \in allowed
    [] e.kind = "quant" ->
         LET dom == e.args[2] IN
         /\ \/ dom = Ident("dimensions")
            \/ /\ dom.kind = "call" /\ dom.text = "domain" /\ Len(dom.args) = 1
               /\ dom.args[1].kind = "id" /\ dom.args[1].text \in allowed
            \/ /\ dom.kind = "call" /\ dom.text = "executors" /\ Len(dom.args) = 1
               /\ ValidateExpr(dom.args[1], allowed)
         /\ ValidateExpr(e.args[3], allowed \cup {e.args[1].text})
    [] OTHER ->
         /\ e.kind = "call" => e.text \in KnownCalls
         /\ e.kind = "member" => e.text \in KnownMembers
         /\ \A i \in DOMAIN e.args : ValidateExpr(e.args[i], allowed)

RECURSIVE CollectIdentifiers(_, _)
\* The names an expression reads as values: a quantifier's variable shadows a
\* parameter, and domain(x) names a domain, not a value.
CollectIdentifiers(e, bound) ==
  CASE e.kind \in {"int", "str"} -> {}
    [] e.kind = "id" -> {e.text} \ bound
    [] e.kind = "quant" ->
         LET dom == e.args[2] IN
         (IF dom.kind = "call" /\ dom.text = "executors"
            THEN UNION {CollectIdentifiers(dom.args[i], bound) : i \in DOMAIN dom.args} ELSE {})
         \cup CollectIdentifiers(e.args[3], bound \cup {e.args[1].text})
    [] OTHER -> UNION {CollectIdentifiers(e.args[i], bound) : i \in DOMAIN e.args}
-----------------------------------------------------------------------------
(* Parsing: each parser takes the tokens left and answers the tree and the *)
(* tokens after it, or NoParse.                                            *)

P(s) == [tok |-> "punct", text |-> s]
Id(s) == [tok |-> "id", text |-> s]
Num(n) == [tok |-> "int", int |-> n]
Str(s) == [tok |-> "string", text |-> s]
NoParse == [ok |-> FALSE]
Parsed(e, rest) == [ok |-> TRUE, e |-> e, rest |-> rest]
At(ts, kind) == ts # <<>> /\ Head(ts).tok = kind
IsPunct(ts, ops) == At(ts, "punct") /\ Head(ts).text \in ops

\* parseOr .. parseMultiplicative: the loosest level first.
Levels == <<{"||"}, {"&&"}, {"==", "!="}, {"<", "<=", ">", ">="}, {"+", "-"}, {"*", "/", "%"}>>

RECURSIVE ParseLevel(_, _), ParseTail(_, _), ParseUnary(_), ParsePostfix(_), ParsePrimary(_)
RECURSIVE ParseArgs(_, _)
ParseExpression(ts) == ParseLevel(1, ts)

ParseLevel(l, ts) ==
  IF l > Len(Levels) THEN ParseUnary(ts)
  ELSE LET lhs == ParseLevel(l + 1, ts) IN IF lhs.ok THEN ParseTail(l, lhs) ELSE NoParse

\* The loop of one level: operators associate to the left.
ParseTail(l, lhs) ==
  IF ~IsPunct(lhs.rest, Levels[l]) THEN lhs
  ELSE LET rhs == ParseLevel(l + 1, Tail(lhs.rest)) IN
       IF rhs.ok THEN ParseTail(l, Parsed(Bin(Head(lhs.rest).text, lhs.e, rhs.e), rhs.rest))
       ELSE NoParse

ParseUnary(ts) ==
  IF IsPunct(ts, {"!", "-"})
    THEN LET e == ParseUnary(Tail(ts)) IN
         IF e.ok THEN Parsed(Un(Head(ts).text, e.e), e.rest) ELSE NoParse
    ELSE LET e == ParsePrimary(ts) IN IF e.ok THEN ParsePostfix(e) ELSE NoParse

\* After the opening parenthesis; args are the ones read so far.
ParseArgs(ts, args) ==
  IF args = <<>> /\ IsPunct(ts, {")"}) THEN Parsed(<<>>, Tail(ts))
  ELSE LET a == ParseExpression(ts) IN
       IF ~a.ok THEN NoParse
       ELSE IF IsPunct(a.rest, {","}) THEN ParseArgs(Tail(a.rest), Append(args, a.e))
       ELSE IF IsPunct(a.rest, {")"}) THEN Parsed(Append(args, a.e), Tail(a.rest))
       ELSE NoParse

ParsePostfix(p) ==
  IF ~IsPunct(p.rest, {"."}) THEN p
  ELSE LET ts == Tail(p.rest) IN
       IF ~At(ts, "id") THEN NoParse
       ELSE IF ~IsPunct(Tail(ts), {"("})
         THEN ParsePostfix(Parsed(Member(Head(ts).text, p.e, <<>>), Tail(ts)))
         ELSE LET args == ParseArgs(Tail(Tail(ts)), <<>>) IN
              IF args.ok THEN ParsePostfix(Parsed(Member(Head(ts).text, p.e, args.e), args.rest))
              ELSE NoParse

\* forall x in D : body; the body reaches as far right as it can.
ParseQuantifier(ts) ==
  IF ~(Len(ts) > 2 /\ ts[2].tok = "id" /\ ts[3] = Id("in")) THEN NoParse
  ELSE LET dom == ParseExpression(SubSeq(ts, 4, Len(ts))) IN
       IF ~dom.ok THEN NoParse
       ELSE IF ~IsPunct(dom.rest, {":"}) THEN NoParse
       ELSE LET body == ParseExpression(Tail(dom.rest)) IN
            IF body.ok THEN Parsed(Quant(ts[1].text, ts[2].text, dom.e, body.e), body.rest)
            ELSE NoParse

ParsePrimary(ts) ==
  CASE At(ts, "int") -> Parsed(Lit(Head(ts).int), Tail(ts))
    [] At(ts, "string") -> Parsed(Quoted(Head(ts).text), Tail(ts))
    [] IsPunct(ts, {"("}) ->
         LET e == ParseExpression(Tail(ts)) IN
         IF e.ok THEN IF IsPunct(e.rest, {")"}) THEN Parsed(e.e, Tail(e.rest)) ELSE NoParse
         ELSE NoParse
    [] At(ts, "id") ->
         IF Head(ts).text \in {"forall", "exists"} THEN ParseQuantifier(ts)
         ELSE IF ~IsPunct(Tail(ts), {"("}) THEN Parsed(Ident(Head(ts).text), Tail(ts))
         ELSE LET args == ParseArgs(Tail(Tail(ts)), <<>>) IN
              IF args.ok THEN Parsed(CallExpr(Head(ts).text, args.e), args.rest) ELSE NoParse
    [] OTHER -> NoParse
-----------------------------------------------------------------------------
(* Printing *)

RECURSIVE PrintExpr(_)
Commas(parts) == FoldLeft(LAMBDA acc, p : IF acc = <<>> THEN p ELSE acc \o <<P(",")>> \o p, <<>>, parts)
Paren(ts) == <<P("(")>> \o ts \o <<P(")")>>
Compound(e) == e.kind \in {"unary", "binary", "quant"}

\* A compound receiver is parenthesized, once by itself and once as receiver.
PrintExpr(e) ==
  CASE e.kind = "int" -> <<Num(e.int)>>
    [] e.kind = "str" -> <<Str(e.text)>>
    [] e.kind = "id" -> <<Id(e.text)>>
    [] e.kind = "call" -> <<Id(e.text)>> \o Paren(Commas([i \in DOMAIN e.args |-> PrintExpr(e.args[i])]))
    [] e.kind = "member" ->
         LET args == [i \in 1 .. Len(e.args) - 1 |-> PrintExpr(e.args[i + 1])]
             receiver == IF Compound(e.args[1]) THEN Paren(PrintExpr(e.args[1])) ELSE PrintExpr(e.args[1])
         IN  receiver \o <<P("."), Id(e.text)>> \o (IF args = <<>> THEN <<>> ELSE Paren(Commas(args)))
    [] e.kind = "unary" -> Paren(<<P(e.text)>> \o PrintExpr(e.args[1]))
    [] e.kind = "binary" -> Paren(PrintExpr(e.args[1]) \o <<P(e.text)>> \o PrintExpr(e.args[2]))
    [] e.kind = "quant" ->
         Paren(<<Id(e.text), Id(e.args[1].text), Id("in")>> \o PrintExpr(e.args[2])
                 \o <<P(":")>> \o PrintExpr(e.args[3]))
-----------------------------------------------------------------------------
(* Evaluation.  env holds the bindings, the declared domains, the context  *)
(* (rank, element type), the machine's answers and the quantifier limit; a *)
(* budget says how many domain elements were examined and whether one more *)
(* was asked for.                                                          *)

Fresh == [used |-> 0, exhausted |-> FALSE]
Val(v, b) == [v |-> v, b |-> b]
Quo(a, b) == LET q == (IF a < 0 THEN -a ELSE a) \div (IF b < 0 THEN -b ELSE b)
             IN  IF (a < 0) = (b < 0) THEN q ELSE -q

\* Integer operators, with C++'s division: towards zero.
Arith(op, a, b) ==
  CASE op = "<" -> Truth(a < b) [] op = "<=" -> Truth(a <= b)
    [] op = ">" -> Truth(a > b) [] op = ">=" -> Truth(a >= b)
    [] op = "+" -> Int64(a + b) [] op = "-" -> Int64(a - b) [] op = "*" -> Int64(a * b)
    [] op \in {"/", "floordiv"} -> IF b = 0 THEN Err ELSE Int64(Quo(a, b))
    [] op \in {"%", "mod"} -> IF b = 0 THEN Err ELSE Int64(a - Quo(a, b) * b)
    [] op = "ceildiv" -> IF b <= 0 THEN Err ELSE Int64(Quo(a + b - 1, b))
    [] op = "min" -> Int64(IF b < a THEN b ELSE a)
    [] op = "max" -> Int64(IF a < b THEN b ELSE a)

\* Both operands are evaluated before the operator looks at either.
EvalBinary(op, x, y) ==
  CASE x = Err \/ y = Err -> Err
    [] op \in {"&&", "||"} ->
         IF ~(IsInt(x) /\ IsInt(y)) THEN Err
         ELSE Truth(IF op = "&&" THEN Truthy(x) /\ Truthy(y) ELSE Truthy(x) \/ Truthy(y))
    [] op \in {"==", "!="} ->
         IF DOMAIN x # DOMAIN y THEN Err ELSE Truth((op = "==") = (x = y))
    [] OTHER -> IF IsInt(x) /\ IsInt(y) THEN Arith(op, x.int, y.int) ELSE Err

EvalCall(f, vs) ==
  IF f \in {"machine.compute", "machine.memory"}
    THEN IF Len(vs) = 1 /\ IsText(vs[1]) THEN Handle(f, vs[1].str) ELSE Err
    ELSE IF Len(vs) = 2 /\ IsInt(vs[1]) /\ IsInt(vs[2]) THEN Arith(f, vs[1].int, vs[2].int) ELSE Err

\* A machine query about something the machine does not model is an error.
EvalMember(m, vs, machine) ==
  LET h == vs[1]
      ask(table, key) == IF key \in DOMAIN table THEN Int64(table[key]) ELSE Err
  IN  CASE h = Err \/ ~IsHandle(h) -> Err
        [] m = "count" -> IF h.on = "machine.compute" THEN ask(machine.count, h.of) ELSE Err
        [] m = "lanes" ->
             IF h.on = "machine.compute" /\ Len(vs) = 2 /\ IsText(vs[2])
               THEN ask(machine.lanes, <<h.of, vs[2].str>>) ELSE Err
        [] OTHER -> IF h.on = "machine.memory" THEN ask(machine[m], h.of) ELSE Err

RECURSIVE EvalImpl(_, _, _), EvalArgs(_, _, _), EvalQuantifier(_, _, _, _)

\* The domain of a quantifier, as a sequence; an unknown one is an error.
Elements(values, b) == [ok |-> TRUE, values |-> values, b |-> b]
NoElements(b) == [ok |-> FALSE, b |-> b]
QuantifierDomain(dom, env, b) ==
  CASE dom.kind = "id" -> Elements([i \in 1 .. env.rank |-> Int64(i - 1)], b)
    [] dom.kind = "call" /\ dom.text = "domain" ->
         IF dom.args[1].text \in DOMAIN env.domains THEN Elements(env.domains[dom.args[1].text], b)
         ELSE NoElements(b)
    [] OTHER ->
         LET k == EvalImpl(dom.args[1], env, b) IN
         IF ~IsText(k.v) THEN NoElements(k.b)
         ELSE IF k.v.str \notin DOMAIN env.machine.executors THEN NoElements(k.b)
         ELSE Elements(env.machine.executors[k.v.str], k.b)

\* The loop over the domain values left.  Out of budget it answers 0, which
\* decides nothing.
EvalQuantifier(e, values, env, b) ==
  IF values = <<>> THEN Val(Truth(e.text = "forall"), b)
  ELSE IF b.used >= env.limit THEN Val(Int64(0), [b EXCEPT !.exhausted = TRUE])
  ELSE LET scoped == [env EXCEPT !.bind = (e.args[1].text :> Head(values)) @@ env.bind]
           body == EvalImpl(e.args[3], scoped, [b EXCEPT !.used = b.used + 1])
       IN  IF ~IsInt(body.v) THEN Val(Err, body.b)
           ELSE IF e.text = "forall" /\ ~Truthy(body.v) THEN Val(Int64(0), body.b)
           ELSE IF e.text = "exists" /\ Truthy(body.v) THEN Val(Int64(1), body.b)
           ELSE EvalQuantifier(e, Tail(values), env, body.b)

\* Operands left to right; the first error ends the evaluation.
EvalArgs(args, env, b) ==
  FoldLeft(LAMBDA acc, e : IF acc.v # <<>> /\ Last(acc.v) = Err THEN acc
                           ELSE LET r == EvalImpl(e, env, acc.b) IN Val(Append(acc.v, r.v), r.b),
           Val(<<>>, b), args)

EvalImpl(e, env, b) ==
  CASE e.kind = "int" -> Val(Int64(e.int), b)
    [] e.kind = "str" -> Val(Text(e.text), b)
    [] e.kind = "id" ->
         Val(CASE e.text \in DOMAIN env.bind -> env.bind[e.text]
               [] e.text = "rank" -> Int64(env.rank)
               [] e.text = "element_type" -> Text(env.elem)
               [] OTHER -> Err, b)
    [] e.kind = "quant" ->
         LET d == QuantifierDomain(e.args[2], env, b) IN
         IF d.ok THEN EvalQuantifier(e, d.values, env, d.b) ELSE Val(Err, d.b)
    [] OTHER ->
         LET vs == EvalArgs(e.args, env, b) IN
         IF Last(vs.v) = Err THEN Val(Err, vs.b)
         ELSE Val(CASE e.kind = "unary" ->
                         IF ~IsInt(vs.v[1]) THEN Err
                         ELSE IF e.text = "!" THEN Truth(vs.v[1].int = 0) ELSE Int64(-vs.v[1].int)
                    [] e.kind = "binary" -> EvalBinary(e.text, vs.v[1], vs.v[2])
                    [] e.kind = "call" -> EvalCall(e.text, vs.v)
                    [] e.kind = "member" -> EvalMember(e.text, vs.v, env.machine), vs.b)
-----------------------------------------------------------------------------
(* Bounded solving, which rules and layouts share: the declared domains    *)
(* are enumerated with the last parameter varying fastest.                 *)

RECURSIVE Assignments(_, _)
Assignments(params, domains) ==
  IF params = <<>> THEN << <<>> >>
  ELSE LET rest == Assignments(Tail(params), domains)
           first == domains[Head(params)]
           n == Len(rest)
       IN  [i \in 1 .. Len(first) * n |->
              (Head(params) :> first[((i - 1) \div n) + 1]) @@ rest[((i - 1) % n) + 1]]

\* The constraints of one assignment, in order up to the first that fails: its
\* verdict is "yes", "no" or "error".
Judge(constraints, env, b) ==
  FoldLeft(LAMBDA acc, c :
             IF acc.v # "yes" THEN acc
             ELSE LET r == EvalImpl(c, env, acc.b) IN
                  Val(IF r.v = Err THEN "error" ELSE IF Truthy(r.v) THEN "yes" ELSE "no", r.b),
           Val("yes", b), constraints)

\* What a constraint means when no budget cuts it short.
Holds(constraints, env) == Judge(constraints, [env EXCEPT !.limit = 1000], Fresh).v = "yes"
=============================================================================
