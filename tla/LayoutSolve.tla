----------------------------- MODULE LayoutSolve -----------------------------
(***************************************************************************)
(* Layout declarations (lib/Mapping/LayoutConstraints.cpp): a file is      *)
(* parsed into a registry, a declaration is solved by bounded enumeration, *)
(* and the assignment a plan recorded is verified again later.             *)
(*                                                                         *)
(* A declaration's text is its header and its statements; the expressions  *)
(* in them are tokens.  An affine map is the tree of its results with the  *)
(* integer parameters replaced by their values.                            *)
(***************************************************************************)
EXTENDS LlkMap

CONSTANTS
  LayoutFiles,   \* the files: sequences of declarations
  Contexts,      \* what a layout is solved against: [rank, elem, machine]
  Limits,        \* [assignments, solutions, quantifier]
  Strangers,     \* values outside every declared domain that a plan may record
  NoMap

VARIABLES
  lfile,      \* the file
  layouts,    \* LayoutRegistry::defs_, insertion order
  lphase,     \* "parse", "loaded", "solving", "solved", "verified", "rejected", "failed"
  lcall,      \* the solve: [def, ctx, limits]
  tried,      \* assignments
  lbudget,    \* QuantifierBudget
  solutions,  \* result.solutions
  undecided,
  ltruncated,
  recorded,   \* what the plan recorded: [values, map]
  lverdict    \* verifySolvedLayout accepted it

layoutVars == <<lfile, layouts, lphase, lcall, tried, lbudget, solutions, undecided, ltruncated,
                recorded, lverdict>>

NoCall == [def |-> 0]
NoRecord == [values |-> <<>>, map |-> NoMap]
Names(params) == {params[i].name : i \in DOMAIN params}
Facts == {"rank", "element_type"}

InitLayout ==
  /\ lfile \in LayoutFiles
  /\ layouts = <<>> /\ lphase = "parse" /\ lcall = NoCall
  /\ tried = 0 /\ lbudget = Fresh /\ solutions = <<>> /\ undecided = FALSE /\ ltruncated = FALSE
  /\ recorded = NoRecord /\ lverdict = FALSE
-----------------------------------------------------------------------------
(* Parsing *)

NoDef == [ok |-> FALSE]
HasDuplicates(s) == \E i, j \in DOMAIN s : i < j /\ s[i] = s[j]

\* A whole expression: every token belongs to it, and it names only what is
\* allowed.  NoParse otherwise.
ParseAll(ts, allowed) ==
  LET p == ParseExpression(ts) IN
  IF ~p.ok THEN NoParse ELSE IF p.rest = <<>> /\ ValidateExpr(p.e, allowed) THEN p ELSE NoParse

\* parseDomainValues: a range lists every integer of it and is never empty.
DomainValues(d) ==
  IF "lower" \in DOMAIN d
    THEN [i \in 1 .. d.upper - d.lower + 1 |-> Int64(d.lower + i - 1)]
    ELSE d.members

ParseDomain(def, st) ==
  IF st.name \notin Names(def.params) \/ st.name \in DOMAIN def.domains
       \/ DomainValues(st.dom) = <<>> THEN NoDef
  ELSE [def EXCEPT !.domains = (st.name :> DomainValues(st.dom)) @@ def.domains]

ParseRequire(def, st) ==
  LET p == ParseAll(st.expr, Names(def.params) \cup Facts) IN
  IF p.ok THEN [def EXCEPT !.constraints = Append(def.constraints, p.e)] ELSE NoDef

ParseMapClause(def, st) ==
  LET ps == [i \in DOMAIN st.results |-> ParseAll(st.results[i], Names(def.params) \cup ToSet(st.dims))]
  IN  IF def.map # NoMap \/ ps = <<>> \/ \E i \in DOMAIN ps : ~ps[i].ok THEN NoDef
      ELSE [def EXCEPT !.map = [dims |-> st.dims, results |-> [i \in DOMAIN ps |-> ps[i].e]]]

ParseStatement(def, st) ==
  CASE ~def.ok -> def
    [] st.kw = "param" -> ParseDomain(def, st)
    [] st.kw = "require" -> ParseRequire(def, st)
    [] st.kw = "map" -> ParseMapClause(def, st)
    [] st.kw = "implements" -> IF def.implements # "" THEN NoDef ELSE [def EXCEPT !.implements = st.kind]
    [] OTHER -> NoDef

ParseLayout(text) ==
  IF HasDuplicates([i \in DOMAIN text.params |-> text.params[i].name]) THEN NoDef
  ELSE FoldLeft(ParseStatement,
                [ok |-> TRUE, id |-> text.id, params |-> text.params, domains |-> <<>>,
                 constraints |-> <<>>, implements |-> "", map |-> NoMap], text.stmts)

FindLayout(defs, id) == SelectInSeq(defs, LAMBDA d : d.id = id)

\* parseFile: the next declaration is parsed and added; the first failure or
\* duplicate id rejects the file.
ParseNextLayout ==
  /\ lphase = "parse" /\ Len(layouts) < Len(lfile)
  /\ \E def \in {ParseLayout(lfile[Len(layouts) + 1])} :
       IF ~def.ok THEN lphase' = "rejected" /\ UNCHANGED layouts
       ELSE IF FindLayout(layouts, def.id) # 0 THEN lphase' = "rejected" /\ UNCHANGED layouts
       ELSE layouts' = Append(layouts, def) /\ UNCHANGED lphase
  /\ UNCHANGED <<lfile, lcall, tried, lbudget, solutions, undecided, ltruncated, recorded, lverdict>>

EndOfLayouts ==
  /\ lphase = "parse" /\ Len(layouts) = Len(lfile)
  /\ lphase' = "loaded"
  /\ UNCHANGED <<lfile, layouts, lcall, tried, lbudget, solutions, undecided, ltruncated, recorded, lverdict>>

\* printParamDomain: a contiguous ascending run of integers prints as a range.
PrintDomain(values) ==
  IF /\ \A i \in DOMAIN values : IsInt(values[i])
     /\ \A i \in 1 .. Len(values) - 1 : values[i + 1].int = values[i].int + 1
    THEN [lower |-> values[1].int, upper |-> Last(values).int]
    ELSE [members |-> values]

\* printLayout: the domains in parameter order, then implements, the
\* constraints, and the map.
PrintLayout(def) ==
  LET declared == SelectSeq(def.params, LAMBDA p : p.name \in DOMAIN def.domains) IN
  [id |-> def.id, params |-> def.params,
   stmts |->
     [i \in DOMAIN declared |->
        [kw |-> "param", name |-> declared[i].name, dom |-> PrintDomain(def.domains[declared[i].name])]]
     \o (IF def.implements = "" THEN <<>> ELSE <<[kw |-> "implements", kind |-> def.implements]>>)
     \o [i \in DOMAIN def.constraints |-> [kw |-> "require", expr |-> PrintExpr(def.constraints[i])]]
     \o (IF def.map = NoMap THEN <<>>
         ELSE <<[kw |-> "map", dims |-> def.map.dims,
                 results |-> [i \in DOMAIN def.map.results |-> PrintExpr(def.map.results[i])]]>>)]

\* The content identity of a registry: what is declared, whatever the order.
LayoutsIdentity(defs) == ToSet(defs)
Implementing(defs, kind) == IF kind = "" THEN <<>> ELSE SelectSeq(defs, LAMBDA d : d.implements = kind)
-----------------------------------------------------------------------------
(* Solving *)

RECURSIVE Convert(_, _, _)
\* AffineBuilder::convert: a dimension first, then an integer parameter; Err
\* where the result is not affine.
Convert(e, dims, constants) ==
  LET Constant(x) == x.kind = "int"
      sub == IF Leaf(e) THEN <<>> ELSE [i \in DOMAIN e.args |-> Convert(e.args[i], dims, constants)]
      bad == \E i \in DOMAIN sub : sub[i] = Err
      \* MLIR folds an operator on constants.
      Fold(op, a, b) == IF Constant(a) /\ Constant(b) THEN Lit(Arith(op, a.int, b.int).int) ELSE Bin(op, a, b)
  IN  CASE e.kind = "int" -> e
        [] e.kind = "id" ->
             IF e.text \in ToSet(dims) THEN e
             ELSE IF e.text \in DOMAIN constants THEN Lit(constants[e.text].int) ELSE Err
        [] e.kind \in {"str", "member", "quant"} -> Err
        [] bad -> Err
        [] e.kind = "unary" -> IF e.text = "-" THEN Fold("*", Lit(-1), sub[1]) ELSE Err
        [] e.kind = "binary" ->
             CASE e.text = "+" -> Fold("+", sub[1], sub[2])
               [] e.text = "-" -> Fold("+", sub[1], Fold("*", Lit(-1), sub[2]))
               [] e.text = "*" ->
                    IF Constant(sub[1]) \/ Constant(sub[2]) THEN Fold("*", sub[1], sub[2]) ELSE Err
               [] e.text \in {"/", "%"} -> Bin(e.text, sub[1], sub[2])
               [] OTHER -> Err
        [] e.kind = "call" ->
             IF Len(e.args) = 2 /\ e.text \in {"floordiv", "ceildiv", "mod"}
               THEN Bin(e.text, sub[1], sub[2]) ELSE Err

\* buildAffineMap: the map an assignment builds, NoMap without a clause, Err
\* when a result is not affine.
BuildAffineMap(spec, values) ==
  IF spec = NoMap THEN NoMap
  ELSE LET ints == [x \in {x \in DOMAIN values : IsInt(values[x])} |-> values[x]]
           rs == [i \in DOMAIN spec.results |-> Convert(spec.results[i], spec.dims, ints)]
       IN  IF \E i \in DOMAIN rs : rs[i] = Err THEN Err ELSE [dims |-> spec.dims, results |-> rs]

Env(values, domains, ctx, limit) ==
  [bind |-> values, domains |-> domains, rank |-> ctx.rank, elem |-> ctx.elem,
   machine |-> ctx.machine, limit |-> limit]

NamesOf(def) == [i \in DOMAIN def.params |-> def.params[i].name]
Space(def) == Assignments(NamesOf(def), def.domains)

\* solveBounded is called: every parameter needs a domain.
SolveLayout ==
  /\ lphase = "loaded"
  /\ \E d \in ToSet(layouts), c \in Contexts, l \in Limits :
       /\ lcall' = [def |-> d, ctx |-> c, limits |-> l]
       /\ lphase' = IF Names(d.params) \subseteq DOMAIN d.domains THEN "solving" ELSE "failed"
  /\ UNCHANGED <<lfile, layouts, tried, lbudget, solutions, undecided, ltruncated, recorded, lverdict>>

Solving == lcall.def.constraints
Exhausted == tried = Len(Space(lcall.def))

\* One turn of the loop: an error in a constraint or in the map ends the solve.
TryAssignment ==
  /\ lphase = "solving" /\ ~Exhausted
  /\ tried < lcall.limits.assignments /\ Len(solutions) < lcall.limits.solutions
  /\ tried' = tried + 1
  /\ \E values \in {Space(lcall.def)[tried + 1]} :
     \E j \in {Judge(Solving, Env(values, lcall.def.domains, lcall.ctx, lcall.limits.quantifier), lbudget)},
        m \in {BuildAffineMap(lcall.def.map, values)} :
       /\ lbudget' = j.b
       /\ IF j.v = "error" \/ (j.v = "yes" /\ m = Err)
            THEN lphase' = "failed" /\ UNCHANGED solutions
            ELSE /\ solutions' = IF j.v = "yes" THEN Append(solutions, [values |-> values, map |-> m]) ELSE solutions
                 /\ UNCHANGED lphase
  /\ UNCHANGED <<lfile, layouts, lcall, undecided, ltruncated, recorded, lverdict>>

\* MUTANT of Withheld: they are returned with the undecided flag.
NotWithheld(found, b) == found

\* Solutions of an undecided solve are withheld.
Withheld(found, b) == IF b.exhausted THEN <<>> ELSE found

FinishSolve ==
  /\ lphase = "solving"
  /\ Exhausted \/ tried >= lcall.limits.assignments \/ Len(solutions) >= lcall.limits.solutions
  /\ undecided' = lbudget.exhausted
  /\ solutions' = Withheld(solutions, lbudget)
  /\ ltruncated' = (tried < Len(Space(lcall.def)) \/ lbudget.exhausted)
  /\ lphase' = "solved"
  /\ UNCHANGED <<lfile, layouts, lcall, tried, lbudget, recorded, lverdict>>
-----------------------------------------------------------------------------
(* Verification of a recorded assignment *)

\* Every domain is pinned to the recorded value, and the solve over that one
\* point must find it.
PinnedSolve(def, ctx, limits, values) ==
  LET domains == [x \in Names(def.params) |-> <<values[x]>>] IN
  Judge(def.constraints, Env(values, domains, ctx, limits.quantifier), Fresh)

VerifySolvedLayout(def, ctx, limits, rec) ==
  /\ DOMAIN rec.values = Names(def.params)
  /\ \A x \in Names(def.params) : x \in DOMAIN def.domains /\ rec.values[x] \in ToSet(def.domains[x])
  /\ \E j \in {PinnedSolve(def, ctx, limits, rec.values)} : j.v = "yes" /\ ~j.b.exhausted
  /\ LET m == BuildAffineMap(def.map, rec.values) IN
     /\ m # Err
     /\ IF def.map = NoMap THEN rec.map = NoMap ELSE rec.map \in {NoMap, m}

\* What a plan may hold by the time it is verified: an assignment of the
\* declared parameters, or of one fewer, to declared or foreign values; its
\* own map, none, or the map of another assignment.
Recordable(def) ==
  LET any(x) == Strangers \cup (IF x \in DOMAIN def.domains THEN ToSet(def.domains[x]) ELSE {})
      full(names) == {f \in [names -> UNION {any(x) : x \in names}] : \A x \in names : f[x] \in any(x)}
      values == full(Names(def.params)) \cup UNION {full(Names(def.params) \ {x}) : x \in Names(def.params)}
      maps == {BuildAffineMap(def.map, v) : v \in full(Names(def.params))} \ {Err}
  IN  [values : values, map : maps \cup {NoMap}]

VerifyRecorded ==
  /\ lphase \in {"solved", "failed"} /\ lcall # NoCall
  /\ \E r \in Recordable(lcall.def) :
       /\ recorded' = r
       /\ lverdict' = VerifySolvedLayout(lcall.def, lcall.ctx, lcall.limits, r)
  /\ lphase' = "verified"
  /\ UNCHANGED <<lfile, layouts, lcall, tried, lbudget, solutions, undecided, ltruncated>>

NextLayout ==
  \/ ParseNextLayout \/ EndOfLayouts \/ SolveLayout \/ TryAssignment \/ FinishSolve \/ VerifyRecorded
-----------------------------------------------------------------------------
(* Properties *)

Legal(def, ctx, values) ==
  /\ \A x \in Names(def.params) : values[x] \in ToSet(def.domains[x])
  /\ Holds(def.constraints, Env(values, def.domains, ctx, 0))

\* The solver answers with the first legal assignments in declaration order,
\* as many as asked for, out of the assignments it was allowed to try; it says
\* so when it did not try them all, and an undecided quantifier withholds
\* every solution (solveBounded).
SolveSound ==
  lphase = "solved" =>
    LET seen == SubSeq(Space(lcall.def), 1, tried)
        legal == SelectSeq(seen, LAMBDA v : Legal(lcall.def, lcall.ctx, v))
    IN  /\ undecided => solutions = <<>> /\ ltruncated
        /\ ~undecided => [i \in DOMAIN solutions |-> solutions[i].values] = legal
        /\ ~ltruncated => tried = Len(Space(lcall.def))
        /\ \A i \in DOMAIN solutions :
             solutions[i].map = BuildAffineMap(lcall.def.map, solutions[i].values)

RECURSIVE AsksDomain(_)
AsksDomain(e) ==
  ~Leaf(e) /\ \/ e.kind = "call" /\ e.text = "domain"
              \/ \E i \in DOMAIN e.args : AsksDomain(e.args[i])

\* Verification and solving agree: an accepted record is a legal assignment
\* with the map it builds, and every solution of a decided solve is accepted
\* (verifySolvedLayout).  Layouts that quantify over a declared domain are
\* left to VerifyMatchesSolve.
VerifiedLegal ==
  lphase = "verified" /\ (\A i \in DOMAIN Solving : ~AsksDomain(Solving[i])) =>
    /\ lverdict => /\ DOMAIN recorded.values = Names(lcall.def.params)
                   /\ Legal(lcall.def, lcall.ctx, recorded.values)
                   /\ recorded.map \in {NoMap, BuildAffineMap(lcall.def.map, recorded.values)}
    /\ recorded \in ToSet(solutions) => lverdict

\* The same without the exception: domain(x) ranges over the declared domain
\* of x whenever a constraint is evaluated.
VerifyMatchesSolve ==
  lphase = "verified" =>
    /\ lverdict => Legal(lcall.def, lcall.ctx, recorded.values)
    /\ recorded \in ToSet(solutions) => lverdict

\* A printed declaration parses back to itself (printLayout, printExpr), and
\* loading the printed declarations in another order changes no identity.
PrintParses ==
  lphase = "loaded" =>
    /\ \A d \in ToSet(layouts) : ParseLayout(PrintLayout(d)) = d
    /\ LayoutsIdentity([i \in DOMAIN layouts |-> ParseLayout(PrintLayout(Reverse(layouts)[i]))])
         = LayoutsIdentity(layouts)

\* Layout declarations mean one thing in all three places: what is printed,
\* what the solver answers, and what verification accepts.
LayoutSound == SolveSound /\ VerifiedLegal /\ PrintParses
=============================================================================
