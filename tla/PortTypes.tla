----------------------------- MODULE PortTypes -----------------------------
(***************************************************************************)
(* The types of ports (internal/definition): an atom, a registered kind of *)
(* artifact, a list, or a union of alternatives. A definition holds the    *)
(* text of a type; validation parses two texts and compares what they say, *)
(* and the engine compares what an executor returned with one of them. A   *)
(* text is a sequence of tokens here: words and the signs [ ] | : .        *)
(***************************************************************************)
EXTENDS Naturals, Sequences, SequencesExt

CONSTANTS
  AtomNames,   \* string, int, ...; "file" is one of them
  KindNames,   \* words that have the form of an artifact kind
  Extensions   \* words that may follow "file:"

Atomic(name, ext) == [form |-> "atomic", name |-> name, ext |-> ext]
KindRef(name) == [form |-> "kind", name |-> name]
List(elem) == [form |-> "list", elem |-> elem]
Union(members) == [form |-> "union", members |-> members]
-----------------------------------------------------------------------------
(* Reading a type. A parser takes what it understands from the front.      *)

Taken(expr, rest) == [ok |-> TRUE, expr |-> expr, rest |-> rest]
NoType == [ok |-> FALSE]

StartsWith(tokens, sign) == tokens # <<>> /\ Head(tokens) = sign

ParseFile(rest) ==
  IF ~StartsWith(rest, ":") THEN Taken(Atomic("file", ""), rest)
  ELSE IF Len(rest) > 1 /\ rest[2] \in Extensions
       THEN Taken(Atomic("file", rest[2]), SubSeq(rest, 3, Len(rest)))
       ELSE NoType

ParseAtomOrKind(tokens) ==
  CASE StartsWith(tokens, "file")                  -> ParseFile(Tail(tokens))
    [] tokens # <<>> /\ Head(tokens) \in AtomNames \ {"file"}
                                                   -> Taken(Atomic(Head(tokens), ""), Tail(tokens))
    [] tokens # <<>> /\ Head(tokens) \in KindNames -> Taken(KindRef(Head(tokens)), Tail(tokens))
    [] OTHER                                       -> NoType

RECURSIVE ParseMembers(_)

\* Members are one or more singles; two or more of them are a union.
ParseExpr(tokens) ==
  LET found == ParseMembers(tokens) IN
  IF found.ok /\ Len(found.expr) > 1 THEN Taken(Union(found.expr), found.rest)
  ELSE IF found.ok THEN Taken(found.expr[1], found.rest) ELSE NoType

ParseList(tokens) ==
  LET elem == ParseExpr(tokens) IN
  IF elem.ok /\ StartsWith(elem.rest, "]") THEN Taken(List(elem.expr), Tail(elem.rest)) ELSE NoType

ParseSingle(tokens) ==
  IF StartsWith(tokens, "[") THEN ParseList(Tail(tokens)) ELSE ParseAtomOrKind(tokens)

ParseMembers(tokens) ==
  LET first == ParseSingle(tokens) IN
  IF first.ok /\ StartsWith(first.rest, "|")
  THEN LET others == ParseMembers(Tail(first.rest)) IN
       IF others.ok THEN Taken(<<first.expr>> \o others.expr, others.rest) ELSE NoType
  ELSE IF first.ok THEN Taken(<<first.expr>>, first.rest) ELSE NoType

\* ParseTypeExpr: nothing may follow the expression.
WellFormed(text) == LET found == ParseExpr(text) IN found.ok /\ found.rest = <<>>
TypeOf(text) == ParseExpr(text).expr

RECURSIVE Text(_)
\* String(): the text an expression is written as.
Text(expr) ==
  CASE expr.form = "atomic" -> <<expr.name>> \o (IF expr.ext = "" THEN <<>> ELSE <<":", expr.ext>>)
    [] expr.form = "kind"   -> <<expr.name>>
    [] expr.form = "list"   -> <<"[">> \o Text(expr.elem) \o <<"]">>
    [] expr.form = "union"  ->
         FoldLeft(LAMBDA text, member : IF text = <<>> THEN Text(member) ELSE text \o <<"|">> \o Text(member),
                  <<>>, expr.members)

RECURSIVE KindsIn(_)
KindsIn(expr) ==
  CASE expr.form = "kind"   -> {expr.name}
    [] expr.form = "list"   -> KindsIn(expr.elem)
    [] expr.form = "union"  -> UNION {KindsIn(m) : m \in Range(expr.members)}
    [] expr.form = "atomic" -> {}
-----------------------------------------------------------------------------
(* Comparing types.                                                        *)

\* Seeded fault: one alternative of the producer that fits is enough.
RECURSIVE CoversOne(_, _)
CoversOne(superset, subset) ==
  IF subset.form = "union" THEN \E m \in Range(subset.members) : CoversOne(superset, m)
  ELSE IF superset.form = "union" THEN \E m \in Range(superset.members) : CoversOne(m, subset)
  ELSE IF superset.form = "list" THEN subset.form = "list" /\ CoversOne(superset.elem, subset.elem)
  ELSE superset = subset

RECURSIVE Covers(_, _)
Covers(superset, subset) ==
  IF subset.form = "union" THEN \A m \in Range(subset.members) : Covers(superset, m)
  ELSE IF superset.form = "union" THEN \E m \in Range(superset.members) : Covers(m, subset)
  ELSE IF superset.form = "list" THEN subset.form = "list" /\ Covers(superset.elem, subset.elem)
  ELSE superset = subset

\* What the engine asks of an output: it carries the name of one kind, or of one atom.
MatchesKind(expr, kind) == Covers(expr, KindRef(kind)) \/ Covers(expr, Atomic(kind, ""))
=============================================================================
