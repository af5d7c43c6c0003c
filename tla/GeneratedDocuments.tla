-------------------------- MODULE GeneratedDocuments --------------------------
(***************************************************************************)
(* An actor makes a DocumentGenerator of a template and evaluates it over  *)
(* and over.  Meant(v, node, k) says, without any state, that v may be the *)
(* value of a node in the document number k, from zero: the generators     *)
(* with all their caches and counters must make no other one.              *)
(***************************************************************************)
EXTENDS DocumentGenerator

CONSTANTS
  Templates,          \* the nodes documents are made of
  MaxDocuments        \* bound: documents made of one template

VARIABLES
  template,
  docGen,
  documents

docVars == <<template, docGen, documents>>

DocInit ==
  /\ template \in Templates
  /\ docGen = documentGenerator(template)
  /\ documents = <<>>

\* DocumentGenerator::evaluate; an exception ends the actor.
evaluate ==
  /\ ~Thrown(docGen) /\ Len(documents) < MaxDocuments
  /\ ~Failed(documents)
  /\ \E made \in Evaluate(docGen) : docGen' = made[1] /\ documents' = Append(documents, made[2])
  /\ UNCHANGED template

DocNext == evaluate

DocTypeOK ==
  /\ \A i \in DOMAIN documents : documents[i][1] \in {"document", "throw"}
  /\ Len(documents) <= MaxDocuments

-----------------------------------------------------------------------------
RECURSIVE Literal(_), Meant(_, _, _), Pieces(_, _, _, _)

Literal(node) ==
  CASE node[1] = "null" -> <<"null", "null">>
    [] node[1] = "scalar" -> IF node[2][1] = "tagged" THEN <<"string", Numeral(node[2][2])>> ELSE node[2]
    [] node[1] = "seq" -> <<"array", [i \in DOMAIN node[2] |-> Literal(node[2][i])]>>
    [] node[1] = "map" -> <<"document", [i \in DOMAIN node[2] |-> <<<<node[2][i][1]>>, Literal(node[2][i][2])>>]>>

Number(n, node, k) == \E type \in {"int32", "int64"} : Meant(<<type, n>>, node, k)

\* v is put together from what each of the nodes means.
Pieces(v, type, nodes, k) ==
  IF nodes = <<>> THEN v = <<>>
  ELSE \E cut \in 0..Len(v) : /\ Meant(<<type, SubSeq(v, 1, cut)>>, Head(nodes), k)
                               /\ Pieces(SubSeq(v, cut + 1, Len(v)), type, Tail(nodes), k)

\* With a separator between them.
Separated(nodes, sep) == FlattenSeq([i \in DOMAIN nodes |->
  IF i = 1 THEN <<nodes[i]>> ELSE <<Scalar("string", sep), nodes[i]>>])

Called(v, key, node, k) ==
  LET arg(name, default) == Arg(node, name, default)
      inner == Get(node, "fromGenerator")
      from == Get(node, "from")
  IN CASE key = "^Verbatim" -> v = Literal(node)
       [] key = "^Inc" -> v = <<"int64", arg("start", 1) + actorId * arg("multiplier", 0) + k * arg("step", 1)>>
       [] key = "^RandomInt" -> v[1] = "int64" /\ v[2] >= arg("min", 0) /\ v[2] <= arg("max", 0)
       [] key = "^RandomDate" ->
            /\ v[1] = "date"
            /\ Get(node, "min") = absent \/ \E n \in 0..v[2] : Number(n, Get(node, "min"), k)
            /\ IF Get(node, "max") = absent THEN v[2] < MaxDraw
               ELSE \E n \in (v[2] + 1)..MaxNumber : Number(n, Get(node, "max"), k)
       [] key = "^Cycle" -> Meant(v, inner, k % arg("ofLength", 0))
       [] key = "^FixedGeneratedValue" -> Meant(v, inner, 0)
       [] key = "^Repeat" -> Meant(v, inner, k \div arg("count", 0))
       [] key = "^Choose" -> IF arg("deterministic", FALSE)
                             THEN Meant(v, from[2][(k % Len(from[2])) + 1], k \div Len(from[2]))
                             ELSE \E i \in DOMAIN from[2], j \in 0..k : Meant(v, from[2][i], j)
       [] key = "^Array" ->
            LET size == arg("number", 0)
                of == Get(node, "of")
            IN /\ v[1] = "array" /\ Len(v[2]) = size
               /\ IF arg("distinct", FALSE)
                  THEN /\ \A i \in 1..size : \E j \in 0..(size * (k + 2)) : Meant(v[2][i], of, j)
                       /\ \A i, j \in 1..size : v[2][i] = v[2][j] => i = j
                  ELSE \A i \in 1..size : Meant(v[2][i], of, k * size + i - 1)
       [] key = "^Concat" -> v[1] = "array" /\ Pieces(v[2], "array", Get(node, "arrays")[2], k)
       [] key = "^Join" ->
            v[1] = "string" /\ Pieces(v[2], "string", Separated(Get(node, "array")[2], arg("sep", <<>>)), k)
       [] key = "^RandomString" -> v[1] = "string" /\ Number(Len(v[2]), Get(node, "length"), k)
       [] key = "^ConvertToInt" ->
            v[1] = "int64" /\ (Number(v[2], from, k) \/ Meant(<<"string", Numeral(v[2])>>, from, k))

\* The value v is what the node stands for in document number k.
Meant(v, node, k) ==
  CASE node[1] \in {"null", "scalar"} -> v = Literal(node)
    [] node[1] = "seq" -> /\ v[1] = "array" /\ Len(v[2]) = Len(node[2])
                          /\ \A i \in DOMAIN v[2] : Meant(v[2][i], node[2][i], k)
    [] node[1] = "map" ->
         IF getMetaKey(node) # "none" THEN Called(v, getMetaKey(node), Get(node, getMetaKey(node)), k)
         ELSE /\ v[1] = "document" /\ Len(v[2]) = Len(node[2])
              /\ \A i \in DOMAIN v[2] : v[2][i][1] = <<node[2][i][1]>> /\ Meant(v[2][i][2], node[2][i][2], k)

Explained == {"^Verbatim", "^Inc", "^RandomInt", "^RandomDate", "^Cycle", "^FixedGeneratedValue", "^Repeat",
              "^Choose", "^Array", "^Concat", "^Join", "^RandomString", "^ConvertToInt"}

RECURSIVE KeysOf(_)
KeysOf(node) ==
  CASE node[1] = "map" -> UNION {{node[2][i][1]} \cup KeysOf(node[2][i][2]) : i \in DOMAIN node[2]}
    [] node[1] = "seq" -> UNION {KeysOf(node[2][i]) : i \in DOMAIN node[2]}
    [] OTHER -> {}

\* The document number k is one that the template means, whatever was
\* generated before it: caches, repeated items and counters keep in step.
DocumentsAsMeant ==
  KeysOf(template) \cap (MetaKeys \cup {"distribution"}) \subseteq Explained =>
    \A i \in DOMAIN documents : documents[i][1] # "throw" => Meant(documents[i], template, i - 1)

RECURSIVE Documents(_)
Documents(value) ==
  CASE value[1] = "document" -> {value} \cup UNION {Documents(value[2][i][2]) : i \in DOMAIN value[2]}
    [] value[1] = "array" -> UNION {Documents(value[2][i]) : i \in DOMAIN value[2]}
    [] OTHER -> {}

\* No document has a key twice unless the template says "insert": ^Object
\* skips a key that is there already, however long ago it was added.
KeysUnique ==
  \A i \in DOMAIN documents : \A d \in Documents(documents[i]) :
    KeysOf(template) \cap {"inserts"} = {} =>
      \A j, k \in DOMAIN d[2] : d[2][j][1] = d[2][k][1] => j = k

\* "generator type is ambiguous. This should not happen.": a number can be
\* converted from one type of generator only.
NeverAmbiguous == Thrown(docGen) => docGen.why # "ambiguous"

CountsOf(list) == [v \in {list[i][1] : i \in DOMAIN list} |->
                   list[CHOOSE i \in DOMAIN list : list[i][1] = v][2]]

\* A string of ^TakeRandomStringFromFrequencyMap is made as often as the map
\* says and no more, and the exception comes only when all are taken.
TakenAsOften ==
  LET node == Get(Get(template, "taken"), "^TakeRandomStringFromFrequencyMap")
      counts == CountsOf(FrequencyMapGenerator(node).args.list)
      made(v) == Cardinality({i \in DOMAIN documents : documents[i] = <<"document", <<<<<<"taken">>, <<"string", v>>>>>>>>})
  IN node # absent =>
       /\ \A v \in DOMAIN counts : made(v) <= counts[v]
       /\ Failed(documents) => \A v \in DOMAIN counts : made(v) = counts[v]

\* What a DocumentGenerator makes, call by call, is what its template means.
GeneratedAsMeant == DocumentsAsMeant /\ KeysUnique /\ NeverAmbiguous /\ TakenAsOften
=============================================================================
