--------------------------- MODULE ValueGenerators ---------------------------
(***************************************************************************)
(* The value generators of DocumentGenerator.cpp.  A YAML node is parsed   *)
(* into a tree of generators; evaluating the tree makes a value and moves  *)
(* on the state its generators keep.                                       *)
(*                                                                         *)
(* A node is a tuple: <<"absent">>, <<"null">>, <<"scalar", value>>,       *)
(* <<"seq", nodes>> or <<"map", entries>>.  A value is a pair of its BSON  *)
(* type and what it holds: a number, a sequence of letters, values, pairs  *)
(* of a key and a value, or the reason of an exception.  A random draw is  *)
(* a set of outcomes, so Evaluate(g) is a set of pairs: the generator that *)
(* is left and the value it made.                                          *)
(***************************************************************************)
EXTENDS Integers, Sequences, FiniteSets, SequencesExt

CONSTANTS
  actorId,
  Datasets,           \* the non-empty lines of the files that can be read, by path
  MaxDraw,            \* bound: the largest number an unbounded distribution draws
  MaxNumber,          \* bound: the largest number that is written as a string
  consecutiveRepeatsThreshold

-----------------------------------------------------------------------------
(* Nodes.                                                                  *)

absent == <<"absent">>
Scalar(type, v) == <<"scalar", <<type, v>>>>
Map(entries) == <<"map", entries>>
isMap(node) == node[1] = "map"
isSequence(node) == node[1] = "seq"

Get(node, key) ==
  LET at == IF isMap(node) THEN {i \in DOMAIN node[2] : node[2][i][1] = key} ELSE {}
  IN IF at = {} THEN absent ELSE node[2][CHOOSE i \in at : TRUE][2]

\* What node.to<type>() accepts, by the text of the scalar.  "tagged" is a
\* number with the tag of a string.
Converts(text, type) ==
  \/ type = "string"
  \/ type = text
  \/ text \in {"int32", "tagged"} /\ type \in {"int32", "int64", "double"}
  \/ text = "int64" /\ type = "double"

-----------------------------------------------------------------------------
(* Generators: the parts they are made of and the state they keep.         *)

Throw(why) == [kind |-> "throw", why |-> why]
Thrown(g) == g.kind = "throw"

Constant(type, v) == [kind |-> "constant", value |-> <<type, v>>]

\* A generator is made when all its parts are; the first to throw ends that.
Made(parts, g) ==
  IF \E i \in DOMAIN parts : Thrown(parts[i])
  THEN parts[CHOOSE i \in DOMAIN parts : Thrown(parts[i]) /\ \A j \in 1..(i - 1) : ~Thrown(parts[j])]
  ELSE g

Composite(kind, parts, args) ==
  Made(parts, [kind |-> kind, parts |-> parts, args |-> args, n |-> 0, fresh |-> TRUE])

\* A scalar argument, read as a number or a flag, with its default.
Arg(node, key, default) == IF Get(node, key)[1] = "scalar" THEN Get(node, key)[2][2] ELSE default

-----------------------------------------------------------------------------
(* Evaluation.                                                             *)

RECURSIVE Evaluate(_)

\* Every part once, from left to right.
EvaluateAll(parts) ==
  FoldLeft(LAMBDA runs, i :
             UNION {{<<[run[1] EXCEPT ![i] = e[1]], Append(run[2], e[2])>> : e \in Evaluate(run[1][i])} :
                    run \in runs},
           {<<parts, <<>>>>}, [i \in DOMAIN parts |-> i])

\* One generator n times.
EvaluateTimes(g, n) ==
  FoldLeft(LAMBDA runs, i :
             UNION {{<<e[1], Append(run[2], e[2])>> : e \in Evaluate(run[1])} : run \in runs},
           {<<g, <<>>>>}, [i \in 1..n |-> i])

Failed(values) == \E i \in DOMAIN values : values[i][1] = "throw"
Failure(why) == <<"throw", why>>

Moved(g) == [g EXCEPT !.n = @ + 1]

\* A generator of `type` whose parts give `values`, from which F makes a value.
Combine(g, type, F(_)) ==
  {<<[g EXCEPT !.parts = run[1]],
     IF Failed(run[2]) THEN run[2][CHOOSE i \in DOMAIN run[2] : run[2][i][1] = "throw"]
     ELSE <<type, F(run[2])>>>> : run \in EvaluateAll(g.parts)}

Payloads(values) == [i \in DOMAIN values |-> values[i][2]]

Chosen(g, index) ==
  IF index \in DOMAIN g.parts
  THEN {<<[g EXCEPT !.parts[index] = e[1], !.n = @ + 1], e[2]>> : e \in Evaluate(g.parts[index])}
  ELSE {<<g, Failure("undefined")>>}

\* What the constructors of ^Cycle, ^Repeat, ^Inc and ^IncDate evaluate: their
\* cache, first item or start.  Nobody else uses the generator that they take
\* it from, so it is evaluated here, with the first value that is asked for;
\* what it throws then ends the first document, and nothing is made after it.
Filled(g) ==
  IF ~g.fresh THEN {g}
  ELSE CASE g.kind = "cycle" -> {[g EXCEPT !.fresh = FALSE, !.args.cache = run[2]] :
                                 run \in EvaluateTimes(g.parts[1], g.args.ofLength)}
         [] g.kind = "repeat" -> {[g EXCEPT !.fresh = FALSE, !.parts[1] = e[1], !.args.item = e[2]] :
                                  e \in Evaluate(g.parts[1])}
         [] g.kind = "inc" -> {[g EXCEPT !.fresh = FALSE, !.args.counter = @ + e[2][2]] :
                               e \in Evaluate(g.parts[1])}

\* _elemNumber counts from -1 and is moved on first: the n-th choice is n % size.
choose(g) ==
  IF g.args.deterministic
  THEN IF g.parts = <<>> THEN {<<g, Failure("undefined")>>} ELSE Chosen(g, (g.n % Len(g.parts)) + 1)
  ELSE UNION {Chosen(g, i) : i \in {j \in DOMAIN g.args.weights : g.args.weights[j] > 0}}

updateIndex(g) == [g EXCEPT !.n = (@ + 1) % g.args.ofLength]

cycle(g) ==
  IF g.n < Len(g.args.cache)
  THEN {<<updateIndex(g), g.args.cache[g.n + 1]>>}
  ELSE {<<g, Failure("undefined")>>}

\* Fault: the item is made anew one call too late.
repeat_TooLate(g) ==
  IF g.n + 1 > g.args.count
  THEN {<<[g EXCEPT !.n = 0, !.parts[1] = e[1], !.args.item = e[2]], g.args.item>> :
        e \in Evaluate(g.parts[1])}
  ELSE {<<Moved(g), g.args.item>>}

\* The item to repeat is made when the one before it is used up.  When that
\* throws, so does the call that used it up, and the item stays.
repeat(g) ==
  IF g.n + 1 >= g.args.count
  THEN {IF Failed(<<e[2]>>) THEN <<[g EXCEPT !.n = 0, !.parts[1] = e[1]], e[2]>>
        ELSE <<[g EXCEPT !.n = 0, !.parts[1] = e[1], !.args.item = e[2]], g.args.item>> :
        e \in Evaluate(g.parts[1])}
  ELSE {<<Moved(g), g.args.item>>}

inc(g) == {<<[g EXCEPT !.args.counter = @ + g.args.step], <<g.args.type, g.args.counter>>>>}

RECURSIVE Distinct(_, _, _, _)

\* The loop for distinct values, which gives up after too many repeats in a row.
Distinct(gen, values, nItems, repeats) ==
  IF Len(values) >= nItems THEN {<<gen, <<"array", values>>>>}
  ELSE UNION {IF e[2][1] = "throw" THEN {e}
              ELSE IF ~Contains(values, e[2]) THEN Distinct(e[1], Append(values, e[2]), nItems, 0)
              ELSE IF repeats + 1 > consecutiveRepeatsThreshold THEN {<<e[1], Failure("timeout")>>}
              ELSE Distinct(e[1], values, nItems, repeats + 1) : e \in Evaluate(gen)}

array(g) ==
  UNION {IF size[2][1] = "throw" THEN {<<g, size[2]>>}
         ELSE {<<[g EXCEPT !.parts = <<r[1], size[1]>>], r[2]>> :
               r \in IF g.args.distinct THEN Distinct(g.parts[1], <<>>, size[2][2], 0)
                     ELSE {<<run[1], IF Failed(run[2]) THEN Failure("part") ELSE <<"array", run[2]>>>> :
                           run \in EvaluateTimes(g.parts[1], size[2][2])}} :
         size \in Evaluate(g.parts[2])}

Used(fields, key) == \E i \in DOMAIN fields : fields[i][1] = key

\* A key, and its value unless the key is skipped; parts are the generators
\* of keys, values and the number of entries.
Entry(run, onDuplicatedKeys) ==
  UNION {IF onDuplicatedKeys = "skip" /\ Used(run[2], k[2][2])
         THEN {<<[run[1] EXCEPT ![1] = k[1]], run[2]>>}
         ELSE {<<[run[1] EXCEPT ![1] = k[1], ![2] = v[1]], Append(run[2], <<k[2][2], v[2]>>)>> :
               v \in Evaluate(run[1][2])} : k \in Evaluate(run[1][1])}

object(g) ==
  UNION {{<<[g EXCEPT !.parts = run[1]], <<"document", run[2]>>>> :
          run \in FoldLeft(LAMBDA runs, i : UNION {Entry(run, g.args.duplicatedKeys) : run \in runs},
                           {<<[g.parts EXCEPT ![3] = size[1]], <<>>>>}, [i \in 1..size[2][2] |-> i])} :
         size \in Evaluate(g.parts[3])}

Strings(length, alphabet) == {<<"string", s>> : s \in [1..length -> alphabet]}

\* FrequencyMap::take, of a random bucket.  A count of zero would wrap around.
take(g) ==
  IF g.args.list = <<>> THEN {<<g, Failure("range")>>}
  ELSE {LET bucket == g.args.list[i]
        IN <<[g EXCEPT !.args.list = IF bucket[2] = 1 THEN RemoveAt(@, i) ELSE [@ EXCEPT ![i][2] = @ - 1]],
             <<"string", bucket[1]>>>> : i \in DOMAIN g.args.list}

\* The string of a number, and the number of a string.
Numeral(n) == <<ToString(n)>>
Parsed(s) == {n \in 0..MaxNumber : Numeral(n) = s}

\* Number to number keeps the (whole) number, and a string must be one.
convertToNumeric(g) ==
  {<<[g EXCEPT !.parts = <<e[1]>>],
     IF e[2][1] = "throw" THEN e[2]
     ELSE IF e[2][1] # "string" THEN <<g.args, e[2][2]>>
     ELSE IF Parsed(e[2][2]) = {} THEN Failure("conversion")
     ELSE <<g.args, CHOOSE n \in Parsed(e[2][2]) : TRUE>>>> : e \in Evaluate(g.parts[1])}

\* beginSeries() every docsPerSeries calls, and a step of the walk at each.
Directions(d) == {<<d, 0>>, <<-d, 0>>, <<0, d>>, <<0, -d>>}
walk(g) ==
  LET starts == IF g.n % g.args.docsPerSeries = 0
                THEN (g.args.minX..g.args.maxX) \X (g.args.minY..g.args.maxY) \X Directions(g.args.distPerDoc)
                ELSE {<<g.args.x, g.args.y, g.args.v>>}
  IN {<<[g EXCEPT !.n = @ + 1, !.args.x = s[1] + s[3][1], !.args.y = s[2] + s[3][2], !.args.v = s[3]],
        <<"array", <<<<"double", s[1] + s[3][1]>>, <<"double", s[2] + s[3][2]>>>>>>>> : s \in starts}

document(g) == Combine(g, "document", LAMBDA vs : [i \in DOMAIN vs |-> <<g.args[i], vs[i]>>])
literalArray(g) == Combine(g, "array", LAMBDA vs : vs)
concat(g) == Combine(g, "array", LAMBDA vs : FlattenSeq(Payloads(vs)))
join(g) ==
  Combine(g, "string",
          LAMBDA vs : FlattenSeq([i \in DOMAIN vs |-> IF i = 1 THEN vs[i][2] ELSE g.args \o vs[i][2]]))

\* The text is the sequence of the values that it formats.
format(g) == Combine(g, "string", LAMBDA vs : vs)

objectId(g) == Combine(g, "oid", LAMBDA vs : IF vs[1][2] = <<>> THEN <<"new">> ELSE vs[1][2])

\* The hex digits and the subtype are checked at each evaluation.
uuid(g) ==
  {<<e[1], IF ~Failed(<<e[2]>>) /\ e[2][2] # <<<<"uuid">>, 4>> THEN Failure("syntax") ELSE e[2]>> :
   e \in Combine(g, "binary", Payloads)}

\* Bounds in the wrong order are undefined for the distribution.
uniform(g) ==
  UNION {IF Failed(e[2]) \/ e[2][1][2] > e[2][2][2] THEN {<<g, Failure("undefined")>>}
         ELSE {<<[g EXCEPT !.parts = e[1]], <<g.args, v>>>> : v \in e[2][1][2]..e[2][2][2]} :
         e \in EvaluateAll(g.parts)}

anyNumber(g) == {<<g, <<g.args[1], v>>>> : v \in g.args[2]..MaxDraw}

randomDate(g) ==
  UNION {IF Failed(e[2]) \/ e[2][2][2] <= e[2][1][2] THEN {<<g, Failure("syntax")>>}
         ELSE {<<[g EXCEPT !.parts = e[1]], <<"date", v>>>> : v \in e[2][1][2]..(e[2][2][2] - 1)} :
         e \in EvaluateAll(g.parts)}

date(g) ==
  {<<e[1], IF e[2][1] = "throw" THEN e[2] ELSE <<"date", e[2][2][1]>>>> : e \in Combine(g, "date", Payloads)}

randomString(g) ==
  UNION {{<<[g EXCEPT !.parts = <<e[1]>>], s>> : s \in Strings(e[2][2], g.args)} : e \in Evaluate(g.parts[1])}

anyLine(g) == {<<g, <<"string", Datasets[g.args][i]>>>> : i \in DOMAIN Datasets[g.args]}
nextLine(g) ==
  {<<[g EXCEPT !.n = (@ + 1) % Len(Datasets[g.args])], <<"string", Datasets[g.args][g.n + 1]>>>>}

\* One evaluation of a generator, by its class.
Evaluate(g) ==
  CASE g.kind = "constant" -> {<<g, g.value>>}
    [] g.kind = "document" -> document(g)
    [] g.kind = "literal" -> literalArray(g)
    [] g.kind = "concat" -> concat(g)
    [] g.kind = "join" -> join(g)
    [] g.kind = "format" -> format(g)
    [] g.kind = "oid" -> objectId(g)
    [] g.kind = "uuid" -> uuid(g)
    [] g.kind = "uniform" -> uniform(g)
    [] g.kind = "draw" -> anyNumber(g)
    [] g.kind = "randomDate" -> randomDate(g)
    [] g.kind = "date" -> date(g)
    [] g.kind = "inc" -> UNION {inc(h) : h \in Filled(g)}
    [] g.kind = "choose" -> choose(g)
    [] g.kind = "cycle" -> UNION {cycle(h) : h \in Filled(g)}
    [] g.kind = "repeat" -> UNION {repeat(h) : h \in Filled(g)}
    [] g.kind = "array" -> array(g)
    [] g.kind = "object" -> object(g)
    [] g.kind = "string" -> randomString(g)
    [] g.kind = "lines" -> anyLine(g)
    [] g.kind = "nextLine" -> nextLine(g)
    [] g.kind = "frequency" -> take(g)
    [] g.kind = "convert" -> convertToNumeric(g)
    [] g.kind = "walk" -> walk(g)
=============================================================================
