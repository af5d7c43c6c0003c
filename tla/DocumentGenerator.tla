-------------------------- MODULE DocumentGenerator --------------------------
(***************************************************************************)
(* How DocumentGenerator.cpp parses a node into generators: which parser a *)
(* meta-key names where a value of some type is wanted, what each checks,  *)
(* and which exceptions make it try another type.                          *)
(***************************************************************************)
EXTENDS ValueGenerators

-----------------------------------------------------------------------------
(* The parsers, by the type that is wanted.                                *)

intParsers == {"^RandomInt", "^ActorId", "^Inc", "^ConvertToInt"}
doubleParsers == {"^RandomDouble", "^ConvertToDouble"}

int32Parsers == {"^ConvertToInt32"}

decimalParsers == {"^ConvertToDecimal"}
dateParsers == {"^Now", "^RandomDate", "^Date", "^IncDate"}
arrayParsers == {"^Concat", "^Array", "^Verbatim"}

stringParsers ==
  {"^FastRandomString", "^RandomString", "^ChooseFromDataset", "^Join", "^Choose",
   "^TakeRandomStringFromFrequencyMap", "^ActorIdString", "^FormatString"}

allParsers ==
  {"^Choose", "^ObjectId", "^UUID", "^Null", "^Verbatim", "^TwoDWalk", "^Object", "^Cycle", "^Repeat",
   "^FixedGeneratedValue", "^NowTimestamp"}
    \cup arrayParsers \cup dateParsers \cup doubleParsers \cup intParsers \cup stringParsers
    \cup int32Parsers \cup decimalParsers

parsers == [int64 |-> intParsers, double |-> doubleParsers, int32 |-> int32Parsers,
            string |-> stringParsers, array |-> arrayParsers, date |-> dateParsers, any |-> allParsers]

MetaKeys == allParsers \cup {"^Unknown"}

\* The one meta-key of a map, which must then be its only key.
getMetaKey(node) ==
  LET meta == {i \in DOMAIN node[2] : node[2][i][1] \in MetaKeys}
  IN IF meta = {} THEN "none" ELSE IF Len(node[2]) > 1 THEN "several" ELSE node[2][1][1]

\* The key of a parser for `type`; "none" if the node is not for a parser.
extractKnownParser(node, type) ==
  LET key == IF isMap(node) THEN getMetaKey(node) ELSE "none"
  IN IF key \in {"none", "several"} \cup parsers[type] THEN key ELSE "unknown"

-----------------------------------------------------------------------------
RECURSIVE generator(_, _), verbatim(_)

constant(node, type) ==
  IF node[1] = "absent" THEN Throw("key")
  ELSE IF node[1] = "scalar" /\ Converts(node[2][1], type)
  THEN LET v == node[2][2]
       IN Constant(type, IF type = "string" /\ node[2][1] # "string" THEN Numeral(v) ELSE v)
  ELSE Throw("conversion")

\* The type of a scalar where any will do: the first one that it converts to.
scalar(node) == constant(node, IF node[2][1] = "tagged" THEN "string" ELSE node[2][1])

Null == Constant("null", "null")

\* The generator of an element, in a ^Verbatim block or not.
element(node, Verbatim) == IF Verbatim THEN verbatim(node) ELSE generator("any", node)

\* documentGenerator and literalArrayGenerator.
documentOf(entries, Verbatim) ==
  Composite("document", [i \in DOMAIN entries |-> element(entries[i][2], Verbatim)],
            [i \in DOMAIN entries |-> <<entries[i][1]>>])
literalArrayGenerator(items, Verbatim) ==
  Composite("literal", [i \in DOMAIN items |-> element(items[i], Verbatim)], <<>>)

valueGenerator(node, Verbatim) ==
  CASE node[1] = "null" -> Null
    [] node[1] = "scalar" -> scalar(node)
    [] node[1] = "seq" -> literalArrayGenerator(node[2], Verbatim)
    [] node[1] = "map" -> documentOf(node[2], Verbatim)
    [] node[1] = "absent" -> Throw("syntax")

verbatim(node) == valueGenerator(node, TRUE)

\* A required argument.
extract(node, key, type) == IF Get(node, key) = absent THEN Throw("syntax") ELSE generator(type, Get(node, key))

Items(node, type) == [i \in DOMAIN node[2] |-> generator(type, node[2][i])]

-----------------------------------------------------------------------------
(* The constructors.                                                       *)

Parameters == [uniform |-> <<"min", "max">>, exponential |-> <<"lambda">>, gamma |-> <<"alpha", "beta">>,
               weibull |-> <<"a", "b">>, extreme_value |-> <<"a", "b">>, beta |-> <<"alpha">>,
               laplace |-> <<"mean", "beta">>, normal |-> <<"mean", "sigma">>, lognormal |-> <<"m", "s">>,
               chi_squared |-> <<"n">>, non_central_chi_squared |-> <<"k", "lambda">>,
               cauchy |-> <<"median", "sigma">>, fisher_f |-> <<"m", "n">>, student_t |-> <<"n">>]

\* A draw of a distribution other than the uniform one is any number.
doubleGeneratorBasedOnDistribution(node) ==
  LET name == Arg(node, "distribution", "uniform") IN
  IF ~isMap(node) \/ name \notin DOMAIN Parameters THEN Throw("syntax")
  ELSE LET parts == [i \in DOMAIN Parameters[name] |-> extract(node, Parameters[name][i], "double")]
       IN IF name = "uniform" THEN Composite("uniform", parts, "double")
          ELSE Composite("draw", parts, <<"double", 0>>)

Int64Parameters == [uniform |-> <<"min", "max">>, binomial |-> <<"t", "p">>, negative_binomial |-> <<"k", "p">>,
                    poisson |-> <<"mean">>, geometric |-> <<"p">>, zipfian |-> <<"n", "alpha">>]

\* The first parameter may be a generator, but for those that are probabilities
\* or means; a zipfian draw starts at one.
int64GeneratorBasedOnDistribution(node) ==
  LET name == Arg(node, "distribution", "uniform") IN
  IF ~isMap(node) \/ name \notin DOMAIN Int64Parameters THEN Throw("syntax")
  ELSE LET type(p) == IF p \in {"p", "mean", "alpha"} THEN "double" ELSE "int64"
           names == Int64Parameters[name]
           parts == [i \in DOMAIN names |-> extract(node, names[i], type(names[i]))]
       IN IF name = "uniform" THEN Composite("uniform", parts, "int64")
          ELSE Composite("draw", parts, <<"int64", IF name = "zipfian" THEN 1 ELSE 0>>)

IncGenerator(node, type, start) ==
  Composite("inc", <<start>>, [type |-> type, step |-> Arg(node, "step", 1),
                               counter |-> actorId * Arg(node, "multiplier", 0)])

\* ChooseGenerator and ChooseStringGenerator: choices of any type, or strings.
ChooseGenerator(node, type) ==
  LET from == Get(node, "from")  weights == Get(node, "weights") IN
  IF ~isSequence(from) \/ (Get(node, "deterministic") # absent /\ weights # absent) THEN Throw("syntax")
  ELSE Composite("choose", Items(from, type),
                 [deterministic |-> Arg(node, "deterministic", FALSE),
                  weights |-> [i \in DOMAIN (IF weights = absent THEN from ELSE weights)[2] |->
                                 IF weights = absent THEN 1 ELSE weights[2][i][2][2]]])

CycleGenerator(node, ofLength) ==
  Composite("cycle", <<extract(node, "fromGenerator", "any")>>, [ofLength |-> ofLength, cache |-> <<>>])

RepeatGenerator(node) ==
  IF Get(node, "count") = absent THEN Throw("syntax")
  ELSE Composite("repeat", <<extract(node, "fromGenerator", "any")>>,
                 [count |-> Arg(node, "count", 0), item |-> <<"null", "null">>])

ObjectGenerator(node) ==
  LET dup == Arg(node, "duplicatedKeys", "none") IN
  IF Get(node, "duplicatedKeys") = absent THEN Throw("key")
  ELSE IF dup \notin {"insert", "skip"} THEN Throw("syntax")
  ELSE Composite("object", <<generator("string", Get(node, "havingKeys")), generator("any", Get(node, "andValues")),
                             extract(node, "withNEntries", "int64")>>, [duplicatedKeys |-> dup])

ArrayGenerator(node) ==
  Composite("array", <<generator("any", Get(node, "of")), extract(node, "number", "int64")>>,
            [distinct |-> Arg(node, "distinct", FALSE)])

\* ^Concat, ^Join and the arguments of ^FormatString.
Listed(node, key, kind, type, args) ==
  IF isSequence(Get(node, key)) THEN Composite(kind, Items(Get(node, key), type), args) ELSE Throw("syntax")

FormatStringGenerator(node) ==
  IF Arg(node, "format", <<>>) = <<>> THEN Throw("syntax") ELSE Listed(node, "withArgs", "format", "any", <<>>)

\* The alphabet is a set of letters here; both classes draw any of them.
StringGenerator(node) ==
  IF Arg(node, "alphabet", {"a", "b"}) = {} THEN Throw("syntax")
  ELSE Composite("string", <<extract(node, "length", "int64")>>, Arg(node, "alphabet", {"a", "b"}))

\* WithDatasetStorage: a file that cannot be read or is empty is refused.
DatasetGenerator(node) ==
  LET path == Arg(node, "path", "")  line == Arg(node, "startFromLine", 0) IN
  IF path \notin DOMAIN Datasets \/ Datasets[path] = <<>> THEN Throw("syntax")
  ELSE IF ~Arg(node, "sequential", FALSE) THEN Composite("lines", <<>>, path)
  ELSE IF line >= Len(Datasets[path]) THEN Throw("syntax")
  ELSE [Composite("nextLine", <<>>, path) EXCEPT !.n = line]

FrequencyMapGenerator(node) ==
  LET from == Get(node, "from") IN
  IF ~isMap(from) THEN Throw("syntax")
  ELSE Composite("frequency", <<>>, [list |-> [i \in DOMAIN from[2] |-> <<<<from[2][i][1]>>, from[2][i][2][2][2]>>]])

\* The types that a try-block of the constructor accepts.
Accepted(node, types) ==
  SelectSeq([i \in DOMAIN types |-> generator(types[i], node)],
            LAMBDA g : ~(Thrown(g) /\ g.why \in {"conversion", "unknown", "date"}))

NumericConversionGenerator(node, type) ==
  LET from == Get(node, "from")
      text == constant(from, "string")
      found == Accepted(from, <<"string", "int64", "double", "int32">>)
  IN IF Thrown(text) /\ text.why = "conversion"
     THEN IF found = <<>> THEN Throw("syntax")
          ELSE IF Thrown(found[1]) THEN found[1]
          ELSE IF Len(found) > 1 THEN IF Thrown(found[2]) THEN found[2] ELSE Throw("ambiguous")
          ELSE Composite("convert", <<found[1]>>, type)
     ELSE Composite("convert", <<text>>, type)

\* A string where a date is wanted; its format is checked at each evaluation.
dateStringTimeGenerator(node) == Composite("convert", <<generator("string", node)>>, "int64")

\* The first of four ways to read a date that is not refused for its type.
dateGenerator(node, default) ==
  IF node = absent THEN Constant("int64", default)
  ELSE LET tries == <<generator("date", node), dateStringTimeGenerator(node), generator("int64", node),
                      generator("double", node)>>
           found == SelectSeq(tries, LAMBDA g : ~(Thrown(g) /\ g.why \in {"conversion", "unknown", "date"}))
       IN IF found = <<>> THEN Throw("unknown") ELSE found[1]

UuidGenerator(node) ==
  Composite("uuid", <<generator("string", Get(node, "hex")),
                      IF Get(node, "subType") = absent THEN Constant("int64", 4)
                      ELSE generator("int64", Get(node, "subType"))>>, <<>>)

TwoDWalkGenerator(node) ==
  LET names == {"docsPerSeries", "distPerDoc", "minX", "maxX", "minY", "maxY"} IN
  IF \E k \in names : Get(node, k) = absent THEN Throw("syntax")
  ELSE Composite("walk", <<>>, [k \in names |-> Arg(node, k, 0)] @@ [x |-> 0, y |-> 0, v |-> <<0, 0>>])

\* The parser of each meta-key.
parse(key, node, type) ==
  CASE key = "^RandomInt" -> int64GeneratorBasedOnDistribution(node)
    [] key = "^RandomDouble" -> doubleGeneratorBasedOnDistribution(node)
    [] key = "^ActorId" -> Constant("int64", actorId)
    [] key = "^ActorIdString" -> Constant("string", Numeral(actorId))
    [] key = "^Null" -> Null
    [] key = "^Now" -> Composite("draw", <<>>, <<"date", 0>>)
    [] key = "^NowTimestamp" -> Composite("draw", <<>>, <<"timestamp", 0>>)
    [] key = "^Date" -> Composite("date", <<dateGenerator(node, 0)>>, <<>>)
    [] key = "^RandomDate" ->
         Composite("randomDate", <<dateGenerator(Get(node, "min"), 0), dateGenerator(Get(node, "max"), MaxDraw)>>, <<>>)
    [] key = "^Inc" -> IncGenerator(node, "int64", IF Get(node, "start") = absent THEN Constant("int64", 1)
                                                  ELSE generator("int64", Get(node, "start")))
    [] key = "^IncDate" -> IncGenerator(node, "date", dateGenerator(Get(node, "start"), 0))
    [] key = "^Choose" -> ChooseGenerator(node, type)
    [] key = "^Cycle" -> IF Get(node, "ofLength") = absent THEN Throw("syntax")
                         ELSE CycleGenerator(node, Arg(node, "ofLength", 0))
    [] key = "^FixedGeneratedValue" -> CycleGenerator(node, 1)
    [] key = "^Repeat" -> RepeatGenerator(node)
    [] key = "^Array" -> ArrayGenerator(node)
    [] key = "^Object" -> ObjectGenerator(node)
    [] key = "^Concat" -> Listed(node, "arrays", "concat", "array", <<>>)
    [] key = "^Join" -> Listed(node, "array", "join", "string", Arg(node, "sep", <<>>))
    [] key = "^FormatString" -> FormatStringGenerator(node)
    [] key = "^ObjectId" -> Composite("oid", <<generator("string", node)>>, <<>>)
    [] key = "^UUID" -> UuidGenerator(node)
    [] key = "^TwoDWalk" -> TwoDWalkGenerator(node)
    [] key \in {"^RandomString", "^FastRandomString"} -> StringGenerator(node)
    [] key = "^ChooseFromDataset" -> DatasetGenerator(node)
    [] key = "^TakeRandomStringFromFrequencyMap" -> FrequencyMapGenerator(node)
    [] key = "^ConvertToInt" -> NumericConversionGenerator(node, "int64")
    [] key = "^ConvertToInt32" -> NumericConversionGenerator(node, "int32")
    [] key = "^ConvertToDouble" -> NumericConversionGenerator(node, "double")
    [] key = "^ConvertToDecimal" -> NumericConversionGenerator(node, "decimal")
    [] key = "^Verbatim" ->
         IF type = "array" /\ ~isSequence(node) THEN Throw("syntax") ELSE verbatim(node)

\* intGenerator, doubleGenerator, stringGenerator, int32Generator,
\* bsonArrayGenerator, dateTimeGenerator and valueGenerator<false>.
generator(type, node) ==
  LET key == extractKnownParser(node, type) IN
  CASE key = "several" -> Throw("syntax")
    [] key = "unknown" -> Throw("unknown")
    [] key \notin {"several", "unknown", "none"} -> parse(key, Get(node, key), type)
    [] key = "none" ->
         CASE type = "any" -> valueGenerator(node, FALSE)
           [] type = "array" -> IF isSequence(node)
                                THEN literalArrayGenerator(node[2], FALSE)
                                ELSE Throw("syntax")
           [] type = "date" -> Throw("unknown")
           [] OTHER -> constant(node, type)

\* The constructor of DocumentGenerator.
documentGenerator(node) ==
  IF ~isMap(node) THEN Throw("syntax")
  ELSE LET key == getMetaKey(node) IN
       IF key = "^Verbatim"
       THEN IF isMap(Get(node, key)) THEN verbatim(Get(node, key)) ELSE Throw("syntax")
       ELSE IF key # "none" THEN Throw("syntax")
       ELSE documentOf(node[2], FALSE)
=============================================================================
