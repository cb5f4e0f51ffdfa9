---------------------------- MODULE WrapperGenerator ----------------------------
(***************************************************************************)
(* The generator of contract wrappers, packages/abi-wrapper/src            *)
(*   helpers.ts, contractTemplate.ts, abiWrapper.ts                        *)
(* A Solidity type is a record of its name, the number of its array        *)
(* brackets and, of a tuple, its components.  A name is a sequence of      *)
(* words and numerals, the empty sequence if there is none; a wrapper is   *)
(* what the template is given.                                             *)
(***************************************************************************)
EXTENDS Naturals, Sequences, FiniteSets, TLC

IntegerTypes == {"uint", "int", "uint8", "uint24", "uint256"}
BytesTypes == {"bytes", "bytes32"}

TYPE_MAPPING == <<
  [names |-> {"string"},     tsType |-> "string"],
  [names |-> {"address"},    tsType |-> "hex"],
  [names |-> {"bool"},       tsType |-> "boolean"],
  [names |-> IntegerTypes,   tsType |-> "bigint"],
  [names |-> BytesTypes,     tsType |-> "hex"] >>

INPUT_TYPE_MAPPING ==
  <<[names |-> IntegerTypes \ {"uint24"}, tsType |-> "bigint"]>> \o TYPE_MAPPING

Ts(kind, of) == [kind |-> kind, of |-> of]
Thrown == Ts("thrown", <<>>)
Around(kind, of) == IF \E i \in DOMAIN of : of[i] = Thrown THEN Thrown ELSE Ts(kind, of)

FirstOf(S) == CHOOSE i \in S : \A j \in S : i <= j

RECURSIVE typeConversion(_, _)
typeConversion(types, type) ==
  LET matching == {i \in DOMAIN types : type.name \in types[i].names} IN
  CASE type.dims > 0 ->
         Around("array", <<typeConversion(types, [type EXCEPT !.dims = @ - 1])>>)
    [] type.dims = 0 /\ type.name = "tuple" /\ type.components # <<>> ->
         Around("tuple", [i \in DOMAIN type.components |->
                            typeConversion(types, type.components[i])])
    [] OTHER ->
         IF matching = {} THEN Thrown ELSE Ts(types[FirstOf(matching)].tsType, <<>>)

inputType(type) == typeConversion(INPUT_TYPE_MAPPING, type)
outputType(type) == typeConversion(TYPE_MAPPING, type)

methodParamName(input, index) ==
  IF input.name = <<>> THEN <<"param", ToString(index)>> ELSE input.name

renderParams(inputs) == [i \in DOMAIN inputs |-> methodParamName(inputs[i], i - 1)]

renderMethodInput(inputs) ==
  Around("parameters", [i \in DOMAIN inputs |-> inputType(inputs[i].type)])

renderMethodOutput(outputs) ==
  CASE Len(outputs) = 0 -> Ts("void", <<>>)
    [] Len(outputs) = 1 -> outputType(outputs[1].type)
    [] OTHER -> Around("tuple", [i \in DOMAIN outputs |-> outputType(outputs[i].type)])

-----------------------------------------------------------------------------
(* contractTemplate.ts *)

\* Names an empty object has already: nameCount finds a function under them.
Inherited == {<<"toString">>, <<"valueOf">>}
Native == "[native code]"

namePostfix(methods, k) ==
  LET earlier == Cardinality({j \in 1 .. k - 1 : methods[j].name = methods[k].name}) IN
  CASE methods[k].name \in Inherited -> <<Native>>
    [] methods[k].name \notin Inherited /\ earlier = 0 -> <<>>
    [] OTHER -> <<ToString(earlier)>>

normalizeMethods(methods) ==
  [k \in DOMAIN methods |->
     [name |-> methods[k].name, member |-> methods[k].name \o namePostfix(methods, k),
      view |-> methods[k].stateMutability \in {"view", "pure"},
      params |-> renderParams(methods[k].inputs),
      input |-> renderMethodInput(methods[k].inputs),
      output |-> renderMethodOutput(methods[k].outputs)]]

\* An ABI, or an artifact with one, is taken; other JSON is not.
parseArtifactOrRawAbi(content) ==
  IF content.is \in {"abi", "artifact"} THEN [abi |-> content.abi] ELSE [thrown |-> TRUE]

\* The template is rendered and formatted: what is no TypeScript throws.
Unprintable(method, isGetter) ==
  \/ method.input = Thrown
  \/ isGetter /\ method.output = Thrown
  \/ \E i \in DOMAIN method.member : method.member[i] = Native

render(content) ==
  LET parsed == parseArtifactOrRawAbi(content)
      OfType(type) == SelectSeq(parsed.abi, LAMBDA item : item.type = type)
      methods == normalizeMethods(OfType("function"))
      getters == SelectSeq(methods, LAMBDA method : method.view)
      functions == SelectSeq(methods, LAMBDA method : ~method.view)
      events == OfType("event")
  IN IF \/ "thrown" \in DOMAIN parsed
        \/ \E k \in DOMAIN getters : Unprintable(getters[k], TRUE)
        \/ \E k \in DOMAIN functions : Unprintable(functions[k], FALSE)
        \/ \E k \in DOMAIN events : \E i \in DOMAIN events[k].inputs :
             outputType(events[k].inputs[i].type) = Thrown
     THEN [thrown |-> TRUE]
     ELSE [getters |-> getters, functions |-> functions, events |-> events]

-----------------------------------------------------------------------------
(* abiWrapper.ts.  A disk is the sequence of its files in the order of      *)
(* their names; a file is in a directory, which is a path from the root.    *)

RECURSIVE findNearestTsConfig(_, _)
findNearestTsConfig(configs, dir) ==
  IF dir \in configs THEN {dir}
  ELSE IF dir = <<>> THEN {}
  ELSE findNearestTsConfig(configs, SubSeq(dir, 1, Len(dir) - 1))

listJsonFiles(disk, dir) ==
  SelectSeq(disk, LAMBDA file : file.dir = dir /\ file.ext \in {".json", ".JSON"})

\* An input is a file, a directory, or a directory with "/*".
resolveInputFileNames(disk, input) ==
  IF input.is = "file"
  THEN SelectSeq(disk, LAMBDA file : /\ file.dir = input.dir /\ file.base = input.base
                                     /\ file.ext = input.ext)
  ELSE listJsonFiles(disk, input.dir)

RECURSIVE Flatten(_)
Flatten(seqs) == IF seqs = <<>> THEN <<>> ELSE Head(seqs) \o Flatten(Tail(seqs))

\* new Set: each file once, at its first place.
Once(files) ==
  LET First == {i \in DOMAIN files : \A j \in 1 .. i - 1 : files[j] # files[i]}
      Nth(n) == CHOOSE i \in First : Cardinality({j \in First : j <= i}) = n
  IN [n \in 1 .. Cardinality(First) |-> files[Nth(n)]]

generateDocs(docs, configs, dir) ==
  IF ~docs THEN "none"
  ELSE IF findNearestTsConfig(configs, dir) = {} THEN "thrown" ELSE "written"

\* A file is rendered, its wrapper written, then its documentation; what throws
\* stops the run where it is.
run(disk, inputs, docs, configs, outputDir) ==
  LET files == Once(Flatten([i \in DOMAIN inputs |-> resolveInputFileNames(disk, inputs[i])]))
      Stops(i) == \/ "thrown" \in DOMAIN render(files[i].content)
                  \/ generateDocs(docs, configs, outputDir) = "thrown"
      stops == {i \in DOMAIN files : Stops(i)}
      last == IF stops = {} THEN Len(files) ELSE FirstOf(stops)
      written == {i \in 1 .. last : "thrown" \notin DOMAIN render(files[i].content)}
      Latest(base) == CHOOSE i \in written : /\ files[i].base = base
                                             /\ \A j \in written : files[j].base = base => j <= i
  IN [outcome |-> IF files = <<>> \/ stops # {} THEN "threw" ELSE "done",
      wrappers |-> [base \in {files[i].base : i \in written} |-> files[Latest(base)]]]
=============================================================================
