-------------------------- MODULE MCWrapperGenerator --------------------------
(***************************************************************************)
(* WrapperGenerator against what a wrapper must be, for small types, ABIs  *)
(* and disks.  TLC evaluates the assumptions at the start of every run     *)
(* whose module extends this one.                                          *)
(***************************************************************************)
EXTENDS WrapperGenerator

Simple == {[name |-> name, dims |-> dims, components |-> <<>>] :
             name \in {"uint8", "uint24", "bytes32", "tuple", "fixed"}, dims \in 0 .. 2}
TupleOf(S) == {[name |-> "tuple", dims |-> dims, components |-> components] :
                 dims \in 0 .. 1, components \in [1 .. 1 -> S] \cup [1 .. 2 -> S]}
Types == Simple \cup TupleOf(Simple) \cup TupleOf(TupleOf({t \in Simple : t.dims = 0}))

RECURSIVE Leaves(_)
Leaves(t) ==
  IF t.components = <<>> THEN <<t.name>>
  ELSE Flatten([i \in DOMAIN t.components |-> Leaves(t.components[i])])
RECURSIVE TsLeaves(_)
TsLeaves(ts) ==
  IF ts.of = <<>> THEN <<ts.kind>>
  ELSE Flatten([i \in DOMAIN ts.of |-> TsLeaves(ts.of[i])])
RECURSIVE Depth(_)
Depth(ts) == IF ts.kind = "array" THEN 1 + Depth(ts.of[1]) ELSE 0

Meaning == [uint8 |-> "bigint", uint24 |-> "bigint", bytes32 |-> "hex"]

(* What a wrapper returns it also takes: a type reads the same both ways.   *)
ASSUME InputsAreOutputs == \A t \in Types : inputType(t) = outputType(t)

(* A type is converted leaf by leaf and bracket by bracket, unless a leaf   *)
(* is of no known type.                                                     *)
ASSUME ConversionKeepsShape ==
  \A t \in Types :
    LET ts == outputType(t) IN
    IF \E i \in DOMAIN Leaves(t) : Leaves(t)[i] \notin DOMAIN Meaning
    THEN ts = Thrown
    ELSE /\ Depth(ts) = t.dims
         /\ TsLeaves(ts) = [i \in DOMAIN Leaves(t) |-> Meaning[Leaves(t)[i]]]

-----------------------------------------------------------------------------
Uint == [name |-> "uint8", dims |-> 0, components |-> <<>>]
Function(name, mutability) ==
  [type |-> "function", name |-> name, stateMutability |-> mutability,
   inputs |-> << >>, outputs |-> <<[name |-> <<>>, type |-> Uint]>>]
Names == {<<"get">>, <<"get", "1">>, <<"get", "2">>, <<"set">>, <<"toString">>}
Methods == UNION {[1 .. n -> {Function(name, mutability) :
                                name \in Names, mutability \in {"view", "payable"}}] :
                    n \in 1 .. 3}

\* A method is named as an overload of another will be.
Collides(methods) ==
  \E j, k \in DOMAIN methods :
    j # k /\ namePostfix(methods, k) # <<>>
          /\ methods[j].name = methods[k].name \o namePostfix(methods, k)

(* The members of a wrapper have different names, overloads included,       *)
(* unless the contract itself has a function of that very name.             *)
ASSUME MembersDiffer ==
  \A methods \in Methods :
    LET normal == normalizeMethods(methods)
        printed == {k \in DOMAIN methods : methods[k].name \notin Inherited}
    IN (\A j, k \in printed : j # k => normal[j].member # normal[k].member)
         <=> ~Collides(methods)

(* Every function of the contract is one getter or one setter, in order,    *)
(* unless a name every object inherits keeps the wrapper from being made.   *)
ASSUME FunctionsAreWrapped ==
  \A methods \in Methods :
    LET wrapper == render([is |-> "artifact", abi |-> methods])
        Called(m) == [k \in DOMAIN m |-> m[k].name]
        Of(S) == Called(SelectSeq(methods, LAMBDA method : method.stateMutability \in S))
    IN IF \E k \in DOMAIN methods : methods[k].name \in Inherited
       THEN "thrown" \in DOMAIN wrapper
       ELSE /\ Called(wrapper.getters) = Of({"view"})
            /\ Called(wrapper.functions) = Of({"payable"})

(* The parameters of a method have different names, unless one is called    *)
(* as one without a name will be.                                           *)
ASSUME ParametersDiffer ==
  \A inputs \in [1 .. 3 -> {[name |-> name, type |-> Uint] :
                              name \in {<<>>, <<"a">>, <<"b">>, <<"c">>, <<"param", "1">>}}] :
    LET params == renderParams(inputs)
        named == {i \in DOMAIN inputs : inputs[i].name # <<>>}
    IN (\A i, j \in named : i # j => inputs[i].name # inputs[j].name) =>
         ((\A i, j \in DOMAIN params : i # j => params[i] # params[j])
            <=> ~(inputs[2].name = <<>> /\ \E i \in {1, 3} : inputs[i].name = <<"param", "1">>))

-----------------------------------------------------------------------------
Good == [is |-> "abi", abi |-> <<Function(<<"get">>, "view")>>]
Bad == [is |-> "other"]
File(dir, base, ext, content) ==
  [dir |-> dir, base |-> base, ext |-> ext, content |-> content]

Disks == {<<File(<<"abi">>, "A", ".json", a), File(<<"abi">>, "B", ".JSON", b),
            File(<<"abi">>, "C", ".md", Bad), File(<<"old">>, "A", ".json", c)>> :
            a, b, c \in {Good, Bad}}
Inputs == {[is |-> "directory", dir |-> <<"abi">>], [is |-> "directory", dir |-> <<"none">>],
           [is |-> "file", dir |-> <<"abi">>, base |-> "B", ext |-> ".JSON"],
           [is |-> "file", dir |-> <<"old">>, base |-> "A", ext |-> ".json"]}

(* A run that ends well has read a file, and has a wrapper for every file   *)
(* it was given, from the last of those of one name; one that does not has  *)
(* those of the files before the one that stopped it.                       *)
ASSUME RunsAreWhole ==
  \A disk \in Disks : \A inputs \in [1 .. 2 -> Inputs] : \A docs \in BOOLEAN :
    \A configs \in SUBSET {<<>>, <<"out">>, <<"abi">>} :
      LET got == run(disk, inputs, docs, configs, <<"out", "src">>)
          all == {disk[i] : i \in {1, 2, 4}}
          meant == {file \in all : \E i \in 1 .. 2 :
                      /\ file.dir = inputs[i].dir
                      /\ inputs[i].is = "file" => file.base = inputs[i].base}
          documented == docs => configs \cap {<<>>, <<"out">>} # {}
      IN /\ got.outcome = "done" <=>
              meant # {} /\ documented /\ \A file \in meant : file.content = Good
         /\ got.outcome = "done" => DOMAIN got.wrappers = {file.base : file \in meant}
         /\ \A base \in DOMAIN got.wrappers :
              got.wrappers[base] \in meant /\ got.wrappers[base].content = Good
         /\ meant = {disk[1], disk[4]} \cup {disk[2]} /\ got.outcome = "done" =>
              got.wrappers["A"].dir = inputs[2].dir

(* The configuration found is that of the nearest directory above.          *)
ASSUME NearestConfiguration ==
  \A configs \in SUBSET {<<>>, <<"a">>, <<"a", "b">>, <<"c">>} :
    LET above == {dir \in configs : dir \in {<<>>, <<"a">>, <<"a", "b">>}}
    IN findNearestTsConfig(configs, <<"a", "b">>)
         = {dir \in above : \A other \in above : Len(other) <= Len(dir)}
=============================================================================
