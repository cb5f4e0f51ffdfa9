---------------------------- MODULE Startup_proofs ----------------------------
(***************************************************************************)
(* Proofs about migrations and the set-up of instances, for any number of  *)
(* calls and instances.                                                    *)
(*                                                                         *)
(* First Migration: Inv is its inductive invariant.  Then the refinement:  *)
(* what Startup does is a behaviour of Migration.  Then the registry of    *)
(* an instance and its pools, under the assumption that first calls are    *)
(* made one at a time (MaxTogether = 1), in three layers that each use     *)
(* the ones before:                                                        *)
(*   SetUp     the stack of each call and the objects in the fields of its *)
(*             instance agree (Types, Control, Stacks, Objects);           *)
(*   Pools     the pool of an engine, the promise of its connection and    *)
(*             the calls that wait for it agree;                           *)
(*   Releases  between the end of the engine and the return of a shutdown, *)
(*             nothing is opened again.                                    *)
(***************************************************************************)
EXTENDS Startup, FiniteSetTheorems, SequenceTheorems, TLAPS

-----------------------------------------------------------------------------
(* Migrations. *)

(* A call that is about to create a table or to write the version has       *)
(* created those before; an instance that raises sets its flag only when it *)
(* has read the latest version, and its calls never get as far as a         *)
(* migration.                                                               *)
Inv ==
  /\ TypeOK
  /\ VersionImpliesTables
  /\ RaiseIsReady
  /\ \A c \in Call : /\ pc[c] \in {"token", "payment", "write"} => "channel" \in tables
                     /\ pc[c] \in {"payment", "write"} => "token" \in tables
                     /\ pc[c] = "write" => "payment" \in tables
  /\ \A i \in Instance : i \notin Silent /\ migrated[i] => tables = Tables
  /\ \A c \in Call : Home[c] \notin Silent =>
                       pc[c] \notin {"countAgain", "insertAgain", "write"} \cup Tables

USE DEF latestVersion, Tables, Over

LEMMA InitInv == Init => Inv
  BY HomeAssumption DEF Init, Inv, TypeOK, VersionImpliesTables, RaiseIsReady

LEMMA StepInv ==
  ASSUME Inv, [Next]_vars
  PROVE  Inv'
<1>1. CASE UNCHANGED vars
  BY <1>1 DEF vars, Inv, TypeOK, VersionImpliesTables, RaiseIsReady
<1>2. ASSUME NEW c \in Call, checkMigrationsState(c)
      PROVE  Inv'
  <2>1. Home[c] \in Instance
    BY HomeAssumption
  <2> QED
    BY <1>2, <2>1 DEF checkMigrationsState, At, Goto, Inv, TypeOK,
                      VersionImpliesTables, RaiseIsReady
<1>3. ASSUME NEW c \in Call, ensureMetaTable(c)
      PROVE  Inv'
  <2>1. CASE countRows(c, "count", "insert", "read")
    BY <2>1 DEF countRows, At, Goto, Inv, TypeOK, VersionImpliesTables, RaiseIsReady
  <2>2. CASE insertRow(c, "insert", "read")
    BY <2>2 DEF insertRow, At, Goto, Inv, TypeOK, VersionImpliesTables, RaiseIsReady
  <2>3. CASE countRows(c, "countAgain", "insertAgain", "channel")
    BY <2>3 DEF countRows, At, Goto, Inv, TypeOK, VersionImpliesTables, RaiseIsReady
  <2>4. CASE insertRow(c, "insertAgain", "channel")
    BY <2>4 DEF insertRow, At, Goto, Inv, TypeOK, VersionImpliesTables, RaiseIsReady
  <2> QED BY <1>3, <2>1, <2>2, <2>3, <2>4 DEF ensureMetaTable
<1>4. ASSUME NEW c \in Call, isLatest(c)
      PROVE  Inv'
  <2>1. PICK version \in ReadVersions :
          \/ /\ version >= latestVersion
             /\ migrated' = [migrated EXCEPT ![Home[c]] = TRUE]
             /\ Goto(c, "proceeded")
          \/ /\ Home[c] \in Silent
             /\ migrated' = [migrated EXCEPT ![Home[c]] = TRUE]
             /\ Goto(c, "countAgain")
          \/ /\ Home[c] \notin Silent
             /\ Goto(c, "threw")
             /\ UNCHANGED migrated
    BY <1>4 DEF isLatest
  <2>2. At(c, "read") /\ UNCHANGED <<versions, tables>> /\ Home[c] \in Instance
    BY <1>4, HomeAssumption DEF isLatest
  <2>3. version >= 1 => tables = Tables
    BY <2>1 DEF ReadVersions, Inv, TypeOK, VersionImpliesTables
  <2> QED
    BY <2>1, <2>2, <2>3 DEF At, Goto, Inv, TypeOK, VersionImpliesTables, RaiseIsReady
<1>5. ASSUME NEW c \in Call, ensureSchema(c)
      PROVE  Inv'
  <2>1. CASE createTable(c, "channel", "token")
    BY <2>1 DEF createTable, At, Goto, Inv, TypeOK, VersionImpliesTables, RaiseIsReady
  <2>2. CASE createTable(c, "token", "payment")
    BY <2>2 DEF createTable, At, Goto, Inv, TypeOK, VersionImpliesTables, RaiseIsReady
  <2>3. CASE createTable(c, "payment", "write")
    BY <2>3 DEF createTable, At, Goto, Inv, TypeOK, VersionImpliesTables, RaiseIsReady
  <2> QED
    BY <1>5, <2>1, <2>2, <2>3 DEF ensureSchema
<1>6. ASSUME NEW c \in Call, writeVersion(c)
      PROVE  Inv'
  <2>1. tables = Tables
    BY <1>6 DEF writeVersion, At, Inv, TypeOK
  <2>2. tables' = Tables
    BY <1>6, <2>1 DEF writeVersion
  <2> QED
    BY <1>6, <2>2 DEF writeVersion, At, Goto, Inv, TypeOK, VersionImpliesTables, RaiseIsReady
<1>7. ASSUME NEW calls \in SUBSET Call, fail(calls)
      PROVE  Inv'
  BY <1>7 DEF fail, Inv, TypeOK, VersionImpliesTables, RaiseIsReady
<1>8. ASSUME NEW i \in Instance, restart(i)
      PROVE  Inv'
  BY <1>8 DEF restart, Inv, TypeOK, VersionImpliesTables, RaiseIsReady
<1> QED
  BY <1>1, <1>2, <1>3, <1>4, <1>5, <1>6, <1>7, <1>8 DEF Next, Step

(* Whatever fails or stops, and however many instances migrate one database *)
(* at once, the version row never announces tables that do not exist.       *)
THEOREM VersionIsHonest == Spec => []VersionImpliesTables
<1>1. Inv => VersionImpliesTables
  BY DEF Inv
<1> QED
  BY <1>1, InitInv, StepInv, PTL DEF Spec

(* An instance that must not migrate lets calls through only to the tables. *)
THEOREM RaisingIsSafe == Spec => []RaiseIsReady
<1>1. Inv => RaiseIsReady
  BY DEF Inv
<1> QED
  BY <1>1, InitInv, StepInv, PTL DEF Spec

-----------------------------------------------------------------------------
(* The set-up of instances implements Migration: whichever calls are made,  *)
(* however their awaits interleave and whatever a shutdown closes, every    *)
(* step is a step of Migration or leaves its variables alone.  What is      *)
(* proved of Migration then holds of the whole.                             *)

LEMMA CodeImplements ==
  ASSUME NEW c \in Call, Code(c)
  PROVE  [Next]_vars
<1>1. Throw({c}) => \E calls \in SUBSET Call : fail(calls)
  BY DEF Throw
<1>2. Effect(c) => Step(c) \/ UNCHANGED vars
  BY DEF Effect
<1>3. CASE getter(c) \/ resumeGetter(c) \/ build(c) \/ api(c)
  BY <1>3 DEF getter, resumeGetter, build, api
<1>4. CASE migrations(c)
  BY <1>4 DEF migrations, Next
<1>5. CASE resumeMigrations(c)
  BY <1>1, <1>5 DEF resumeMigrations, Next
<1>6. CASE execSqlite(c)
  BY <1>1, <1>2, <1>6 DEF execSqlite, Next
<1>7. CASE execPostgres(c)
  BY <1>1, <1>7 DEF execPostgres, Next
<1>8. CASE close(c)
  BY <1>1, <1>8 DEF close, Next
<1>9. CASE closeSqlite(c)
  BY <1>1, <1>9 DEF closeSqlite, Next
<1> QED
  BY <1>3, <1>4, <1>5, <1>6, <1>7, <1>8, <1>9 DEF Code

LEMMA DatabaseImplements ==
  ASSUME NEW c \in Call, Database(c)
  PROVE  [Next]_vars
<1>1. ASSUME NEW calls \in SUBSET Call, Throw(calls)
      PROVE  Next
  BY <1>1 DEF Throw, Next
<1>2. CASE connected(c) \/ ended(c)
  BY <1>2 DEF connected, ended
<1>3. CASE connectionFails(c)
  <2>1. Waits("connection", c) \in SUBSET Call
    BY DEF Waits
  <2> QED
    BY <1>1, <1>3, <2>1 DEF connectionFails
<1>4. CASE answered(c)
  <2>1. CASE Effect(c)
    BY <2>1 DEF Effect, Next
  <2>2. CASE Throw({c})
    BY <1>1, <2>2
  <2> QED
    BY <1>4, <2>1, <2>2 DEF answered
<1> QED
  BY <1>2, <1>3, <1>4 DEF Database

LEMMA StartupImplementsStep == [StartupNext]_everything => [Next]_vars
<1>1. ASSUME NEW c \in Call, call(c) \/ run(c)
      PROVE  UNCHANGED vars
  BY <1>1 DEF call, run
<1>2. ASSUME NEW i \in Instance, crash(i)
      PROVE  Next
  BY <1>2 DEF crash, Next
<1>3. ASSUME NEW i \in Instance, another(i)
      PROVE  Next
  BY <1>3 DEF another, Next
<1>4. UNCHANGED everything => UNCHANGED vars
  BY DEF everything
<1> QED
  BY <1>1, <1>2, <1>3, <1>4, CodeImplements, DatabaseImplements DEF StartupNext

(* Setting up instances implements Migration. *)
THEOREM StartupImplementsMigration == StartupSpec => Spec
<1>1. StartupInit => Init
  BY DEF StartupInit
<1> QED
  BY <1>1, StartupImplementsStep, PTL DEF StartupSpec, Spec

(* Whichever API calls are made and whatever fails, the version row never   *)
(* announces tables that do not exist.                                      *)
THEOREM VersionStaysHonest == StartupSpec => []VersionImpliesTables
  BY StartupImplementsMigration, VersionIsHonest, PTL

(* An instance that must not migrate lets calls through only to the tables. *)
THEOREM RaisingStaysSafe == StartupSpec => []RaiseIsReady
  BY StartupImplementsMigration, RaisingIsSafe, PTL

-----------------------------------------------------------------------------
(* The stack of a call, and what its functions have awaited.               *)

Value == Call \cup {None}
Answer == Value \cup {"unmade", "entered", "returned", "threw"}
Api == DOMAIN Awaits
Name == Getter \cup Api \cup {"build", "migrations", "statement", "end"}
FrameType == [of : Name, got : Seq(Answer)]

(* Every getter awaits getters of a lower rank only.                        *)
Rank == [channelEthContract |-> 0, inflator |-> 1, storage |-> 2, chainManager |-> 0,
         channelContract |-> 3, paymentManager |-> 4, channelManager |-> 5, client |-> 6]

NeedsOf(name) == CASE name \in Getter -> Needs[name]
                   [] name \in Api -> Awaits[name]
                   [] name = "migrations" -> <<"storage">>
                   [] OTHER -> <<>>

InAwait(frame) == frame.of = "migrations" \/ Len(frame.got) < Len(NeedsOf(frame.of))
Awaited(frame) == IF frame.of = "migrations"
                  THEN IF frame.got = <<>> THEN "storage" ELSE "statement"
                  ELSE NeedsOf(frame.of)[Len(frame.got) + 1]

(* What a function got from a getter is the object in the field.            *)
FrameOK(frame, fields) ==
  /\ Len(frame.got) <= Len(NeedsOf(frame.of))
  /\ \A k \in 1 .. Len(frame.got) :
       NeedsOf(frame.of)[k] \in Getter =>
         frame.got[k] = fields[NeedsOf(frame.of)[k]] /\ frame.got[k] # None

(* The API function is the last frame; every frame but the first is in the  *)
(* await of the function above it; a getter that is in an await has found   *)
(* its field empty.                                                         *)
PlaceOK(s, a, fields, j) ==
  /\ FrameOK(s[j], fields)
  /\ s[j].of = "migrations" => j = Len(s) - 1
  /\ s[j].of \in Api => j = Len(s)
  /\ j > 1 => InAwait(s[j]) /\ s[j - 1].of = Awaited(s[j])
  /\ s[j].of \in Getter /\ (j > 1 \/ a # "entered") => fields[s[j].of] = None

(* A getter awaits getters of lower ranks.                                  *)
OrderOK(s, j, k) ==
  s[k].of \in Getter => /\ s[j].of \in Getter \cup {"build"}
                        /\ s[j].of \in Getter => Rank[s[j].of] < Rank[s[k].of]

(* What an await came to is the object in the field.                        *)
StackOK(s, a, function, fields) ==
  /\ s \in Seq(FrameType) /\ s # <<>>
  /\ s[Len(s)].of = function
  /\ \A j \in 1 .. Len(s) : PlaceOK(s, a, fields, j)
  /\ \A j, k \in 1 .. Len(s) : j < k => OrderOK(s, j, k)
  /\ a = "entered" => s[1].got = <<>>
  /\ a # "entered" =>
       /\ InAwait(s[1])
       /\ Awaited(s[1]) \in Getter =>
            a = fields[Awaited(s[1])] /\ a # None

Fields == [Getter -> Value]

LEMMA Getters ==
  Getter = {"channelEthContract", "inflator", "storage", "chainManager", "channelContract",
            "paymentManager", "channelManager", "client"}
BY DEF Getter, Needs

LEMMA Awaitings ==
  /\ Api = DOMAIN Buying \cup DOMAIN OnChannels \cup DOMAIN Accepting
  /\ \A function \in DOMAIN Buying : Awaits[function] = Buying[function]
  /\ \A function \in DOMAIN OnChannels :
       Awaits[function] = OnChannels[function]
  /\ \A function \in DOMAIN Accepting :
       Awaits[function] = Accepting[function]
BY DEF Api, Awaits, Buying, OnChannels, Accepting

LEMMA Parts ==
  /\ DOMAIN Buying = {"buy", "payment", "pry"}
  /\ DOMAIN OnChannels = {"deposit", "open", "channels", "channelById", "close"}
  /\ DOMAIN Accepting = {"acceptPayment", "acceptToken", "paymentById", "shutdown"}
BY DEF Buying, OnChannels, Accepting

LEMMA Apis ==
  Api = {"buy", "payment", "pry", "deposit", "open", "channels", "channelById", "close",
         "acceptPayment", "acceptToken", "paymentById", "shutdown"}
BY Awaitings, Parts

LEMMA AwaitsOf ==
  /\ Awaits.buy = <<"migrations", "client", "channelManager", "migrations", "channelManager", "statement">>
  /\ Awaits.payment = <<"migrations", "channelManager", "migrations", "channelManager", "statement">>
  /\ Awaits.pry = <<"migrations", "client">>
  /\ \A function \in {"deposit", "open", "channels", "channelById", "close"} :
       Awaits[function] = <<"migrations", "channelManager", "statement">>
  /\ Awaits.acceptPayment = <<"migrations", "client", "statement">>
  /\ Awaits.acceptToken = <<"migrations", "client", "statement">>
  /\ Awaits.paymentById = <<"migrations", "storage", "statement">>
  /\ Awaits.shutdown = <<"migrations", "storage", "end">>
<1>1. /\ Awaits.buy = Buying.buy
      /\ Awaits.payment = Buying.payment
      /\ Awaits.pry = Buying.pry
  BY Awaitings, Parts
<1>2. \A function \in {"deposit", "open", "channels", "channelById", "close"} :
        Awaits[function] = OnChannels[function]
  BY Awaitings, Parts
<1>3. /\ Awaits.acceptPayment = Accepting.acceptPayment
      /\ Awaits.acceptToken = Accepting.acceptToken
      /\ Awaits.paymentById = Accepting.paymentById
      /\ Awaits.shutdown = Accepting.shutdown
  BY Awaitings, Parts
<1> QED BY <1>1, <1>2, <1>3 DEF Buying, OnChannels, Accepting

LEMMA NeedsFacts ==
  /\ \A g \in Getter :
       /\ Needs[g] \in Seq(Name)
       /\ Rank[g] \in Nat
       /\ \A k \in 1 .. Len(Needs[g]) :
            /\ Needs[g][k] \in Getter \cup {"build"}
            /\ Needs[g][k] \in Getter => Rank[Needs[g][k]] < Rank[g]
BY Getters DEF Needs, Rank, Name

LEMMA AwaitsFacts ==
  \A function \in Api :
    /\ Awaits[function] \in Seq(Name)
    /\ \A k \in 1 .. Len(Awaits[function]) :
         /\ Awaits[function][k] \in {"migrations", "storage", "channelManager", "client",
                                     "statement", "end"}
         /\ Awaits[function][k] \in {"statement", "end"} =>
              k > 1 /\ Awaits[function][k - 1] \in {"storage", "channelManager", "client"}
         /\ Awaits[function][k] = "end" => k = 3 /\ Len(Awaits[function]) = 3
<1> TAKE function \in Api
<1> DEFINE Awaitable == {"migrations", "storage", "channelManager", "client", "statement", "end"}
<1>0. Awaitable \subseteq Name
  BY Getters DEF Name
<1>1. CASE function = "buy"
  <2>1. Awaits[function] = <<"migrations", "client", "channelManager", "migrations", "channelManager",
                         "statement">>
    BY <1>1, AwaitsOf
  <2>2. Awaits[function] \in Seq(Awaitable) /\ Len(Awaits[function]) = 6
    BY <2>1
  <2>3. Awaits[function] \in Seq(Name)
    BY <1>0, <2>2
  <2> QED BY <2>1, <2>2, <2>3
<1>2. CASE function = "payment"
  <2>1. Awaits[function] = <<"migrations", "channelManager", "migrations", "channelManager",
                         "statement">>
    BY <1>2, AwaitsOf
  <2>2. Awaits[function] \in Seq(Awaitable) /\ Len(Awaits[function]) = 5
    BY <2>1
  <2>3. Awaits[function] \in Seq(Name)
    BY <1>0, <2>2
  <2> QED BY <2>1, <2>2, <2>3
<1>3. CASE function = "pry"
  <2>1. Awaits[function] = <<"migrations", "client">>
    BY <1>3, AwaitsOf
  <2>2. Awaits[function] \in Seq(Awaitable) /\ Len(Awaits[function]) = 2
    BY <2>1
  <2>3. Awaits[function] \in Seq(Name)
    BY <1>0, <2>2
  <2> QED BY <2>1, <2>2, <2>3
<1>4. CASE function \in {"deposit", "open", "channels", "channelById", "close"}
  <2>1. Awaits[function] = <<"migrations", "channelManager", "statement">>
    BY <1>4, AwaitsOf
  <2>2. Awaits[function] \in Seq(Awaitable) /\ Len(Awaits[function]) = 3
    BY <2>1
  <2>3. Awaits[function] \in Seq(Name)
    BY <1>0, <2>2
  <2> QED BY <2>1, <2>2, <2>3
<1>5. CASE function \in {"acceptPayment", "acceptToken"}
  <2>1. Awaits[function] = <<"migrations", "client", "statement">>
    BY <1>5, AwaitsOf
  <2>2. Awaits[function] \in Seq(Awaitable) /\ Len(Awaits[function]) = 3
    BY <2>1
  <2>3. Awaits[function] \in Seq(Name)
    BY <1>0, <2>2
  <2> QED BY <2>1, <2>2, <2>3
<1>6. CASE function = "paymentById"
  <2>1. Awaits[function] = <<"migrations", "storage", "statement">>
    BY <1>6, AwaitsOf
  <2>2. Awaits[function] \in Seq(Awaitable) /\ Len(Awaits[function]) = 3
    BY <2>1
  <2>3. Awaits[function] \in Seq(Name)
    BY <1>0, <2>2
  <2> QED BY <2>1, <2>2, <2>3
<1>7. CASE function = "shutdown"
  <2>1. Awaits[function] = <<"migrations", "storage", "end">>
    BY <1>7, AwaitsOf
  <2>2. Awaits[function] \in Seq(Awaitable) /\ Len(Awaits[function]) = 3
    BY <2>1
  <2>3. Awaits[function] \in Seq(Name)
    BY <1>0, <2>2
  <2> QED BY <2>1, <2>2, <2>3
<1> QED BY <1>1, <1>2, <1>3, <1>4, <1>5, <1>6, <1>7, Apis

LEMMA Shutdowns ==
  /\ Awaits.shutdown[1] = "migrations" /\ Awaits.shutdown[2] = "storage"
  /\ Awaits.shutdown[3] = "end" /\ Len(Awaits.shutdown) = 3
BY AwaitsOf

LEMMA Names ==
  /\ Getter \cap Api = {}
  /\ {"build", "migrations", "statement", "end"} \cap (Getter \cup Api) = {}
  /\ {"storage", "channelManager", "client"} \subseteq Getter
BY Getters, Apis

LEMMA NeedsOfFacts ==
  /\ \A g \in Getter : NeedsOf(g) = Needs[g]
  /\ \A function \in Api : NeedsOf(function) = Awaits[function]
  /\ NeedsOf("migrations") = <<"storage">>
  /\ NeedsOf("build") = <<>> /\ NeedsOf("statement") = <<>> /\ NeedsOf("end") = <<>>
  /\ \A name \in Name : NeedsOf(name) \in Seq(Name)
<1>1. \A g \in Getter : NeedsOf(g) = Needs[g]
  BY Names DEF NeedsOf
<1>2. \A function \in Api : NeedsOf(function) = Awaits[function]
  BY Names DEF NeedsOf
<1>3. NeedsOf("migrations") = <<"storage">>
  BY Names DEF NeedsOf
<1>4. NeedsOf("build") = <<>> /\ NeedsOf("statement") = <<>> /\ NeedsOf("end") = <<>>
  BY Names DEF NeedsOf
<1>5. "storage" \in Name
  BY Names DEF Name
<1>6. <<"storage">> \in Seq(Name) /\ <<>> \in Seq(Name)
  BY <1>5
<1>7. \A name \in Name : NeedsOf(name) \in Seq(Name)
  <2> TAKE name \in Name
  <2>1. CASE name \in Getter
    BY <2>1, <1>1, NeedsFacts
  <2>2. CASE name \in Api
    BY <2>2, <1>2, AwaitsFacts
  <2>3. CASE name \in {"build", "migrations", "statement", "end"}
    BY <2>3, <1>3, <1>4, <1>6
  <2> QED BY <2>1, <2>2, <2>3 DEF Name
<1> QED BY <1>1, <1>2, <1>3, <1>4, <1>7

-----------------------------------------------------------------------------
(* Stacks: entering a function, returning from it, and what stays.          *)

\* What an await came to, given to the function that made it.
Resumed(s, a) ==
  IF a = "entered" \/ (s[1].of = "migrations" /\ s[1].got # <<>>)
  THEN s[1] ELSE [of |-> s[1].of, got |-> Append(s[1].got, a)]

LEMMA FramesInSeq ==
  ASSUME NEW s \in Seq(FrameType), NEW j \in 1 .. Len(s)
  PROVE  /\ s[j] \in FrameType /\ s[j].of \in Name /\ s[j].got \in Seq(Answer)
         /\ NeedsOf(s[j].of) \in Seq(Name)
         /\ Len(s[j].got) \in Nat /\ Len(NeedsOf(s[j].of)) \in Nat
<1>1. s[j] \in FrameType
  OBVIOUS
<1>2. s[j].of \in Name /\ s[j].got \in Seq(Answer)
  BY <1>1 DEF FrameType
<1>3. NeedsOf(s[j].of) \in Seq(Name)
  BY <1>2, NeedsOfFacts
<1> QED BY <1>1, <1>2, <1>3

(* A function that goes on after an await has all it got from the fields.   *)
LEMMA ResumedOK ==
  ASSUME NEW s, NEW a \in Answer, NEW f, NEW fields \in Fields, StackOK(s, a, f, fields)
  PROVE  LET frame == Resumed(s, a) IN
         /\ frame \in FrameType /\ frame.of = s[1].of
         /\ FrameOK(frame, fields)
<1> DEFINE n == s[1].of
           needs == NeedsOf(n)
           frame == Resumed(s, a)
<1>0. s \in Seq(FrameType) /\ s # <<>> /\ 1 \in 1 .. Len(s)
  BY DEF StackOK
<1>1. /\ s[1] \in FrameType /\ n \in Name /\ s[1].got \in Seq(Answer)
      /\ needs \in Seq(Name) /\ Len(s[1].got) \in Nat /\ Len(needs) \in Nat
  BY <1>0, FramesInSeq
<1>2. FrameOK(s[1], fields)
  BY <1>0 DEF StackOK, PlaceOK
<1>3. CASE frame = s[1]
  BY <1>1, <1>2, <1>3
<1>4. CASE frame # s[1]
  <2>1. a # "entered" /\ frame = [of |-> n, got |-> Append(s[1].got, a)]
        /\ (n = "migrations" => s[1].got = <<>>)
    BY <1>4 DEF Resumed
  <2>2. /\ frame.of = n /\ frame.got = Append(s[1].got, a)
        /\ frame.got \in Seq(Answer) /\ Len(frame.got) = Len(s[1].got) + 1
        /\ frame.got[Len(s[1].got) + 1] = a
        /\ \A k \in 1 .. Len(s[1].got) : frame.got[k] = s[1].got[k]
    BY <1>1, <2>1
  <2>3. frame \in FrameType
    BY <1>1, <2>1, <2>2 DEF FrameType
  <2>4. /\ InAwait(s[1])
        /\ Awaited(s[1]) \in Getter => a = fields[Awaited(s[1])] /\ a # None
    BY <2>1 DEF StackOK
  <2>5. Len(frame.got) <= Len(needs) /\ Awaited(s[1]) = needs[Len(s[1].got) + 1]
    <3>1. CASE n = "migrations"
      <4>1. needs = <<"storage">> /\ s[1].got = <<>>
        BY <3>1, <2>1, NeedsOfFacts
      <4> QED BY <4>1, <3>1, <2>2 DEF Awaited
    <3>2. CASE n # "migrations"
      BY <3>2, <2>4, <2>2, <1>1 DEF InAwait, Awaited
    <3> QED BY <3>1, <3>2
  <2>6. ASSUME NEW k \in 1 .. Len(frame.got), needs[k] \in Getter
        PROVE  frame.got[k] = fields[needs[k]] /\ frame.got[k] # None
    <3>1. CASE k = Len(s[1].got) + 1
      BY <3>1, <2>2, <2>4, <2>5, <2>6
    <3>2. CASE k \in 1 .. Len(s[1].got)
      BY <3>2, <2>2, <2>6, <1>2 DEF FrameOK
    <3> QED BY <3>1, <3>2, <2>2, <1>1
  <2> QED BY <2>2, <2>3, <2>5, <2>6 DEF FrameOK
<1> QED BY <1>3, <1>4

(* What a function is about to await is a function.                         *)
LEMMA AwaitedFacts ==
  ASSUME NEW frame \in FrameType, InAwait(frame)
  PROVE  /\ Awaited(frame) \in Name \ Api
         /\ frame.of \in Getter => /\ Awaited(frame) \in Getter \cup {"build"}
                                   /\ Awaited(frame) \in Getter =>
                                        Rank[Awaited(frame)] < Rank[frame.of]
         /\ frame.of \notin {"build", "statement", "end"}
         /\ Awaited(frame) = "migrations" => frame.of \in Api
         /\ Awaited(frame) \in {"statement", "end"} => frame.of \in Api \cup {"migrations"}
<1>0. frame.of \in Name /\ frame.got \in Seq(Answer) /\ Len(frame.got) \in Nat
  BY DEF FrameType
<1>1. CASE frame.of = "migrations"
  <2>1. Awaited(frame) \in {"storage", "statement"}
    BY <1>1 DEF Awaited
  <2> QED BY <1>1, <2>1, Names DEF Name
<1>2. CASE frame.of # "migrations"
  <2> DEFINE k == Len(frame.got) + 1
             needs == NeedsOf(frame.of)
  <2>1. Len(frame.got) < Len(needs) /\ Awaited(frame) = needs[k]
    BY <1>2 DEF InAwait, Awaited
  <2>2. needs \in Seq(Name) /\ Len(needs) \in Nat
    BY <1>0, NeedsOfFacts
  <2>3. k \in 1 .. Len(needs)
    BY <1>0, <2>1, <2>2
  <2>4. CASE frame.of \in Getter
    <3>1. needs = Needs[frame.of]
      BY <2>4, NeedsOfFacts
    <3>2. /\ needs[k] \in Getter \cup {"build"}
          /\ needs[k] \in Getter => Rank[needs[k]] < Rank[frame.of]
      BY <2>3, <2>4, <3>1, NeedsFacts
    <3> QED BY <2>1, <2>4, <3>2, Names DEF Name
  <2>5. CASE frame.of \in Api
    <3>1. needs = Awaits[frame.of]
      BY <2>5, NeedsOfFacts
    <3>2. needs[k] \in {"migrations", "storage", "channelManager", "client", "statement", "end"}
      BY <2>3, <2>5, <3>1, AwaitsFacts
    <3> QED BY <2>1, <2>5, <3>2, Names DEF Name
  <2>6. CASE frame.of \in {"build", "statement", "end"}
    <3>1. needs = <<>>
      BY <2>6, NeedsOfFacts
    <3> QED BY <3>1, <2>3
  <2> QED BY <1>0, <1>2, <2>4, <2>5, <2>6 DEF Name
<1> QED BY <1>1, <1>2

LEMMA Pushed ==
  ASSUME NEW s, NEW a, NEW f, NEW fields \in Fields, StackOK(s, a, f, fields),
         NEW frame \in FrameType, frame.of = s[1].of, FrameOK(frame, fields),
         InAwait(frame), frame.of \in Getter => fields[frame.of] = None
  PROVE  StackOK(<<Frame(Awaited(frame)), frame>> \o Tail(s), "entered", f, fields)
<1> DEFINE n == Len(s)
           x == Awaited(frame)
           t == <<Frame(x), frame>> \o Tail(s)
<1>1. s \in Seq(FrameType) /\ s # <<>> /\ n \in Nat /\ n >= 1 /\ 1 \in 1 .. n
      /\ Len(s) = n
  BY DEF StackOK
<1>2. x \in Name \ Api
  BY AwaitedFacts
<1>3. Frame(x) \in FrameType /\ Frame(x).of = x /\ Frame(x).got = <<>>
  BY <1>2 DEF Frame, FrameType
<1>4. /\ t \in Seq(FrameType) /\ Len(t) = n + 1 /\ t # <<>>
      /\ t[1] = Frame(x) /\ t[2] = frame
      /\ \A j \in 3 .. n + 1 : t[j] = s[j - 1] /\ j - 1 \in 1 .. n
  <2>1. Tail(s) \in Seq(FrameType) /\ Len(Tail(s)) = n - 1
        /\ \A j \in 1 .. n - 1 : Tail(s)[j] = s[j + 1]
    BY <1>1
  <2>2. <<Frame(x), frame>> \in Seq(FrameType)
    BY <1>3
  <2> HIDE DEF x
  <2>3. t \in Seq(FrameType) /\ Len(t) = n + 1 /\ t[1] = Frame(x) /\ t[2] = frame
    BY <2>1, <2>2, <1>1
  <2>4. ASSUME NEW j \in 3 .. n + 1
        PROVE  t[j] = s[j - 1] /\ j - 1 \in 1 .. n
    BY <2>1, <2>2, <1>1
  <2>5. t # <<>>
    BY <2>3, <1>1
  <2> QED BY <2>3, <2>4, <2>5
<1> HIDE DEF n, t, x
<1>5. /\ s[1].of = "migrations" => n = 2
      /\ s[1].of \in Api => n = 1
  <2>1. PlaceOK(s, a, fields, 1)
    BY <1>1 DEF StackOK
  <2> QED BY <2>1, <1>1 DEF PlaceOK
<1>6. t[n + 1].of = f
  <2>1. s[n].of = f
    BY <1>1 DEF StackOK
  <2>2. CASE n = 1
    BY <2>1, <2>2, <1>4
  <2>3. CASE n > 1
    BY <2>1, <2>3, <1>1, <1>4
  <2> QED BY <2>2, <2>3, <1>1
<1>7. ASSUME NEW j \in 1 .. n + 1
      PROVE  PlaceOK(t, "entered", fields, j)
  <2>1. CASE j = 1
    <3>1. FrameOK(Frame(x), fields)
      <4>1. Len(NeedsOf(x)) \in Nat
        BY <1>2, NeedsOfFacts
      <4> QED BY <1>3, <4>1 DEF FrameOK
    <3>2. x = "migrations" => n = 1
      BY <1>5, AwaitedFacts DEF x
    <3> QED BY <2>1, <3>1, <3>2, <1>1, <1>2, <1>3, <1>4 DEF PlaceOK
  <2>2. CASE j = 2
    <3>1. t[1].of = x /\ t[2] = frame
      BY <1>3, <1>4
    <3> QED BY <2>2, <3>1, <1>1, <1>4, <1>5 DEF x, PlaceOK
  <2>3. CASE j > 2
    <3>1. j - 1 \in 1 .. n /\ t[j] = s[j - 1] /\ j - 1 > 1
      <4>1. j \in 3 .. n + 1 /\ j - 1 > 1
        BY <2>3, <1>1
      <4> QED BY <4>1, <1>4
    <3>2. PlaceOK(s, a, fields, j - 1)
      BY <3>1, <1>1 DEF StackOK
    <3>3. t[j - 1].of = s[(j - 1) - 1].of
      <4>1. CASE j = 3
        BY <4>1, <1>4
      <4>2. CASE j > 3
        BY <4>2, <1>4, <1>1
      <4> QED BY <4>1, <4>2, <2>3
    <3> QED BY <3>1, <3>2, <3>3, <1>1, <1>4 DEF PlaceOK
  <2> QED BY <2>1, <2>2, <2>3, <1>1
<1>8. ASSUME NEW j \in 1 .. n + 1, NEW k \in 1 .. n + 1, j < k
      PROVE  OrderOK(t, j, k)
  <2>1. CASE k = 2
    <3>1. j = 1 /\ t[j].of = x /\ t[k].of = frame.of
      BY <2>1, <1>8, <1>3, <1>4
    <3> QED BY <3>1, AwaitedFacts DEF x, OrderOK
  <2>2. CASE k > 2
    <3>1. k - 1 \in 1 .. n /\ k - 1 > 1 /\ t[k] = s[k - 1]
      BY <2>2, <1>4, <1>1
    <3>2. \A i \in 1 .. n : i < k - 1 => OrderOK(s, i, k - 1)
      BY <3>1, <1>1 DEF StackOK
    <3>3. CASE j > 2
      <4>1. j - 1 \in 1 .. n /\ t[j] = s[j - 1] /\ j - 1 < k - 1
        BY <3>3, <1>1, <1>4, <1>8
      <4>2. OrderOK(s, j - 1, k - 1)
        BY <4>1, <3>2
      <4> QED BY <4>1, <4>2, <3>1 DEF OrderOK
    <3>4. OrderOK(s, 1, k - 1)
      BY <3>1, <3>2, <1>1
    <3>5. CASE j = 2
      BY <3>1, <3>4, <3>5, <1>4 DEF OrderOK
    <3>6. CASE j = 1
      <4> SUFFICES ASSUME t[k].of \in Getter
                   PROVE  x \in Getter \cup {"build"} /\ (x \in Getter => Rank[x] < Rank[t[k].of])
        BY <3>6, <1>3, <1>4 DEF OrderOK
      <4>1. frame.of \in Getter /\ Rank[frame.of] < Rank[t[k].of]
        BY <3>1, <3>4, AwaitedFacts DEF OrderOK
      <4>2. x \in Getter \cup {"build"} /\ (x \in Getter => Rank[x] < Rank[frame.of])
        BY <4>1, AwaitedFacts DEF x
      <4>3. x \in Getter => Rank[x] \in Nat /\ Rank[frame.of] \in Nat /\ Rank[t[k].of] \in Nat
        BY <4>1, NeedsFacts
      <4> QED BY <4>1, <4>2, <4>3
    <3> QED BY <3>3, <3>5, <3>6, <1>1
  <2> QED BY <2>1, <2>2, <1>8, <1>1
<1>9. StackOK(t, "entered", f, fields)
  BY <1>3, <1>4, <1>6, <1>7, <1>8, <1>1 DEF StackOK
<1> QED BY <1>9 DEF t, x

\* Fields that hold an object keep it.
Extend(fields, others) == \A g \in Getter : fields[g] # None => others[g] = fields[g]

LEMMA FrameKept ==
  ASSUME NEW frame, NEW fields, NEW others, FrameOK(frame, fields), Extend(fields, others)
  PROVE  FrameOK(frame, others)
BY DEF FrameOK, Extend

LEMMA Popped ==
  ASSUME NEW s, NEW a, NEW f, NEW fields, NEW others, StackOK(s, a, f, fields),
         Tail(s) # <<>>, Extend(fields, others),
         \A g \in Getter : g # s[1].of => others[g] = fields[g],
         NEW v \in Value,
         s[1].of \in Getter => v = others[s[1].of] /\ v # None
  PROVE  StackOK(Tail(s), v, f, others)
<1> DEFINE n == Len(s)
           t == Tail(s)
<1>1. /\ s \in Seq(FrameType) /\ n \in Nat /\ n > 1 /\ 1 \in 1 .. n /\ 2 \in 1 .. n
      /\ Len(s) = n
      /\ t \in Seq(FrameType) /\ Len(t) = n - 1 /\ t # <<>>
      /\ \A j \in 1 .. n - 1 : t[j] = s[j + 1] /\ j + 1 \in 1 .. n
  <2>1. s \in Seq(FrameType) /\ s # <<>>
    BY DEF StackOK
  <2>2. n \in Nat /\ Len(t) = n - 1 /\ t \in Seq(FrameType)
        /\ \A j \in 1 .. n - 1 : t[j] = s[j + 1]
    BY <2>1
  <2>3. n > 1
    BY <2>1, <2>2
  <2> QED BY <2>1, <2>2, <2>3
<1> HIDE DEF n, t
<1>2. v # "entered"
  BY StartupAssumption DEF Value
<1>3. t[n - 1].of = f
  <2>1. s[n].of = f
    BY <1>1 DEF StackOK
  <2> QED BY <1>1, <2>1
<1>4. ASSUME NEW j \in 1 .. n - 1
      PROVE  PlaceOK(t, v, others, j)
  <2>1. j + 1 \in 1 .. n /\ t[j] = s[j + 1] /\ j + 1 > 1
    BY <1>1
  <2>2. PlaceOK(s, a, fields, j + 1)
    BY <1>1, <2>1 DEF StackOK
  <2>3. FrameOK(t[j], others)
    BY <2>1, <2>2, FrameKept DEF PlaceOK
  <2>4. j > 1 => InAwait(t[j]) /\ t[j - 1].of = Awaited(t[j])
    <3> SUFFICES ASSUME j > 1
                 PROVE  InAwait(t[j]) /\ t[j - 1].of = Awaited(t[j])
      OBVIOUS
    <3>1. t[j - 1] = s[j] /\ (j + 1) - 1 = j
      BY <1>1
    <3>2. InAwait(s[j + 1]) /\ s[(j + 1) - 1].of = Awaited(s[j + 1])
      BY <2>1, <2>2 DEF PlaceOK
    <3> QED BY <2>1, <3>1, <3>2
  <2>5. t[j].of \in Getter => others[t[j].of] = None
    <3> SUFFICES ASSUME t[j].of \in Getter
                 PROVE  others[t[j].of] = None
      OBVIOUS
    <3>1. fields[t[j].of] = None
      BY <2>1, <2>2 DEF PlaceOK
    <3>2. OrderOK(s, 1, j + 1)
      BY <1>1, <2>1 DEF StackOK
    <3>3. t[j].of # s[1].of
      <4>1. s[1].of \in Getter => Rank[s[1].of] < Rank[t[j].of]
        BY <2>1, <3>2 DEF OrderOK
      <4>2. Rank[t[j].of] \in Nat
        BY NeedsFacts
      <4> QED BY <4>1, <4>2
    <3> QED BY <3>1, <3>3
  <2>6. /\ t[j].of = "migrations" => j = Len(t) - 1
        /\ t[j].of \in Api => j = Len(t)
    BY <1>1, <2>1, <2>2 DEF PlaceOK
  <2> QED BY <2>3, <2>4, <2>5, <2>6 DEF PlaceOK
<1>5. ASSUME NEW j \in 1 .. n - 1, NEW k \in 1 .. n - 1, j < k
      PROVE  OrderOK(t, j, k)
  <2>1. /\ j + 1 \in 1 .. n /\ t[j] = s[j + 1] /\ k + 1 \in 1 .. n /\ t[k] = s[k + 1]
        /\ j + 1 < k + 1
    BY <1>1, <1>5
  <2>2. OrderOK(s, j + 1, k + 1)
    BY <1>1, <2>1 DEF StackOK
  <2> QED BY <2>1, <2>2 DEF OrderOK
<1>6. /\ InAwait(t[1])
      /\ Awaited(t[1]) \in Getter => v = others[Awaited(t[1])] /\ v # None
  <2>1. PlaceOK(s, a, fields, 2) /\ t[1] = s[2]
    BY <1>1 DEF StackOK
  <2>2. InAwait(s[2]) /\ s[1].of = Awaited(s[2])
    BY <2>1 DEF PlaceOK
  <2> QED BY <2>1, <2>2
<1>7. StackOK(t, v, f, others)
  BY <1>1, <1>2, <1>3, <1>4, <1>5, <1>6 DEF StackOK
<1> QED BY <1>7 DEF t

(* A call that waits for the database is in no getter: what others build    *)
(* does not concern it.                                                     *)
LEMMA Statements ==
  ASSUME NEW s, NEW a, NEW f \in Api, NEW fields, StackOK(s, a, f, fields),
         s[1].of \in {"statement", "end"}
  PROVE  /\ a = "entered"
         /\ Len(s) >= 2 /\ s[2] \in FrameType
         /\ s[2].of \in Api \cup {"migrations"}
         /\ InAwait(s[2]) /\ Awaited(s[2]) = s[1].of
         /\ FrameOK(s[2], fields)
         /\ \A j \in 1 .. Len(s) : s[j].of \notin Getter
         /\ Tail(s) # <<>>
<1> DEFINE n == Len(s)
<1>1. s \in Seq(FrameType) /\ n \in Nat /\ n >= 1 /\ 1 \in 1 .. n /\ Len(s) = n
  BY DEF StackOK
<1> HIDE DEF n
<1>2. s[1] \in FrameType
  BY <1>1
<1>3. a = "entered"
  <2>1. a # "entered" => InAwait(s[1])
    BY DEF StackOK
  <2> QED BY <1>2, <2>1, AwaitedFacts
<1>4. n >= 2 /\ 2 \in 1 .. n
  <2>1. s[n].of = f
    BY <1>1 DEF StackOK
  <2>2. n # 1
    BY <2>1, Names
  <2> QED BY <1>1, <2>2
<1>5. s[2] \in FrameType
  BY <1>1, <1>4
<1>6. InAwait(s[2]) /\ Awaited(s[2]) = s[1].of /\ FrameOK(s[2], fields)
  <2>1. PlaceOK(s, a, fields, 2)
    BY <1>1, <1>4 DEF StackOK
  <2>2. s[2 - 1] = s[1]
    OBVIOUS
  <2> QED BY <2>1, <2>2 DEF PlaceOK
<1>7. s[2].of \in Api \cup {"migrations"}
  BY <1>5, <1>6, AwaitedFacts
<1>8. ASSUME NEW j \in 1 .. n, s[j].of \in Getter
      PROVE  FALSE
  <2>1. j # 1
    BY <1>8, Names
  <2>2. OrderOK(s, 1, j)
    BY <2>1, <1>1 DEF StackOK
  <2>3. s[1].of \in Getter \cup {"build"}
    BY <1>8, <2>2 DEF OrderOK
  <2> QED BY <2>3, Names
<1>9. Tail(s) # <<>>
  <2>1. s \in Seq(FrameType) /\ s # <<>> /\ Len(s) >= 2
    BY <1>1, <1>4
  <2>2. Len(Tail(s)) = Len(s) - 1
    BY <2>1
  <2> QED BY <2>1, <2>2
<1> QED BY <1>1, <1>3, <1>4, <1>5, <1>6, <1>7, <1>8, <1>9

LEMMA Kept ==
  ASSUME NEW s, NEW a, NEW f \in Api, NEW fields, NEW others, StackOK(s, a, f, fields),
         Extend(fields, others), s[1].of \in {"statement", "end"}
  PROVE  StackOK(s, a, f, others)
<1>1. a = "entered" /\ (\A j \in 1 .. Len(s) : s[j].of \notin Getter)
  <2>1. f \in Api /\ StackOK(s, a, f, fields) /\ s[1].of \in {"statement", "end"}
    OBVIOUS
  <2>2. a = "entered"
    BY <2>1, Statements
  <2>3. \A j \in 1 .. Len(s) : s[j].of \notin Getter
    BY <2>1, Statements
  <2> QED BY <2>2, <2>3
<1>2. ASSUME NEW j \in 1 .. Len(s)
      PROVE  PlaceOK(s, a, others, j)
  <2>1. PlaceOK(s, a, fields, j)
    BY DEF StackOK
  <2> QED BY <1>1, <2>1, FrameKept DEF PlaceOK
<1> QED BY <1>1, <1>2 DEF StackOK

LEMMA Called ==
  ASSUME NEW f \in Api, NEW fields
  PROVE  StackOK(<<Frame(f)>>, "entered", f, fields)
<1> DEFINE s == <<Frame(f)>>
<1>1. Frame(f) \in FrameType /\ Frame(f).of = f /\ Frame(f).got = <<>>
  BY DEF Frame, FrameType, Name
<1>2. s \in Seq(FrameType) /\ s # <<>> /\ Len(s) = 1 /\ s[1] = Frame(f)
  BY <1>1
<1> HIDE DEF s
<1>3. Len(NeedsOf(f)) \in Nat
  BY NeedsOfFacts DEF Name
<1>4. FrameOK(s[1], fields)
  BY <1>1, <1>2, <1>3 DEF FrameOK
<1>5. PlaceOK(s, "entered", fields, 1)
  BY <1>1, <1>2, <1>4, Names DEF PlaceOK
<1>6. StackOK(s, "entered", f, fields)
  BY <1>1, <1>2, <1>5 DEF StackOK
<1> QED BY <1>6 DEF s

-----------------------------------------------------------------------------
(* The objects of an instance.                                              *)

Made == [Getter -> [Call -> Seq(Answer)]]

(* Only the object in a field has been built, of the objects in the fields  *)
(* of those its getter awaited.                                             *)
ObjectsOK(i, fields, made) ==
  \A g \in Getter :
    /\ \A c \in Call : Home[c] = i /\ c # fields[g] => made[g][c] = <<>>
    /\ fields[g] # None =>
         /\ Home[fields[g]] = i
         /\ \A k \in 1 .. Len(Needs[g]) : Needs[g][k] \in Getter =>
              /\ made[g][fields[g]][k] = fields[Needs[g][k]]
              /\ fields[Needs[g][k]] # None

LEMMA ObjectsBuilt ==
  ASSUME NEW i \in Instance, NEW fields \in Fields, NEW made \in Made,
         ObjectsOK(i, fields, made), NEW g \in Getter, fields[g] = None,
         NEW c \in Call, Home[c] = i, NEW from \in Seq(Answer),
         \A k \in 1 .. Len(Needs[g]) : Needs[g][k] \in Getter =>
           from[k] = fields[Needs[g][k]] /\ from[k] # None
  PROVE  ObjectsOK(i, [fields EXCEPT ![g] = c], [made EXCEPT ![g][c] = from])
<1> DEFINE fields2 == [fields EXCEPT ![g] = c]
           made2 == [made EXCEPT ![g][c] = from]
<1>1. /\ fields2[g] = c /\ c # None
      /\ \A h \in Getter : h # g => fields2[h] = fields[h]
      /\ made2[g][c] = from
      /\ \A h \in Getter : \A d \in Call : h # g \/ d # c => made2[h][d] = made[h][d]
  BY StartupAssumption DEF Fields, Made
<1> HIDE DEF fields2, made2
<1>2. ASSUME NEW h \in Getter
      PROVE  /\ \A d \in Call : Home[d] = i /\ d # fields2[h] => made2[h][d] = <<>>
             /\ fields2[h] # None =>
                  /\ Home[fields2[h]] = i
                  /\ \A k \in 1 .. Len(Needs[h]) : Needs[h][k] \in Getter =>
                       /\ made2[h][fields2[h]][k] = fields2[Needs[h][k]]
                       /\ fields2[Needs[h][k]] # None
  <2>1. CASE h = g
    <3>1. \A d \in Call : Home[d] = i /\ d # c => made2[h][d] = <<>>
      <4> SUFFICES ASSUME NEW d \in Call, Home[d] = i, d # c
                   PROVE  made2[h][d] = <<>>
        OBVIOUS
      <4>1. made[g][d] = <<>>
        BY StartupAssumption DEF ObjectsOK
      <4> QED BY <4>1, <2>1, <1>1
    <3>2. ASSUME NEW k \in 1 .. Len(Needs[g]), Needs[g][k] \in Getter
          PROVE  made2[g][c][k] = fields2[Needs[g][k]] /\ fields2[Needs[g][k]] # None
      <4>1. Needs[g][k] # g
        BY <3>2, NeedsFacts
      <4>2. from[k] = fields[Needs[g][k]] /\ from[k] # None
        BY <3>2
      <4> QED BY <1>1, <3>2, <4>1, <4>2
    <3> QED BY <1>1, <2>1, <3>1, <3>2
  <2>2. CASE h # g
    <3>1. fields2[h] = fields[h] /\ \A d \in Call : made2[h][d] = made[h][d]
      BY <1>1, <2>2
    <3>2. \A d \in Call : Home[d] = i /\ d # fields2[h] => made2[h][d] = <<>>
      BY <3>1 DEF ObjectsOK
    <3>3. ASSUME fields2[h] # None
          PROVE  /\ Home[fields2[h]] = i
                 /\ \A k \in 1 .. Len(Needs[h]) : Needs[h][k] \in Getter =>
                      /\ made2[h][fields2[h]][k] = fields2[Needs[h][k]]
                      /\ fields2[Needs[h][k]] # None
      <4>1. fields[h] \in Call /\ Home[fields[h]] = i
        BY <3>1, <3>3 DEF ObjectsOK, Fields, Value
      <4>2. ASSUME NEW k \in 1 .. Len(Needs[h]), Needs[h][k] \in Getter
            PROVE  made2[h][fields2[h]][k] = fields2[Needs[h][k]] /\ fields2[Needs[h][k]] # None
        <5>1. /\ made[h][fields[h]][k] = fields[Needs[h][k]]
              /\ fields[Needs[h][k]] # None
          BY <3>1, <3>3, <4>2 DEF ObjectsOK
        <5>2. Needs[h][k] # g
          BY <5>1
        <5> QED BY <1>1, <3>1, <4>1, <4>2, <5>1, <5>2
      <4> QED BY <3>1, <4>1, <4>2
    <3> QED BY <3>2, <3>3
  <2> QED BY <2>1, <2>2
<1>3. ObjectsOK(i, fields2, made2)
  BY <1>2 DEF ObjectsOK
<1> QED BY <1>3 DEF fields2, made2

LEMMA ObjectsElsewhere ==
  ASSUME NEW i \in Instance, NEW fields \in Fields, NEW made, NEW made2,
         ObjectsOK(i, fields, made),
         \A g \in Getter : \A c \in Call : Home[c] = i => made2[g][c] = made[g][c]
  PROVE  ObjectsOK(i, fields, made2)
<1> SUFFICES ASSUME NEW g \in Getter
             PROVE  /\ \A c \in Call : Home[c] = i /\ c # fields[g] => made2[g][c] = <<>>
                    /\ fields[g] # None =>
                         /\ Home[fields[g]] = i
                         /\ \A k \in 1 .. Len(Needs[g]) : Needs[g][k] \in Getter =>
                              /\ made2[g][fields[g]][k] = fields[Needs[g][k]]
                              /\ fields[Needs[g][k]] # None
  BY DEF ObjectsOK
<1>1. \A c \in Call : Home[c] = i /\ c # fields[g] => made2[g][c] = <<>>
  BY DEF ObjectsOK
<1>2. ASSUME fields[g] # None
      PROVE  /\ Home[fields[g]] = i /\ fields[g] \in Call
             /\ \A k \in 1 .. Len(Needs[g]) : Needs[g][k] \in Getter =>
                  /\ made[g][fields[g]][k] = fields[Needs[g][k]]
                  /\ fields[Needs[g][k]] # None
  BY <1>2 DEF ObjectsOK, Fields, Value
<1> QED BY <1>1, <1>2

\* Engine, of the frame of the function that awaits the statement.
EngineOf(frame, made) ==
  IF frame.of = "migrations" THEN frame.got[Len(frame.got)]
  ELSE LET name == Awaits[frame.of][Len(frame.got)]
           object == frame.got[Len(frame.got)]
       IN CASE name = "storage" -> object
            [] name = "channelManager" -> made["channelManager"][object][1]
            [] name = "client" -> made["channelManager"][made["client"][object][1]][1]

(* Whatever a call works on leads to the storage of its instance.           *)
LEMMA EngineIsStorage ==
  ASSUME NEW i \in Instance, NEW fields \in Fields, NEW made, ObjectsOK(i, fields, made),
         NEW frame \in FrameType, FrameOK(frame, fields), InAwait(frame),
         Awaited(frame) \in {"statement", "end"}
  PROVE  /\ EngineOf(frame, made) = fields["storage"]
         /\ fields["storage"] \in Call /\ Home[fields["storage"]] = i
<1> DEFINE n == Len(frame.got)
<1>0. frame.of \in Name /\ frame.got \in Seq(Answer) /\ n \in Nat
  BY DEF FrameType
<1>1. frame.of \in Api \cup {"migrations"}
  BY AwaitedFacts
<1>2. fields["storage"] # None => fields["storage"] \in Call /\ Home[fields["storage"]] = i
  BY Names DEF ObjectsOK, Fields, Value
<1>3. CASE frame.of = "migrations"
  <2>1. frame.got # <<>> /\ NeedsOf(frame.of) = <<"storage">>
    BY <1>3, NeedsOfFacts DEF Awaited
  <2>2. n <= 1
    BY <2>1 DEF FrameOK
  <2>3. n = 1
    BY <1>0, <2>1, <2>2
  <2>4. frame.got[1] = fields["storage"] /\ fields["storage"] # None
    BY <2>1, <2>3, Names DEF FrameOK
  <2> QED BY <1>2, <1>3, <2>3, <2>4 DEF EngineOf
<1>4. CASE frame.of \in Api
  <2> DEFINE needs == Awaits[frame.of]
             name == needs[n]
             object == frame.got[n]
  <2>1. frame.of # "migrations" /\ NeedsOf(frame.of) = needs
    BY <1>4, Names, NeedsOfFacts
  <2>2. n < Len(needs) /\ needs[n + 1] \in {"statement", "end"} /\ Len(needs) \in Nat
    <3>1. Len(needs) \in Nat
      BY <1>4, AwaitsFacts
    <3> QED BY <2>1, <3>1 DEF InAwait, Awaited
  <2>3. n + 1 \in 1 .. Len(needs)
    BY <1>0, <2>2
  <2>4. n + 1 > 1 /\ needs[(n + 1) - 1] \in {"storage", "channelManager", "client"}
    BY <1>4, <2>2, <2>3, AwaitsFacts
  <2>5. n >= 1 /\ name \in {"storage", "channelManager", "client"} /\ (n + 1) - 1 = n
    BY <1>0, <2>4
  <2>6. n \in 1 .. Len(frame.got) /\ name \in Getter
    BY <1>0, <2>5, Names
  <2>7. object = fields[name] /\ object # None
    BY <2>1, <2>6 DEF FrameOK
  <2> HIDE DEF name, object
  <2>8. ASSUME fields["channelManager"] # None
        PROVE  /\ made["channelManager"][fields["channelManager"]][1] = fields["storage"]
               /\ fields["storage"] # None
    <3>1. /\ Needs["channelManager"][1] = "storage" /\ 1 \in 1 .. Len(Needs["channelManager"])
      BY DEF Needs
    <3> QED BY <2>8, <3>1, Names DEF ObjectsOK
  <2>9. ASSUME fields["client"] # None
        PROVE  /\ made["client"][fields["client"]][1] = fields["channelManager"]
               /\ fields["channelManager"] # None
    <3>1. /\ Needs["client"][1] = "channelManager" /\ 1 \in 1 .. Len(Needs["client"])
      BY DEF Needs
    <3> QED BY <2>9, <3>1, Names DEF ObjectsOK
  <2>10. EngineOf(frame, made) =
           CASE name = "storage" -> object
             [] name = "channelManager" -> made["channelManager"][object][1]
             [] name = "client" -> made["channelManager"][made["client"][object][1]][1]
    BY <2>1 DEF EngineOf, name, object
  <2>11. EngineOf(frame, made) = fields["storage"] /\ fields["storage"] # None
    <3>1. CASE name = "storage"
      BY <3>1, <2>7, <2>10
    <3>2. CASE name = "channelManager"
      BY <3>2, <2>7, <2>8, <2>10
    <3>3. CASE name = "client"
      BY <3>3, <2>7, <2>8, <2>9, <2>10
    <3> QED BY <3>1, <3>2, <3>3, <2>5
  <2> QED BY <1>2, <2>11
<1> QED BY <1>1, <1>3, <1>4

-----------------------------------------------------------------------------
(* The invariant of the registry and of the event loop.                     *)

Types ==
  /\ registry \in [Instance -> Fields]
  /\ parts \in Made
  /\ stack \in [Call -> Seq(FrameType)]
  /\ answer \in [Call -> Answer]
  /\ running \in [Instance -> Value]
  /\ ready \in SUBSET Call
  /\ waiting \in [Call -> {"nothing", "connection", "answer", "end"}]

Busy(c) == Runs(c) \/ c \in ready

(* An instance has one busy call at a time; the others wait for the         *)
(* database, in a statement or in the end of a pool.                        *)
Control ==
  /\ \A i \in Instance : running[i] # None => Home[running[i]] = i /\ running[i] \notin ready
  /\ \A c \in Call : answer[c] = "unmade" => ~UnderWay(c)
  /\ \A c \in Call : UnderWay(c) <=> Busy(c) \/ waiting[c] # "nothing"
  /\ \A c \in Call : waiting[c] # "nothing" =>
       ~Busy(c) /\ Top(c).of = (IF waiting[c] = "end" THEN "end" ELSE "statement")
  /\ \A c, d \in Call : Busy(c) /\ Busy(d) /\ Home[c] = Home[d] => c = d

Stacks ==
  \A c \in Call : UnderWay(c) =>
    StackOK(stack[c], answer[c], Function[c], registry[Home[c]])

Objects == \A i \in Instance : ObjectsOK(i, registry[i], parts)

SetUp == Types /\ Control /\ Stacks /\ Objects

(* What a step does to the calls and the objects of an instance.            *)
Goes(c) == Runs(c) \/ (waiting[c] # "nothing" /\ Quiet(Home[c]))

Entering(c) ==
  \E frame \in FrameType :
    /\ Runs(c)
    /\ frame.of = Top(c).of /\ FrameOK(frame, registry[Home[c]]) /\ InAwait(frame)
    /\ frame.of \in Getter => Field(c, frame.of) = None
    /\ Enter(c, <<Frame(Awaited(frame)), frame>> \o Tail(stack[c]))
    /\ UNCHANGED objects
Returning(c) ==
  \E value \in Value :
    /\ Goes(c)
    /\ Top(c).of \in Getter => value = Field(c, Top(c).of) /\ value # None
    /\ Return(c, value)
    /\ UNCHANGED objects
Building(c) ==
  \E from \in Seq(Answer) :
    /\ Runs(c)
    /\ Top(c).of \in Getter /\ Field(c, Top(c).of) = None
    /\ \A k \in 1 .. Len(Needs[Top(c).of]) : Needs[Top(c).of][k] \in Getter =>
         from[k] = Field(c, Needs[Top(c).of][k]) /\ from[k] # None
    /\ Build(c, Top(c).of, from)
Awaiting(c) ==
  \E what \in {"connection", "answer", "end"} :
    /\ Runs(c)
    /\ Top(c).of = (IF what = "end" THEN "end" ELSE "statement")
    /\ Await(c, what)
    /\ UNCHANGED objects
Throwing(calls) ==
  /\ \A c \in calls : UnderWay(c)
  /\ Throw(calls)
  /\ UNCHANGED objects

LEMMA GoingCalls ==
  ASSUME SetUp, NEW c \in Call, Goes(c)
  PROVE  /\ UnderWay(c) /\ StackOK(stack[c], answer[c], Function[c], registry[Home[c]])
         /\ Home[c] \in Instance /\ registry[Home[c]] \in Fields
         /\ Function[c] \in Api
         /\ stack[c] \in Seq(FrameType) /\ answer[c] \in Answer /\ stack[c] # <<>>
         /\ Top(c) = stack[c][1] /\ Top(c) \in FrameType /\ 1 \in 1 .. Len(stack[c])
         /\ Tail(stack[c]) \in Seq(FrameType)
<1>1. UnderWay(c)
  BY DEF SetUp, Control, Goes, Busy
<1>2. Home[c] \in Instance /\ registry[Home[c]] \in Fields
  BY HomeAssumption DEF SetUp, Types
<1>3. Function[c] \in Api
  BY StartupAssumption DEF Api
<1>4. stack[c] \in Seq(FrameType) /\ answer[c] \in Answer /\ stack[c] # <<>>
  BY <1>1 DEF SetUp, Types, UnderWay
<1>5. Top(c) = stack[c][1] /\ Top(c) \in FrameType /\ Tail(stack[c]) \in Seq(FrameType)
      /\ 1 \in 1 .. Len(stack[c])
  BY <1>4 DEF Top
<1> QED BY <1>1, <1>2, <1>3, <1>4, <1>5 DEF SetUp, Stacks

(* The other calls of an instance whose call goes on wait for the database. *)
LEMMA OthersWait ==
  ASSUME SetUp, NEW c \in Call, Goes(c),
         NEW d \in Call, d # c, Home[d] = Home[c], UnderWay(d)
  PROVE  waiting[d] # "nothing" /\ Top(d).of \in {"statement", "end"}
<1>1. ~Busy(d)
  BY StartupAssumption, HomeAssumption DEF SetUp, Control, Goes, Quiet, Busy, Runs
<1> QED BY <1>1 DEF SetUp, Control

LEMMA EnteringSetUp ==
  ASSUME SetUp, NEW c \in Call, Entering(c)
  PROVE  SetUp'
<1>1. PICK frame \in FrameType :
        /\ Runs(c)
        /\ frame.of = Top(c).of /\ FrameOK(frame, registry[Home[c]]) /\ InAwait(frame)
        /\ frame.of \in Getter => Field(c, frame.of) = None
        /\ Enter(c, <<Frame(Awaited(frame)), frame>> \o Tail(stack[c]))
        /\ UNCHANGED objects
  BY DEF Entering
<1> DEFINE s == <<Frame(Awaited(frame)), frame>> \o Tail(stack[c])
<1>2. /\ UnderWay(c) /\ StackOK(stack[c], answer[c], Function[c], registry[Home[c]])
      /\ registry[Home[c]] \in Fields /\ Function[c] \in Api
      /\ Top(c) = stack[c][1] /\ Top(c) \in FrameType /\ Tail(stack[c]) \in Seq(FrameType)
  BY <1>1, GoingCalls DEF Goes
<1>3. StackOK(s, "entered", Function[c], registry[Home[c]])
  BY <1>1, <1>2, Pushed DEF Field
<1> HIDE DEF s
<1>4. s \in Seq(FrameType) /\ s # <<>>
  BY <1>3 DEF StackOK
<1>5. /\ stack' = [stack EXCEPT ![c] = s]
      /\ answer' = [answer EXCEPT ![c] = "entered"]
      /\ UNCHANGED <<running, ready, waiting, registry, parts>>
  BY <1>1 DEF Enter, objects, s
<1>6. Types'
  BY <1>4, <1>5 DEF SetUp, Types, Answer
<1>7. /\ stack'[c] = s /\ answer'[c] = "entered"
      /\ \A d \in Call : d # c => stack'[d] = stack[d] /\ answer'[d] = answer[d]
  BY <1>5 DEF SetUp, Types
<1>8. waiting[c] = "nothing"
  BY <1>1 DEF SetUp, Control, Busy
<1>9. Control'
  BY <1>2, <1>4, <1>5, <1>7, <1>8 DEF SetUp, Control, Busy, Runs, UnderWay, Top
<1>10. Stacks'
  BY <1>3, <1>5, <1>7 DEF SetUp, Stacks, UnderWay
<1>11. Objects'
  BY <1>5 DEF SetUp, Objects
<1> QED BY <1>6, <1>9, <1>10, <1>11 DEF SetUp

(* A return, with what it leaves in the fields.                             *)
LEMMA Returned ==
  ASSUME SetUp, NEW c \in Call, Goes(c), NEW v \in Value, Return(c, v),
         registry' \in [Instance -> Fields],
         \A i \in Instance : i # Home[c] => registry'[i] = registry[i],
         Extend(registry[Home[c]], registry'[Home[c]]),
         \A g \in Getter : g # Top(c).of => registry'[Home[c]][g] = registry[Home[c]][g],
         Top(c).of \in Getter => v = registry'[Home[c]][Top(c).of] /\ v # None,
         parts' \in Made
  PROVE  Types' /\ Control' /\ Stacks'
<1> DEFINE i == Home[c]
           t == Tail(stack[c])
<1>1. /\ UnderWay(c) /\ StackOK(stack[c], answer[c], Function[c], registry[i])
      /\ i \in Instance /\ Function[c] \in Api
      /\ Top(c) = stack[c][1] /\ t \in Seq(FrameType)
  BY GoingCalls
<1>2. /\ stack' = [stack EXCEPT ![c] = t]
      /\ answer' = [answer EXCEPT ![c] = IF t = <<>> THEN "returned" ELSE v]
      /\ running' = [running EXCEPT ![i] = None]
      /\ ready' = IF t = <<>> THEN ready ELSE ready \cup {c}
      /\ waiting' = [waiting EXCEPT ![c] = "nothing"]
  BY DEF Return
<1> HIDE DEF t
<1>3. Types'
  BY <1>1, <1>2 DEF SetUp, Types, Answer, Value
<1>4. /\ stack'[c] = t /\ answer'[c] = (IF t = <<>> THEN "returned" ELSE v)
      /\ waiting'[c] = "nothing"
      /\ \A d \in Call : d # c => /\ stack'[d] = stack[d] /\ answer'[d] = answer[d]
                                  /\ waiting'[d] = waiting[d]
      /\ running'[i] = None
      /\ \A j \in Instance : j # i => running'[j] = running[j]
  BY <1>1, <1>2 DEF SetUp, Types
<1>5. v # "unmade"
  BY StartupAssumption DEF Value
<1>6. \A d \in Call : Home[d] \in Instance
  BY HomeAssumption
<1>7. c \notin ready
  BY StartupAssumption, HomeAssumption DEF SetUp, Control, Goes, Quiet, Runs, Busy
<1>8. \A d \in Call : d # c /\ Home[d] = i => ~Busy(d)
  BY StartupAssumption, HomeAssumption DEF SetUp, Control, Goes, Quiet, Busy, Runs
<1>9. Control'
  <2>1. \A d \in Call : Busy(d)' <=> IF d = c THEN t # <<>> ELSE Busy(d)
    <3> TAKE d \in Call
    <3>1. CASE d = c
      BY <3>1, <1>2, <1>4, <1>7, StartupAssumption DEF Busy, Runs
    <3>2. CASE d # c /\ Home[d] = i
      BY <3>2, <1>2, <1>4, <1>8, StartupAssumption DEF Busy, Runs
    <3>3. CASE d # c /\ Home[d] # i
      BY <3>3, <1>2, <1>4, <1>6 DEF Busy, Runs
    <3> QED BY <3>1, <3>2, <3>3
  <2>2. \A j \in Instance :
          running'[j] # None => Home[running'[j]] = j /\ running'[j] \notin ready'
    BY <1>2, <1>4 DEF SetUp, Control
  <2>3. \A d \in Call : answer'[d] = "unmade" => stack'[d] = <<>>
    BY <1>4, <1>5 DEF SetUp, Control, UnderWay
  <2>4. \A d \in Call : stack'[d] # <<>> <=> Busy(d)' \/ waiting'[d] # "nothing"
    BY <1>4, <2>1 DEF SetUp, Control, UnderWay
  <2>5. \A d \in Call : waiting'[d] # "nothing" =>
          ~Busy(d)' /\ Head(stack'[d]).of = (IF waiting'[d] = "end" THEN "end" ELSE "statement")
    BY <1>4, <2>1 DEF SetUp, Control, Top
  <2>6. \A d, e \in Call : Busy(d)' /\ Busy(e)' /\ Home[d] = Home[e] => d = e
    BY <2>1, <1>8 DEF SetUp, Control
  <2> QED BY <2>2, <2>3, <2>4, <2>5, <2>6 DEF Control, UnderWay, Top
<1>10. Stacks'
  <2> SUFFICES ASSUME NEW d \in Call, stack'[d] # <<>>
               PROVE  StackOK(stack'[d], answer'[d], Function[d], registry'[Home[d]])
    BY DEF Stacks, UnderWay
  <2>1. CASE d = c
    <3>1. t # <<>>
      BY <2>1, <1>4
    <3>2. StackOK(t, v, Function[c], registry'[i])
      BY <1>1, <3>1, Popped DEF t
    <3> QED BY <2>1, <3>1, <3>2, <1>4
  <2>2. CASE d # c
    <3>1. UnderWay(d) /\ StackOK(stack[d], answer[d], Function[d], registry[Home[d]])
      BY <2>2, <1>4 DEF SetUp, Stacks, UnderWay
    <3>2. CASE Home[d] # i
      BY <2>2, <3>1, <3>2, <1>4, <1>6
    <3>3. CASE Home[d] = i
      <4>1. Top(d).of \in {"statement", "end"}
        BY <2>2, <3>1, <3>3, OthersWait
      <4>2. Function[d] \in Api /\ stack[d][1].of \in {"statement", "end"}
        BY <4>1, StartupAssumption DEF Api, Top
      <4>3. StackOK(stack[d], answer[d], Function[d], registry'[i])
        BY <3>1, <3>3, <4>2, Kept
      <4> QED BY <2>2, <3>3, <4>3, <1>4
    <3> QED BY <3>2, <3>3
  <2> QED BY <2>1, <2>2
<1> QED BY <1>3, <1>9, <1>10

LEMMA ReturningSetUp ==
  ASSUME SetUp, NEW c \in Call, Returning(c)
  PROVE  SetUp'
<1>1. PICK v \in Value :
        /\ Goes(c)
        /\ Top(c).of \in Getter => v = Field(c, Top(c).of) /\ v # None
        /\ Return(c, v)
        /\ UNCHANGED <<registry, parts>>
  BY DEF Returning, objects
<1>2. Home[c] \in Instance
  BY HomeAssumption
<1>3. Extend(registry[Home[c]], registry'[Home[c]])
  BY <1>1 DEF Extend
<1>4. registry' \in [Instance -> Fields] /\ parts' \in Made
  BY <1>1 DEF SetUp, Types
<1>5. Top(c).of \in Getter => v = registry'[Home[c]][Top(c).of] /\ v # None
  BY <1>1 DEF Field
<1>6. Types' /\ Control' /\ Stacks'
  BY <1>1, <1>3, <1>4, <1>5, Returned
<1>7. Objects'
  BY <1>1 DEF SetUp, Objects
<1> QED BY <1>6, <1>7 DEF SetUp

LEMMA BuildingSetUp ==
  ASSUME SetUp, NEW c \in Call, Building(c)
  PROVE  SetUp'
<1> DEFINE i == Home[c]
           g == Top(c).of
<1>1. PICK from \in Seq(Answer) :
        /\ Runs(c)
        /\ g \in Getter /\ registry[i][g] = None
        /\ \A k \in 1 .. Len(Needs[g]) : Needs[g][k] \in Getter =>
             from[k] = registry[i][Needs[g][k]] /\ from[k] # None
        /\ registry' = [registry EXCEPT ![i][g] = c]
        /\ parts' = [parts EXCEPT ![g][c] = from]
        /\ Return(c, c)
  BY DEF Building, Build, Field
<1>2. i \in Instance /\ registry[i] \in Fields /\ Goes(c)
      /\ registry \in [Instance -> Fields] /\ parts \in Made
  BY <1>1, HomeAssumption DEF SetUp, Types, Goes
<1> HIDE DEF g
<1>3. /\ registry'[i] = [registry[i] EXCEPT ![g] = c]
      /\ \A j \in Instance : j # i => registry'[j] = registry[j]
      /\ registry' \in [Instance -> Fields]
  BY <1>1, <1>2 DEF Fields, Value
<1>4. /\ registry'[i][g] = c /\ c \in Value /\ c # None
      /\ \A h \in Getter : h # g => registry'[i][h] = registry[i][h]
  BY <1>1, <1>2, <1>3, StartupAssumption DEF Fields, Value
<1>5. Extend(registry[i], registry'[i])
  BY <1>1, <1>4 DEF Extend
<1>6. parts' \in Made
      /\ \A h \in Getter : \A d \in Call : d # c => parts'[h][d] = parts[h][d]
  BY <1>1, <1>2 DEF Made
<1>7. Types' /\ Control' /\ Stacks'
  <2>1. \A h \in Getter : h # Top(c).of => registry'[i][h] = registry[i][h]
    BY <1>4 DEF g
  <2>2. Top(c).of \in Getter => c = registry'[i][Top(c).of] /\ c # None
    BY <1>4 DEF g
  <2> QED BY <1>1, <1>2, <1>3, <1>4, <1>5, <1>6, <2>1, <2>2, Returned
<1>8. Objects'
  <2> SUFFICES ASSUME NEW j \in Instance
               PROVE  ObjectsOK(j, registry'[j], parts')
    BY DEF Objects
  <2>1. ObjectsOK(j, registry[j], parts) /\ registry[j] \in Fields
    BY <1>2 DEF SetUp, Objects
  <2>2. CASE j = i
    <3>1. ObjectsOK(i, [registry[i] EXCEPT ![g] = c], [parts EXCEPT ![g][c] = from])
      BY <1>1, <1>2, <2>1, <2>2, ObjectsBuilt
    <3> QED BY <2>2, <3>1, <1>1, <1>3
  <2>3. CASE j # i
    <3>1. \A h \in Getter : \A d \in Call : Home[d] = j => parts'[h][d] = parts[h][d]
      BY <2>3, <1>6
    <3>2. ObjectsOK(j, registry[j], parts')
      BY <2>1, <3>1, ObjectsElsewhere
    <3> QED BY <2>3, <3>2, <1>3
  <2> QED BY <2>2, <2>3
<1> QED BY <1>7, <1>8 DEF SetUp

LEMMA AwaitingSetUp ==
  ASSUME SetUp, NEW c \in Call, Awaiting(c)
  PROVE  SetUp'
<1>1. PICK what \in {"connection", "answer", "end"} :
        /\ Runs(c)
        /\ Top(c).of = (IF what = "end" THEN "end" ELSE "statement")
        /\ waiting' = [waiting EXCEPT ![c] = what]
        /\ running' = [running EXCEPT ![Home[c]] = None]
        /\ UNCHANGED <<stack, answer, ready, registry, parts>>
  BY DEF Awaiting, Await, objects
<1>2. Goes(c) /\ Home[c] \in Instance /\ \A d \in Call : Home[d] \in Instance
  BY <1>1, HomeAssumption DEF Goes
<1>3. UnderWay(c)
  BY <1>2, GoingCalls
<1>4. Types'
  BY <1>1 DEF SetUp, Types, Value
<1>5. /\ waiting'[c] = what /\ \A d \in Call : d # c => waiting'[d] = waiting[d]
      /\ running'[Home[c]] = None
      /\ \A j \in Instance : j # Home[c] => running'[j] = running[j]
  BY <1>1, <1>2 DEF SetUp, Types
<1>6. c \notin ready
  BY <1>1, <1>2, StartupAssumption DEF SetUp, Control, Runs
<1>7. \A d \in Call : Busy(d)' <=> Busy(d) /\ d # c
  <2> TAKE d \in Call
  <2>1. CASE d = c
    BY <2>1, <1>1, <1>5, <1>6, StartupAssumption DEF Busy, Runs
  <2>2. CASE d # c /\ Home[d] = Home[c]
    BY <2>2, <1>1, <1>5, StartupAssumption DEF Busy, Runs
  <2>3. CASE d # c /\ Home[d] # Home[c]
    BY <2>3, <1>1, <1>2, <1>5 DEF Busy, Runs
  <2> QED BY <2>1, <2>2, <2>3
<1>8. Control'
  <2>1. \A j \in Instance :
          running'[j] # None => Home[running'[j]] = j /\ running'[j] \notin ready'
    BY <1>1, <1>5 DEF SetUp, Control
  <2>2. \A d \in Call : answer'[d] = "unmade" => stack'[d] = <<>>
    BY <1>1 DEF SetUp, Control, UnderWay
  <2>3. \A d \in Call : stack'[d] # <<>> <=> Busy(d)' \/ waiting'[d] # "nothing"
    BY <1>1, <1>3, <1>5, <1>7 DEF SetUp, Control, UnderWay
  <2>4. \A d \in Call : waiting'[d] # "nothing" =>
          ~Busy(d)' /\ Head(stack'[d]).of = (IF waiting'[d] = "end" THEN "end" ELSE "statement")
    BY <1>1, <1>5, <1>7 DEF SetUp, Control, Top
  <2>5. \A d, e \in Call : Busy(d)' /\ Busy(e)' /\ Home[d] = Home[e] => d = e
    BY <1>7 DEF SetUp, Control
  <2> QED BY <2>1, <2>2, <2>3, <2>4, <2>5 DEF Control, UnderWay, Top
<1>9. Stacks' /\ Objects'
  BY <1>1 DEF SetUp, Stacks, Objects, UnderWay
<1> QED BY <1>4, <1>8, <1>9 DEF SetUp

LEMMA ThrowingSetUp ==
  ASSUME SetUp, NEW calls \in SUBSET Call, Throwing(calls)
  PROVE  SetUp'
<1>1. /\ \A c \in calls : UnderWay(c)
      /\ stack' = [c \in Call |-> IF c \in calls THEN <<>> ELSE stack[c]]
      /\ answer' = [c \in Call |-> IF c \in calls THEN "threw" ELSE answer[c]]
      /\ running' = [i \in Instance |-> IF running[i] \in calls THEN None ELSE running[i]]
      /\ ready' = ready \ calls
      /\ waiting' = [c \in Call |-> IF c \in calls THEN "nothing" ELSE waiting[c]]
      /\ UNCHANGED <<registry, parts>>
  BY DEF Throwing, Throw, objects
<1>2. Types'
  BY <1>1 DEF SetUp, Types, Answer, Value
<1>3. \A d \in Call : Home[d] \in Instance
  BY HomeAssumption
<1>4. \A d \in Call : Busy(d)' <=> Busy(d) /\ d \notin calls
  BY <1>1, <1>3, StartupAssumption DEF Busy, Runs
<1>5. Control'
  <2>1. \A j \in Instance :
          running'[j] # None => Home[running'[j]] = j /\ running'[j] \notin ready'
    BY <1>1 DEF SetUp, Control
  <2>2. \A d \in Call : answer'[d] = "unmade" => stack'[d] = <<>>
    BY <1>1 DEF SetUp, Control, UnderWay
  <2>3. \A d \in Call : stack'[d] # <<>> <=> Busy(d)' \/ waiting'[d] # "nothing"
    BY <1>1, <1>4 DEF SetUp, Control, UnderWay
  <2>4. \A d \in Call : waiting'[d] # "nothing" =>
          ~Busy(d)' /\ Head(stack'[d]).of = (IF waiting'[d] = "end" THEN "end" ELSE "statement")
    BY <1>1, <1>4 DEF SetUp, Control, Top
  <2>5. \A d, e \in Call : Busy(d)' /\ Busy(e)' /\ Home[d] = Home[e] => d = e
    BY <1>4 DEF SetUp, Control
  <2> QED BY <2>1, <2>2, <2>3, <2>4, <2>5 DEF Control, UnderWay, Top
<1>6. Stacks' /\ Objects'
  BY <1>1 DEF SetUp, Stacks, Objects, UnderWay
<1> QED BY <1>2, <1>5, <1>6 DEF SetUp

(* A call is made alone.                                                    *)
LEMMA CallSetUp ==
  ASSUME SetUp, MaxTogether = 1, NEW c \in Call, call(c)
  PROVE  SetUp'
<1> DEFINE together == {d \in ready : Home[d] = Home[c]}
<1>1. /\ answer[c] = "unmade" /\ running[Home[c]] = None
      /\ Cardinality(together) < 1
      /\ stack' = [stack EXCEPT ![c] = <<Frame(Function[c])>>]
      /\ answer' = [answer EXCEPT ![c] = "entered"]
      /\ ready' = ready \cup {c}
      /\ UNCHANGED <<registry, parts, running, waiting>>
  BY DEF call, objects
<1>2. Function[c] \in Api
  BY StartupAssumption DEF Api
<1>3. StackOK(<<Frame(Function[c])>>, "entered", Function[c], registry[Home[c]])
  BY <1>2, Called
<1> DEFINE s == <<Frame(Function[c])>>
<1> HIDE DEF s
<1>4. s \in Seq(FrameType) /\ s # <<>> /\ StackOK(s, "entered", Function[c], registry[Home[c]])
  BY <1>3 DEF StackOK, s
<1>5. Types'
  BY <1>1, <1>4 DEF SetUp, Types, Answer, s
<1>6. /\ stack'[c] = s /\ answer'[c] = "entered"
      /\ \A d \in Call : d # c => stack'[d] = stack[d] /\ answer'[d] = answer[d]
  BY <1>1 DEF SetUp, Types, s
<1>7. together = {}
  <2> SUFFICES ASSUME NEW d \in together
               PROVE  FALSE
    OBVIOUS
  <2>1. together = {d}
    BY DEF SetUp, Types, Control, Busy
  <2>2. Cardinality({d}) = 1
    BY FS_Singleton
  <2>3. Cardinality(together) < 1
    BY <1>1
  <2> HIDE DEF together
  <2> QED BY <2>1, <2>2, <2>3
<1>8. \A d \in Call : Home[d] = Home[c] => ~Busy(d)
  BY <1>1, <1>7, StartupAssumption DEF Busy, Runs
<1>9. ~UnderWay(c) /\ waiting[c] = "nothing"
  BY <1>1 DEF SetUp, Control
<1>10. \A d \in Call : Busy(d)' <=> Busy(d) \/ d = c
  BY <1>1 DEF Busy, Runs
<1>11. Control'
  <2>1. \A j \in Instance :
          running'[j] # None => Home[running'[j]] = j /\ running'[j] \notin ready'
    BY <1>1 DEF SetUp, Control
  <2>2. \A d \in Call : answer'[d] = "unmade" => stack'[d] = <<>>
    BY <1>6 DEF SetUp, Control, UnderWay
  <2>3. \A d \in Call : stack'[d] # <<>> <=> Busy(d)' \/ waiting'[d] # "nothing"
    BY <1>1, <1>4, <1>6, <1>10 DEF SetUp, Control, UnderWay
  <2>4. \A d \in Call : waiting'[d] # "nothing" =>
          ~Busy(d)' /\ Head(stack'[d]).of = (IF waiting'[d] = "end" THEN "end" ELSE "statement")
    BY <1>1, <1>6, <1>9, <1>10 DEF SetUp, Control, Top
  <2>5. \A d, e \in Call : Busy(d)' /\ Busy(e)' /\ Home[d] = Home[e] => d = e
    BY <1>8, <1>10 DEF SetUp, Control
  <2> QED BY <2>1, <2>2, <2>3, <2>4, <2>5 DEF Control, UnderWay, Top
<1>12. Stacks' /\ Objects'
  <2>1. \A d \in Call : stack'[d] # <<>> =>
          StackOK(stack'[d], answer'[d], Function[d], registry'[Home[d]])
    BY <1>1, <1>4, <1>6 DEF SetUp, Stacks, UnderWay
  <2> QED BY <1>1, <2>1 DEF SetUp, Stacks, Objects, UnderWay
<1> QED BY <1>5, <1>11, <1>12 DEF SetUp

LEMMA RunSetUp ==
  ASSUME SetUp, NEW c \in Call, run(c)
  PROVE  SetUp'
<1>1. /\ c \in ready /\ running[Home[c]] = None
      /\ running' = [running EXCEPT ![Home[c]] = c]
      /\ ready' = ready \ {c}
      /\ UNCHANGED <<registry, parts, stack, answer, waiting>>
  BY DEF run, objects
<1>2. \A d \in Call : Home[d] \in Instance
  BY HomeAssumption
<1>3. Types'
  BY <1>1 DEF SetUp, Types, Value
<1>4. /\ running'[Home[c]] = c
      /\ \A j \in Instance : j # Home[c] => running'[j] = running[j]
  BY <1>1, <1>2 DEF SetUp, Types
<1>5. \A d \in Call : Busy(d)' <=> Busy(d)
  <2> TAKE d \in Call
  <2>1. CASE d = c
    BY <2>1, <1>1, <1>4 DEF Busy, Runs
  <2>2. CASE d # c /\ Home[d] = Home[c]
    BY <2>2, <1>1, <1>4, StartupAssumption DEF Busy, Runs
  <2>3. CASE d # c /\ Home[d] # Home[c]
    BY <2>3, <1>1, <1>2, <1>4 DEF Busy, Runs
  <2> QED BY <2>1, <2>2, <2>3
<1>6. Control'
  <2>1. \A j \in Instance :
          running'[j] # None => Home[running'[j]] = j /\ running'[j] \notin ready'
    BY <1>1, <1>4 DEF SetUp, Control
  <2> QED BY <1>1, <1>5, <2>1 DEF SetUp, Control, UnderWay, Top
<1>7. Stacks' /\ Objects'
  BY <1>1 DEF SetUp, Stacks, Objects, UnderWay
<1> QED BY <1>3, <1>6, <1>7 DEF SetUp

(* A pool that is ready changes only what calls wait for.                   *)
LEMMA ConnectedSetUp ==
  ASSUME SetUp, NEW e \in Call, connected(e)
  PROVE  SetUp'
<1>1. /\ waiting' = [c \in Call |-> IF c \in Waits("connection", e) THEN "answer"
                                     ELSE waiting[c]]
      /\ UNCHANGED <<registry, parts, stack, answer, running, ready>>
  BY DEF connected, objects
<1>2. \A c \in Call : waiting'[c] = waiting[c] \/ (waiting[c] = "connection" /\ waiting'[c] = "answer")
  BY <1>1 DEF Waits
<1>3. Types'
  BY <1>1 DEF SetUp, Types
<1>4. Control'
  BY <1>1, <1>2 DEF SetUp, Control, UnderWay, Top, Busy, Runs
<1>5. Stacks' /\ Objects'
  BY <1>1 DEF SetUp, Stacks, Objects, UnderWay
<1> QED BY <1>3, <1>4, <1>5 DEF SetUp

(* An instance that goes away takes its calls and its objects with it.      *)
LEMMA EmptyFields ==
  ASSUME NEW i \in Instance, NEW made \in Made
  PROVE  LET made2 == [g \in Getter |-> [c \in Call |-> IF Home[c] = i THEN <<>> ELSE made[g][c]]]
         IN  made2 \in Made /\ ObjectsOK(i, [g \in Getter |-> None], made2)
BY DEF Made, ObjectsOK

LEMMA RegistryReset ==
  ASSUME SetUp, NEW i \in Instance,
         registry' = [registry EXCEPT ![i] = [g \in Getter |-> None]],
         parts' = [g \in Getter |-> [c \in Call |-> IF Home[c] = i THEN <<>> ELSE parts[g][c]]]
  PROVE  registry' \in [Instance -> Fields] /\ parts' \in Made /\ Objects'
<1>1. [g \in Getter |-> None] \in Fields
  BY DEF Fields, Value
<1>2. /\ registry' \in [Instance -> Fields]
      /\ registry'[i] = [g \in Getter |-> None]
      /\ \A j \in Instance : j # i => registry'[j] = registry[j]
  BY <1>1 DEF SetUp, Types
<1>3. parts' \in Made /\ ObjectsOK(i, registry'[i], parts')
  BY <1>2, EmptyFields DEF SetUp, Types
<1>4. ASSUME NEW j \in Instance, j # i
      PROVE  ObjectsOK(j, registry'[j], parts')
  <2>1. ObjectsOK(j, registry[j], parts) /\ registry[j] \in Fields
    BY DEF SetUp, Types, Objects
  <2>2. \A g \in Getter : \A c \in Call : Home[c] = j => parts'[g][c] = parts[g][c]
    BY <1>4
  <2>3. ObjectsOK(j, registry[j], parts')
    BY <2>1, <2>2, ObjectsElsewhere
  <2> QED BY <1>2, <1>4, <2>3
<1> QED BY <1>2, <1>3, <1>4 DEF Objects

LEMMA CrashSetUp ==
  ASSUME SetUp, NEW i \in Instance, crash(i)
  PROVE  SetUp'
<1> DEFINE dead == {c \in Call : Home[c] = i /\ UnderWay(c)}
<1>1. /\ running[i] = None
      /\ stack' = [c \in Call |-> IF c \in dead THEN <<>> ELSE stack[c]]
      /\ answer' = [c \in Call |-> IF c \in dead THEN "threw" ELSE answer[c]]
      /\ running' = [running EXCEPT ![i] = None]
      /\ ready' = ready \ dead
      /\ waiting' = [c \in Call |-> IF c \in dead THEN "nothing" ELSE waiting[c]]
      /\ registry' = [registry EXCEPT ![i] = [g \in Getter |-> None]]
      /\ parts' = [g \in Getter |-> [c \in Call |-> IF Home[c] = i THEN <<>> ELSE parts[g][c]]]
  BY DEF crash
<1>2. registry' \in [Instance -> Fields] /\ parts' \in Made /\ Objects'
  BY <1>1, RegistryReset
<1>3. running' = running
  BY <1>1 DEF SetUp, Types
<1>4. Types'
  <2>1. stack' \in [Call -> Seq(FrameType)] /\ answer' \in [Call -> Answer]
        /\ waiting' \in [Call -> {"nothing", "connection", "answer", "end"}]
    BY <1>1 DEF SetUp, Types, Answer
  <2> QED BY <1>1, <1>2, <1>3, <2>1 DEF SetUp, Types
<1>5. \A d \in Call : Busy(d)' <=> Busy(d) /\ d \notin dead
  BY <1>1, <1>3, StartupAssumption DEF Busy, Runs
<1>6. Control'
  <2>1. \A j \in Instance :
          running'[j] # None => Home[running'[j]] = j /\ running'[j] \notin ready'
    BY <1>1, <1>3 DEF SetUp, Control
  <2>2. \A d \in Call : answer'[d] = "unmade" => stack'[d] = <<>>
    BY <1>1 DEF SetUp, Control, UnderWay
  <2>3. \A d \in Call : stack'[d] # <<>> <=> Busy(d)' \/ waiting'[d] # "nothing"
    BY <1>1, <1>5 DEF SetUp, Control, UnderWay
  <2>4. \A d \in Call : waiting'[d] # "nothing" =>
          ~Busy(d)' /\ Head(stack'[d]).of = (IF waiting'[d] = "end" THEN "end" ELSE "statement")
    BY <1>1, <1>5 DEF SetUp, Control, Top
  <2>5. \A d, e \in Call : Busy(d)' /\ Busy(e)' /\ Home[d] = Home[e] => d = e
    BY <1>5 DEF SetUp, Control
  <2> QED BY <2>1, <2>2, <2>3, <2>4, <2>5 DEF Control, UnderWay, Top
<1>7. Stacks'
  <2> SUFFICES ASSUME NEW d \in Call, stack'[d] # <<>>
               PROVE  StackOK(stack'[d], answer'[d], Function[d], registry'[Home[d]])
    BY DEF Stacks, UnderWay
  <2>1. d \notin dead /\ UnderWay(d) /\ stack'[d] = stack[d] /\ answer'[d] = answer[d]
    BY <1>1 DEF UnderWay
  <2>2. Home[d] # i /\ Home[d] \in Instance
    BY <2>1, HomeAssumption
  <2>3. registry'[Home[d]] = registry[Home[d]]
    BY <1>1, <2>2 DEF SetUp, Types
  <2> QED BY <2>1, <2>3 DEF SetUp, Stacks
<1> QED BY <1>2, <1>4, <1>6, <1>7 DEF SetUp

LEMMA AnotherSetUp ==
  ASSUME SetUp, NEW i \in Instance, another(i)
  PROVE  SetUp'
<1>1. /\ \A c \in Call : Home[c] = i => ~UnderWay(c)
      /\ registry' = [registry EXCEPT ![i] = [g \in Getter |-> None]]
      /\ parts' = [g \in Getter |-> [c \in Call |-> IF Home[c] = i THEN <<>> ELSE parts[g][c]]]
      /\ UNCHANGED <<stack, answer, running, ready, waiting>>
  BY DEF another, control
<1>2. registry' \in [Instance -> Fields] /\ parts' \in Made /\ Objects'
  BY <1>1, RegistryReset
<1>3. Types'
  BY <1>1, <1>2 DEF SetUp, Types
<1>4. Control'
  BY <1>1 DEF SetUp, Control, UnderWay, Top, Busy, Runs
<1>5. Stacks'
  <2> SUFFICES ASSUME NEW d \in Call, stack[d] # <<>>
               PROVE  StackOK(stack[d], answer[d], Function[d], registry'[Home[d]])
    BY <1>1 DEF Stacks, UnderWay
  <2>1. UnderWay(d) /\ Home[d] # i /\ Home[d] \in Instance
    BY <1>1, HomeAssumption DEF UnderWay
  <2>2. registry'[Home[d]] = registry[Home[d]]
    BY <1>1, <2>1 DEF SetUp, Types
  <2> QED BY <2>1, <2>2 DEF SetUp, Stacks
<1> QED BY <1>2, <1>3, <1>4, <1>5 DEF SetUp

LEMMA SameStack ==
  ASSUME NEW S, NEW s \in Seq(S), s # <<>>, NEW x \in S, NEW y \in S
  PROVE  /\ <<x>> \o s = <<x, s[1]>> \o Tail(s)
         /\ Len(s) = 1 => <<x, y>> = <<x, y>> \o Tail(s)
<1> DEFINE t == Tail(s)
           one == <<x>>
           two == <<x, s[1]>>
<1>1. Len(s) \in Nat /\ Len(s) >= 1 /\ t \in Seq(S) /\ Len(t) = Len(s) - 1 /\ s[1] \in S
      /\ \A j \in 1 .. Len(t) : t[j] = s[j + 1]
  OBVIOUS
<1>2. /\ one \in Seq(S) /\ Len(one) = 1 /\ one[1] = x
      /\ two \in Seq(S) /\ Len(two) = 2 /\ two[1] = x /\ two[2] = s[1]
  BY <1>1
<1> HIDE DEF t, one, two
<1>3. /\ one \o s \in Seq(S) /\ Len(one \o s) = 1 + Len(s)
      /\ \A j \in 1 .. 1 + Len(s) : (one \o s)[j] = IF j <= 1 THEN one[j] ELSE s[j - 1]
  <2>1. /\ one \o s \in Seq(S) /\ Len(one \o s) = Len(one) + Len(s)
        /\ \A j \in 1 .. Len(one) + Len(s) :
             (one \o s)[j] = IF j <= Len(one) THEN one[j] ELSE s[j - Len(one)]
    BY <1>2, ConcatProperties
  <2> QED BY <1>2, <2>1
<1>4. /\ two \o t \in Seq(S) /\ Len(two \o t) = 1 + Len(s)
      /\ \A j \in 1 .. 1 + Len(s) : (two \o t)[j] = IF j <= 2 THEN two[j] ELSE t[j - 2]
  <2>1. 2 + Len(t) = 1 + Len(s)
    BY <1>1
  <2>2. /\ two \o t \in Seq(S) /\ Len(two \o t) = Len(two) + Len(t)
        /\ \A j \in 1 .. Len(two) + Len(t) :
             (two \o t)[j] = IF j <= Len(two) THEN two[j] ELSE t[j - Len(two)]
    <3>1. two \in Seq(S) /\ t \in Seq(S)
      BY <1>1, <1>2
    <3> QED BY <3>1, ConcatProperties
  <2> QED BY <1>2, <2>1, <2>2
<1>5. ASSUME NEW j \in 1 .. 1 + Len(s)
      PROVE  (one \o s)[j] = (two \o t)[j]
  <2>1. CASE j = 1
    BY <2>1, <1>1, <1>2, <1>3, <1>4
  <2>2. CASE j = 2
    BY <2>2, <1>1, <1>2, <1>3, <1>4
  <2>3. CASE j > 2
    <3>1. j - 2 \in 1 .. Len(t) /\ (j - 2) + 1 = j - 1
      BY <2>3, <1>1
    <3>2. t[j - 2] = s[j - 1]
      BY <3>1, <1>1
    <3> QED BY <2>3, <3>2, <1>1, <1>3, <1>4
  <2>4. j = 1 \/ j = 2 \/ j > 2
    BY <1>1
  <2> QED BY <2>1, <2>2, <2>3, <2>4
<1>6. one \o s = two \o t
  BY <1>3, <1>4, <1>5, SeqEqual
<1>7. ASSUME Len(s) = 1
      PROVE  <<x, y>> = <<x, y>> \o t
  <2>1. t = <<>>
    BY <1>1, <1>7
  <2>2. <<x, y>> \in Seq(S)
    OBVIOUS
  <2> QED BY <2>1, <2>2, ConcatEmptySeq
<1> QED BY <1>6, <1>7 DEF one, two, t

LEMMA FrameChange ==
  ASSUME NEW frame \in FrameType, NEW v
  PROVE  [frame EXCEPT !.got = v] = [of |-> frame.of, got |-> v]
BY DEF FrameType

(* What the code of a call does is one of these steps.                      *)
LEMMA CodeSteps ==
  ASSUME SetUp, NEW c \in Call, Code(c)
  PROVE  Entering(c) \/ Returning(c) \/ Building(c) \/ Awaiting(c) \/ Throwing({c})
<1> DEFINE s == stack[c]
           fields == registry[Home[c]]
           frame == Resumed(s, answer[c])
<1>0. Runs(c) /\ Goes(c)
  BY DEF Code, getter, resumeGetter, build, api, migrations, resumeMigrations, execSqlite,
         execPostgres, close, closeSqlite, Goes
<1>1. /\ UnderWay(c) /\ StackOK(s, answer[c], Function[c], fields)
      /\ fields \in Fields /\ Function[c] \in Api
      /\ s \in Seq(FrameType) /\ answer[c] \in Answer /\ s # <<>>
      /\ Top(c) = s[1] /\ Top(c) \in FrameType /\ 1 \in 1 .. Len(s)
      /\ Tail(s) \in Seq(FrameType)
  BY <1>0, GoingCalls
<1>2. frame \in FrameType /\ frame.of = Top(c).of /\ FrameOK(frame, fields)
  BY <1>1, ResumedOK
<1>3. PlaceOK(s, answer[c], fields, 1)
  BY <1>1 DEF StackOK
<1>4. FrameOK(Top(c), fields)
      /\ (Top(c).of \in Api => Len(s) = 1)
      /\ (Top(c).of \in Getter /\ answer[c] # "entered" => fields[Top(c).of] = None)
  BY <1>1, <1>3 DEF PlaceOK
<1>5. answer[c] = "entered" => Top(c).got = <<>>
  BY <1>1 DEF StackOK
<1>6. answer[c] # "entered" => InAwait(Top(c))
  BY <1>1 DEF StackOK
<1>7. Top(c).of \in Name /\ Top(c).got \in Seq(Answer)
  BY <1>1 DEF FrameType
<1>8. \A x, y \in FrameType : /\ <<x>> \o s = <<x, Top(c)>> \o Tail(s)
                             /\ Len(s) = 1 => <<x, y>> = <<x, y>> \o Tail(s)
  BY <1>1, SameStack
<1>20. \A x \in FrameType : InAwait(x) => Frame(Awaited(x)) \in FrameType
  BY AwaitedFacts DEF Frame, FrameType
<1>9. None \in Value /\ c \in Value
  BY DEF Value
<1> HIDE DEF frame, s
<1>10. CASE getter(c)
  <2> DEFINE g == Top(c).of
  <2>1. /\ g \in Getter /\ answer[c] = "entered" /\ NeedsOf(g) = Needs[g]
        /\ Needs[g] \in Seq(Name)
    BY <1>10, NeedsFacts, NeedsOfFacts DEF getter
  <2>2. CASE Field(c, g) # None /\ Return(c, Field(c, g)) /\ UNCHANGED objects
    <3>1. Field(c, g) \in Value
      BY <1>1, <2>1 DEF Field, Fields
    <3> QED BY <1>0, <2>2, <3>1 DEF Returning
  <2>3. CASE Field(c, g) = None /\ Needs[g] = <<>> /\ Build(c, g, <<>>)
    <3>1. <<>> \in Seq(Answer) /\ Len(Needs[g]) = 0
      BY <2>3
    <3>2. \A k \in 1 .. Len(Needs[g]) : Needs[g][k] \in Getter =>
            <<>>[k] = Field(c, Needs[g][k]) /\ <<>>[k] # None
      BY <3>1
    <3> QED BY <1>0, <2>1, <2>3, <3>1, <3>2 DEF Building
  <2>4. CASE /\ Field(c, g) = None /\ Needs[g] # <<>>
             /\ Enter(c, <<Frame(Needs[g][1])>> \o s)
             /\ UNCHANGED objects
    <3>1. Len(Top(c).got) = 0 /\ Len(Needs[g]) > 0
      BY <1>5, <2>1, <2>4
    <3>2. InAwait(Top(c)) /\ Awaited(Top(c)) = Needs[g][1]
      BY <2>1, <3>1, Names DEF InAwait, Awaited
    <3>3. Enter(c, <<Frame(Awaited(Top(c))), Top(c)>> \o Tail(s))
      <4>1. <<Frame(Awaited(Top(c)))>> \o s = <<Frame(Awaited(Top(c))), Top(c)>> \o Tail(s)
        BY <1>1, <1>8, <1>20, <3>2
      <4> QED BY <2>4, <3>2, <4>1 DEF Enter
    <3> QED BY <1>0, <1>1, <1>4, <2>4, <3>2, <3>3 DEF Entering, s
  <2> QED BY <1>10, <2>2, <2>3, <2>4 DEF getter, s
<1>11. CASE resumeGetter(c)
  <2> DEFINE g == Top(c).of
             got == Append(Top(c).got, answer[c])
  <2>1. /\ g \in Getter /\ answer[c] # "entered" /\ NeedsOf(g) = Needs[g]
        /\ Needs[g] \in Seq(Name) /\ g # "migrations"
    BY <1>11, NeedsFacts, NeedsOfFacts, Names DEF resumeGetter
  <2>2. frame = [of |-> g, got |-> got]
    BY <1>1, <2>1 DEF Resumed, frame, s
  <2>3. frame.of = g /\ frame.got = got /\ got \in Seq(Answer)
    BY <1>1, <1>7, <2>2
  <2>4. fields[g] = None
    BY <1>4, <2>1
  <2>5. CASE /\ Len(got) < Len(Needs[g])
             /\ Enter(c, <<Frame(Needs[g][Len(got) + 1]), frame>> \o Tail(s))
             /\ UNCHANGED objects
    <3>1. InAwait(frame) /\ Awaited(frame) = Needs[g][Len(got) + 1]
      BY <2>1, <2>3, <2>5 DEF InAwait, Awaited
    <3>2. Enter(c, <<Frame(Awaited(frame)), frame>> \o Tail(s))
      BY <2>5, <3>1
    <3> QED BY <1>0, <1>2, <2>4, <2>5, <3>1, <3>2 DEF Entering, Field, s
  <2>6. CASE ~(Len(got) < Len(Needs[g])) /\ Build(c, g, got)
    <3>1. Len(got) <= Len(Needs[g])
      BY <1>2, <2>1, <2>3 DEF FrameOK
    <3>2. Len(got) = Len(Needs[g])
      BY <2>1, <2>3, <2>6, <3>1
    <3>3. \A k \in 1 .. Len(Needs[g]) : Needs[g][k] \in Getter =>
            got[k] = fields[Needs[g][k]] /\ got[k] # None
      BY <1>2, <2>1, <2>3, <3>2 DEF FrameOK
    <3> QED BY <1>0, <2>1, <2>3, <2>4, <2>6, <3>3 DEF Building, Field
  <2> QED BY <1>11, <2>2, <2>5, <2>6 DEF resumeGetter, s
<1>12. CASE build(c)
  BY <1>0, <1>9, <1>12, Names DEF build, Returning
<1>13. CASE api(c)
  <2> DEFINE f == Top(c).of
  <2>1. /\ f \in Api /\ NeedsOf(f) = Awaits[f] /\ f # "migrations" /\ f \notin Getter
        /\ UNCHANGED objects
    BY <1>13, NeedsOfFacts, Names DEF api, Api
  <2>2. Continue(c, frame)
    <3>1. frame = IF answer[c] = "entered" THEN Top(c)
                  ELSE [Top(c) EXCEPT !.got = Append(@, answer[c])]
      <4>1. [Top(c) EXCEPT !.got = Append(@, answer[c])]
              = [of |-> f, got |-> Append(Top(c).got, answer[c])]
        BY <1>1, FrameChange
      <4> QED BY <1>1, <2>1, <4>1 DEF Resumed, frame, s
    <3> QED BY <1>13, <3>1 DEF api
  <2>3. CASE Len(frame.got) < Len(Awaits[f])
    <3>1. InAwait(frame) /\ Awaited(frame) = Awaits[f][Len(frame.got) + 1]
      BY <1>2, <2>1, <2>3 DEF InAwait, Awaited
    <3>2. Enter(c, <<Frame(Awaited(frame)), frame>>)
      BY <1>2, <2>2, <2>3, <3>1 DEF Continue
    <3>3. Enter(c, <<Frame(Awaited(frame)), frame>> \o Tail(s))
      <4>1. <<Frame(Awaited(frame)), frame>> = <<Frame(Awaited(frame)), frame>> \o Tail(s)
        <5>1. Frame(Awaited(frame)) \in FrameType /\ frame \in FrameType
          BY <1>2, <1>20, <3>1
        <5>2. Len(s) = 1
          BY <1>4, <2>1
        <5>3. ASSUME NEW x \in FrameType, NEW y \in FrameType
              PROVE  <<x, y>> = <<x, y>> \o Tail(s)
          <6>1. s \in Seq(FrameType) /\ s # <<>>
            BY <1>1
          <6> QED BY <5>2, <5>3, <6>1, SameStack
        <5> QED BY <5>1, <5>3
      <4> QED BY <3>2, <4>1 DEF Enter
    <3> QED BY <1>0, <1>2, <2>1, <3>1, <3>3 DEF Entering, s
  <2>4. CASE ~(Len(frame.got) < Len(Awaits[f]))
    <3>1. Return(c, None)
      BY <1>2, <2>2, <2>4 DEF Continue
    <3> QED BY <1>0, <1>9, <2>1, <3>1 DEF Returning
  <2> QED BY <2>3, <2>4
<1>14. CASE migrations(c)
  <2>1. /\ Top(c).of = "migrations" /\ "migrations" \notin Getter
        /\ answer[c] = "entered" /\ UNCHANGED objects
    BY <1>14, Names DEF migrations
  <2>2. CASE Return(c, None)
    BY <1>0, <1>9, <2>1, <2>2 DEF Returning
  <2>3. CASE Enter(c, <<Frame("storage")>> \o s)
    <3>1. InAwait(Top(c)) /\ Awaited(Top(c)) = "storage"
      BY <1>5, <2>1 DEF InAwait, Awaited
    <3>2. Enter(c, <<Frame(Awaited(Top(c))), Top(c)>> \o Tail(s))
      <4>1. <<Frame(Awaited(Top(c)))>> \o s = <<Frame(Awaited(Top(c))), Top(c)>> \o Tail(s)
        BY <1>1, <1>8, <1>20, <3>1
      <4> QED BY <2>3, <3>1, <4>1 DEF Enter
    <3> QED BY <1>0, <1>1, <1>4, <2>1, <3>1, <3>2 DEF Entering, s
  <2> QED BY <1>14, <2>2, <2>3 DEF migrations, s
<1>15. CASE resumeMigrations(c)
  <2> DEFINE resumed == [Top(c) EXCEPT !.got = IF @ = <<>> THEN <<answer[c]>> ELSE @]
  <2>1. /\ Top(c).of = "migrations" /\ "migrations" \notin Getter
        /\ answer[c] # "entered" /\ UNCHANGED objects
    BY <1>15, Names DEF resumeMigrations
  <2>2. frame = resumed
    <3>1. CASE Top(c).got = <<>>
      <4>1. resumed = [of |-> Top(c).of, got |-> <<answer[c]>>]
        BY <1>1, <3>1 DEF FrameType
      <4>2. Append(Top(c).got, answer[c]) = <<answer[c]>>
        BY <3>1
      <4>3. frame = [of |-> Top(c).of, got |-> Append(Top(c).got, answer[c])]
        BY <1>1, <2>1, <3>1 DEF Resumed, frame, s
      <4> QED BY <4>1, <4>2, <4>3
    <3>2. CASE Top(c).got # <<>>
      <4>1. resumed = Top(c)
        BY <1>1, <3>2 DEF FrameType
      <4>2. frame = Top(c)
        BY <1>1, <2>1, <3>2 DEF Resumed, frame, s
      <4> QED BY <4>1, <4>2
    <3> QED BY <3>1, <3>2
  <2>3. resumed.got # <<>>
    BY <1>1 DEF FrameType
  <2> HIDE DEF resumed
  <2>4. CASE Return(c, None)
    BY <1>0, <1>9, <2>1, <2>4 DEF Returning
  <2>5. CASE Throw({c})
    BY <1>1, <2>1, <2>5 DEF Throwing
  <2>6. CASE Enter(c, <<Frame("statement"), frame>> \o Tail(s))
    <3>1. InAwait(frame) /\ Awaited(frame) = "statement"
      BY <1>2, <2>1, <2>2, <2>3 DEF InAwait, Awaited
    <3>2. Enter(c, <<Frame(Awaited(frame)), frame>> \o Tail(s))
      BY <2>6, <3>1
    <3> QED BY <1>0, <1>2, <2>1, <3>1, <3>2 DEF Entering, s
  <2> QED BY <1>15, <2>2, <2>4, <2>5, <2>6 DEF resumeMigrations, resumed, s
<1>16. CASE execSqlite(c)
  <2>1. Top(c).of = "statement" /\ "statement" \notin Getter /\ UNCHANGED objects
        /\ (Return(c, None) \/ Throw({c}))
    BY <1>16, Names DEF execSqlite
  <2> QED BY <1>0, <1>1, <1>9, <2>1 DEF Returning, Throwing
<1>17. CASE execPostgres(c)
  <2>1. Top(c).of = "statement" /\ UNCHANGED objects
        /\ (Await(c, "answer") \/ Await(c, "connection") \/ Throw({c}))
    BY <1>17 DEF execPostgres
  <2> QED BY <1>0, <1>1, <2>1 DEF Awaiting, Throwing
<1>18. CASE close(c)
  <2>1. Top(c).of = "end" /\ "end" \notin Getter /\ UNCHANGED objects
        /\ (Return(c, None) \/ Await(c, "end") \/ Throw({c}))
    BY <1>18, Names DEF close
  <2> QED BY <1>0, <1>1, <1>9, <2>1 DEF Returning, Awaiting, Throwing
<1>19. CASE closeSqlite(c)
  <2>1. Top(c).of = "end" /\ "end" \notin Getter /\ UNCHANGED objects
        /\ (Return(c, None) \/ Throw({c}))
    BY <1>19, Names DEF closeSqlite
  <2> QED BY <1>0, <1>1, <1>9, <2>1 DEF Returning, Throwing
<1> QED
  BY <1>10, <1>11, <1>12, <1>13, <1>14, <1>15, <1>16, <1>17, <1>18, <1>19 DEF Code

LEMMA SetUpInit == StartupInit => SetUp
<1> SUFFICES ASSUME StartupInit
             PROVE  SetUp
  OBVIOUS
<1>1. /\ registry = [i \in Instance |-> [g \in Getter |-> None]]
      /\ parts = [g \in Getter |-> [c \in Call |-> <<>>]]
      /\ stack = [c \in Call |-> <<>>]
      /\ answer = [c \in Call |-> "unmade"]
      /\ running = [i \in Instance |-> None]
      /\ ready = {}
      /\ waiting = [c \in Call |-> "nothing"]
  BY DEF StartupInit
<1>2. Types
  BY <1>1 DEF Types, Fields, Made, Answer, Value
<1>3. \A c \in Call : ~Busy(c)
  BY <1>1, HomeAssumption, StartupAssumption DEF Busy, Runs
<1>4. Control
  BY <1>1, <1>3 DEF Control, UnderWay
<1>5. Stacks
  BY <1>1 DEF Stacks, UnderWay
<1>6. Objects
  BY <1>1 DEF Objects, ObjectsOK
<1> QED BY <1>2, <1>4, <1>5, <1>6 DEF SetUp

LEMMA DatabaseSteps ==
  ASSUME SetUp, NEW c \in Call, Database(c)
  PROVE  \/ connected(c)
         \/ Returning(c)
         \/ \E calls \in SUBSET Call : Throwing(calls)
<1>1. CASE connected(c)
  BY <1>1
<1>2. CASE connectionFails(c)
  <2>1. Throw(Waits("connection", c)) /\ UNCHANGED objects
    BY <1>2 DEF connectionFails
  <2>2. Waits("connection", c) \in SUBSET Call
    BY DEF Waits
  <2>3. \A d \in Waits("connection", c) : UnderWay(d)
    BY DEF SetUp, Control, Waits
  <2> QED BY <2>1, <2>2, <2>3 DEF Throwing
<1>3. CASE answered(c) \/ ended(c)
  <2>1. waiting[c] # "nothing" /\ Goes(c) /\ UNCHANGED objects
        /\ (Return(c, None) \/ Throw({c}))
    BY <1>3 DEF answered, ended, Goes
  <2>2. UnderWay(c) /\ Top(c).of \notin Getter
    BY <2>1, Names DEF SetUp, Control
  <2>3. None \in Value
    BY DEF Value
  <2> QED BY <2>1, <2>2, <2>3 DEF Returning, Throwing
<1> QED BY <1>1, <1>2, <1>3 DEF Database

LEMMA SetUpStep ==
  ASSUME MaxTogether = 1, SetUp, [StartupNext]_everything
  PROVE  SetUp'
<1>1. CASE UNCHANGED everything
  BY <1>1 DEF everything, objects, control, SetUp, Types, Control, Stacks, Objects, UnderWay,
              Top, Busy, Runs
<1>2. ASSUME NEW c \in Call, Code(c)
      PROVE  SetUp'
  <2>1. {c} \in SUBSET Call
    OBVIOUS
  <2> QED BY <1>2, <2>1, CodeSteps, EnteringSetUp, ReturningSetUp, BuildingSetUp,
             AwaitingSetUp, ThrowingSetUp
<1>3. ASSUME NEW c \in Call, Database(c)
      PROVE  SetUp'
  BY <1>3, DatabaseSteps, ConnectedSetUp, ReturningSetUp, ThrowingSetUp
<1>4. ASSUME NEW c \in Call, call(c) \/ run(c)
      PROVE  SetUp'
  BY <1>4, CallSetUp, RunSetUp
<1>5. ASSUME NEW i \in Instance, crash(i) \/ another(i)
      PROVE  SetUp'
  BY <1>5, CrashSetUp, AnotherSetUp
<1> QED BY <1>1, <1>2, <1>3, <1>4, <1>5 DEF StartupNext

LEMMA BuiltOnceHolds == SetUp => BuiltOnce
<1> SUFFICES ASSUME SetUp, NEW i \in Instance, NEW g \in Getter
             PROVE  Cardinality({c \in Call : Home[c] = i /\ parts[g][c] # <<>>}) <= 1
  BY DEF BuiltOnce
<1> DEFINE built == {c \in Call : Home[c] = i /\ parts[g][c] # <<>>}
<1>1. built \subseteq {registry[i][g]}
  BY DEF SetUp, Objects, ObjectsOK
<1> HIDE DEF built
<1>2. built = {} \/ built = {registry[i][g]}
  BY <1>1
<1>3. Cardinality({registry[i][g]}) = 1 /\ Cardinality({}) = 0
  BY FS_Singleton, FS_EmptySet
<1>4. Cardinality(built) <= 1
  BY <1>2, <1>3
<1> QED BY <1>4 DEF built

(* When first calls are made one at a time, whatever then interleaves, each *)
(* object of an instance is built once.                                     *)
THEOREM ObjectsAreBuiltOnce ==
  ASSUME MaxTogether = 1
  PROVE  StartupSpec => []BuiltOnce
<1>1. SetUp /\ [StartupNext]_everything => SetUp'
  BY SetUpStep
<1> QED BY <1>1, SetUpInit, BuiltOnceHolds, PTL DEF StartupSpec

-----------------------------------------------------------------------------
(* The pools.                                                               *)

StorageAt(i) == registry[i]["storage"]

PoolState(is, connection, pools) ==
  \/ is = "none" /\ connection = "none" /\ pools = 0
  \/ is = "none" /\ connection \in {"pending", "rejected"} /\ pools = 1
  \/ is \in {"open", "ending"} /\ connection = "resolved" /\ pools = 1

(* Only the storage of an instance has a pool that connects or is           *)
(* connected; who waits for it is still there, and one call at most ends it.*)
Pools ==
  /\ pool \in [Call -> {"none", "open", "ending"}]
  /\ connectionInProgress \in [Call -> {"none", "pending", "resolved", "rejected"}]
  /\ live \in [Call -> Int]
  /\ \A e \in Call : PoolState(pool[e], connectionInProgress[e], live[e])
  /\ \A e \in Call : connectionInProgress[e] \in {"pending", "resolved"} => StorageAt(Home[e]) = e
  /\ \A e \in Call : connectionInProgress[e] = "pending" =>
       \E c \in Call : Home[c] = Home[e] /\ waiting[c] = "connection"
  /\ \A e \in Call : pool[e] = "ending" =>
       \E c \in Call : Home[c] = Home[e] /\ waiting[c] = "end"
  /\ \A c \in Call : waiting[c] = "end" => pool[StorageAt(Home[c])] = "ending"
  /\ \A c, d \in Call : waiting[c] = "end" /\ waiting[d] = "end" /\ Home[c] = Home[d] => c = d

LEMMA EngineFacts ==
  ASSUME SetUp, NEW c \in Call, UnderWay(c), Top(c).of \in {"statement", "end"}
  PROVE  /\ Engine(c) = StorageAt(Home[c])
         /\ Engine(c) \in Call /\ Home[Engine(c)] = Home[c]
<1> DEFINE s == stack[c]
           frame == s[2]
<1>1. /\ Home[c] \in Instance /\ Function[c] \in Api
      /\ registry[Home[c]] \in Fields /\ ObjectsOK(Home[c], registry[Home[c]], parts)
      /\ StackOK(s, answer[c], Function[c], registry[Home[c]])
  BY HomeAssumption, StartupAssumption DEF SetUp, Types, Stacks, Objects, Api
<1>2. s[1].of \in {"statement", "end"}
  BY <1>1 DEF Top, StackOK
<1>3. /\ frame \in FrameType /\ InAwait(frame) /\ Awaited(frame) = s[1].of
      /\ FrameOK(frame, registry[Home[c]])
  BY <1>1, <1>2, Statements
<1>4. /\ EngineOf(frame, parts) = registry[Home[c]]["storage"]
      /\ registry[Home[c]]["storage"] \in Call
      /\ Home[registry[Home[c]]["storage"]] = Home[c]
  BY <1>1, <1>2, <1>3, EngineIsStorage
<1>5. Engine(c) = EngineOf(frame, parts)
  BY DEF Engine, EngineOf, StorageOf, Last
<1> QED BY <1>4, <1>5 DEF StorageAt

(* What the steps of a call leave alone.                                    *)
LEMMA CodeKeeps ==
  ASSUME SetUp, NEW c \in Call, Code(c)
  PROVE  /\ Runs(c) /\ waiting[c] = "nothing"
         /\ UnderWay(c) /\ Home[c] \in Instance
         /\ \A d \in Call : d # c => /\ waiting'[d] = waiting[d] /\ stack'[d] = stack[d]
                                     /\ answer'[d] = answer[d]
         /\ \A i \in Instance : StorageAt(i) # None => registry'[i]["storage"] = StorageAt(i)
<1>0. Runs(c)
  BY DEF Code, getter, resumeGetter, build, api, migrations, resumeMigrations, execSqlite,
         execPostgres, close, closeSqlite
<1>1. waiting[c] = "nothing" /\ UnderWay(c) /\ Home[c] \in Instance
  BY <1>0, HomeAssumption DEF SetUp, Control, Busy
<1>2. \A d \in Call : d # c => /\ waiting'[d] = waiting[d] /\ stack'[d] = stack[d]
                               /\ answer'[d] = answer[d]
  <2>1. CASE Entering(c)
    BY <2>1 DEF Entering, Enter, SetUp, Types
  <2>2. CASE Returning(c)
    BY <2>2 DEF Returning, Return, SetUp, Types
  <2>3. CASE Building(c)
    BY <2>3 DEF Building, Build, Return, SetUp, Types
  <2>4. CASE Awaiting(c)
    BY <2>4 DEF Awaiting, Await, SetUp, Types
  <2>5. CASE Throwing({c})
    BY <2>5 DEF Throwing, Throw
  <2> QED BY <2>1, <2>2, <2>3, <2>4, <2>5, CodeSteps
<1>3. ASSUME NEW i \in Instance, StorageAt(i) # None
      PROVE  registry'[i]["storage"] = StorageAt(i)
  <2>1. CASE Building(c)
    <3>1. PICK g \in Getter : /\ registry[Home[c]][g] = None
                              /\ registry' = [registry EXCEPT ![Home[c]][g] = c]
      BY <2>1 DEF Building, Build, Field
    <3>2. registry[Home[c]] \in Fields /\ registry \in [Instance -> Fields]
      BY <1>1 DEF SetUp, Types
    <3>3. CASE i = Home[c]
      <4>1. "storage" # g
        BY <1>3, <3>1, <3>3 DEF StorageAt
      <4> QED BY <3>1, <3>2, <3>3, <4>1, Names DEF StorageAt, Fields
    <3>4. CASE i # Home[c]
      BY <3>1, <3>2, <3>4 DEF StorageAt
    <3> QED BY <3>3, <3>4
  <2>2. CASE UNCHANGED registry
    BY <2>2 DEF StorageAt
  <2> QED BY <2>1, <2>2, CodeSteps DEF Entering, Returning, Awaiting, Throwing, objects
<1> QED BY <1>0, <1>1, <1>2, <1>3

(* A step that changes no pool, loses no call that waits for one and adds   *)
(* none that ends one.                                                      *)
LEMMA PoolsKept ==
  ASSUME SetUp, Pools, UNCHANGED <<pool, connectionInProgress, live>>,
         \A i \in Instance : StorageAt(i) # None => registry'[i]["storage"] = StorageAt(i),
         \A c \in Call : waiting[c] \in {"connection", "end"} => waiting'[c] = waiting[c],
         \A c \in Call : waiting'[c] = "end" => waiting[c] = "end"
  PROVE  Pools'
<1>1. \A c \in Call : Home[c] \in Instance /\ c # None
  BY HomeAssumption, StartupAssumption
<1>2. \A e \in Call : connectionInProgress'[e] \in {"pending", "resolved"} =>
                        registry'[Home[e]]["storage"] = e
  BY <1>1 DEF Pools
<1>3. \A c \in Call : waiting'[c] = "end" => pool'[registry'[Home[c]]["storage"]] = "ending"
  <2> SUFFICES ASSUME NEW c \in Call, waiting'[c] = "end"
               PROVE  pool'[registry'[Home[c]]["storage"]] = "ending"
    OBVIOUS
  <2>1. waiting[c] = "end"
    OBVIOUS
  <2>2. UnderWay(c) /\ Top(c).of = "end"
    BY <2>1 DEF SetUp, Control
  <2>3. StorageAt(Home[c]) \in Call
    BY <2>2, EngineFacts
  <2>4. registry'[Home[c]]["storage"] = StorageAt(Home[c])
    BY <1>1, <2>3
  <2> QED BY <2>1, <2>4 DEF Pools
<1>4. \A e \in Call : connectionInProgress'[e] = "pending" =>
        \E c \in Call : Home[c] = Home[e] /\ waiting'[c] = "connection"
  BY DEF Pools
<1>5. \A e \in Call : pool'[e] = "ending" =>
        \E c \in Call : Home[c] = Home[e] /\ waiting'[c] = "end"
  BY DEF Pools
<1>6. \A c, d \in Call : waiting'[c] = "end" /\ waiting'[d] = "end" /\ Home[c] = Home[d] => c = d
  BY DEF Pools
<1>7. /\ pool' \in [Call -> {"none", "open", "ending"}]
      /\ connectionInProgress' \in [Call -> {"none", "pending", "resolved", "rejected"}]
      /\ live' \in [Call -> Int]
      /\ \A e \in Call : PoolState(pool'[e], connectionInProgress'[e], live'[e])
  BY DEF Pools
<1> QED BY <1>2, <1>3, <1>4, <1>5, <1>6, <1>7 DEF Pools, StorageAt

LEMMA PoolOfStorage ==
  ASSUME Pools, NEW e \in Call, pool[e] # "none" \/ connectionInProgress[e] = "pending"
  PROVE  StorageAt(Home[e]) = e
BY DEF Pools, PoolState

(* A statement of a call makes the pool its storage has not.                *)
LEMMA ConnectPools ==
  ASSUME SetUp, Pools, NEW c \in Call, Code(c), NEW e, e = Engine(c),
         Top(c).of = "statement",
         pool[e] = "none", connectionInProgress[e] = "none",
         connectionInProgress' = [connectionInProgress EXCEPT ![e] = "pending"],
         live' = [live EXCEPT ![e] = @ + 1],
         Await(c, "connection"), UNCHANGED <<registry, pool>>
  PROVE  Pools'
<1>1. /\ waiting[c] = "nothing" /\ UnderWay(c)
      /\ \A d \in Call : d # c => waiting'[d] = waiting[d]
  BY CodeKeeps
<1>2. e \in Call /\ e = StorageAt(Home[c]) /\ Home[e] = Home[c]
  BY <1>1, EngineFacts
<1>3. waiting'[c] = "connection"
  BY DEF Await, SetUp, Types
<1>4. /\ connectionInProgress'[e] = "pending" /\ live'[e] = 1 /\ live[e] = 0
      /\ \A d \in Call : d # e => /\ connectionInProgress'[d] = connectionInProgress[d]
                                  /\ live'[d] = live[d]
      /\ pool' = pool /\ registry' = registry
  BY <1>2 DEF Pools, PoolState
<1>5. /\ pool' \in [Call -> {"none", "open", "ending"}]
      /\ connectionInProgress' \in [Call -> {"none", "pending", "resolved", "rejected"}]
      /\ live' \in [Call -> Int]
  BY <1>2 DEF Pools
<1>6. \A d \in Call : PoolState(pool'[d], connectionInProgress'[d], live'[d])
  <2> TAKE d \in Call
  <2>1. CASE d = e
    BY <2>1, <1>4 DEF PoolState
  <2>2. CASE d # e
    BY <2>2, <1>4 DEF Pools
  <2> QED BY <2>1, <2>2
<1>7. \A d \in Call : connectionInProgress'[d] \in {"pending", "resolved"} =>
                        registry'[Home[d]]["storage"] = d
  BY <1>2, <1>4 DEF Pools, StorageAt
<1>8. \A d \in Call : connectionInProgress'[d] = "pending" =>
        \E x \in Call : Home[x] = Home[d] /\ waiting'[x] = "connection"
  <2> SUFFICES ASSUME NEW d \in Call, connectionInProgress'[d] = "pending"
               PROVE  \E x \in Call : Home[x] = Home[d] /\ waiting'[x] = "connection"
    OBVIOUS
  <2>1. CASE d = e
    BY <2>1, <1>2, <1>3
  <2>2. CASE d # e
    <3>1. PICK x \in Call : Home[x] = Home[d] /\ waiting[x] = "connection"
      BY <2>2, <1>4 DEF Pools
    <3> QED BY <3>1, <1>1
  <2> QED BY <2>1, <2>2
<1>9. \A d \in Call : pool'[d] = "ending" =>
        \E x \in Call : Home[x] = Home[d] /\ waiting'[x] = "end"
  <2> SUFFICES ASSUME NEW d \in Call, pool[d] = "ending"
               PROVE  \E x \in Call : Home[x] = Home[d] /\ waiting'[x] = "end"
    BY <1>4
  <2>1. PICK x \in Call : Home[x] = Home[d] /\ waiting[x] = "end"
    BY DEF Pools
  <2> QED BY <2>1, <1>1
<1>10. \A d \in Call : waiting'[d] = "end" => waiting[d] = "end"
  BY <1>1, <1>3
<1>11. \A d \in Call : waiting'[d] = "end" => pool'[registry'[Home[d]]["storage"]] = "ending"
  BY <1>4, <1>10 DEF Pools, StorageAt
<1>12. \A d, x \in Call : waiting'[d] = "end" /\ waiting'[x] = "end" /\ Home[d] = Home[x] => d = x
  BY <1>10 DEF Pools
<1> QED BY <1>5, <1>6, <1>7, <1>8, <1>9, <1>11, <1>12 DEF Pools, StorageAt

(* A shutdown begins to end the pool of its storage.                        *)
LEMMA EndingPools ==
  ASSUME SetUp, Pools, NEW c \in Call, Code(c), NEW e, e = Engine(c), Top(c).of = "end",
         pool[e] = "open", pool' = [pool EXCEPT ![e] = "ending"],
         Await(c, "end"), UNCHANGED <<registry, connectionInProgress, live>>
  PROVE  Pools'
<1>1. /\ waiting[c] = "nothing" /\ UnderWay(c)
      /\ \A d \in Call : d # c => waiting'[d] = waiting[d]
  BY CodeKeeps
<1>2. e \in Call /\ e = StorageAt(Home[c]) /\ Home[e] = Home[c]
  BY <1>1, EngineFacts
<1>3. waiting'[c] = "end"
  BY DEF Await, SetUp, Types
<1>4. /\ pool'[e] = "ending"
      /\ \A d \in Call : d # e => pool'[d] = pool[d]
      /\ connectionInProgress' = connectionInProgress /\ live' = live /\ registry' = registry
  BY <1>2 DEF Pools
<1>5. /\ pool' \in [Call -> {"none", "open", "ending"}]
      /\ connectionInProgress' \in [Call -> {"none", "pending", "resolved", "rejected"}]
      /\ live' \in [Call -> Int]
  BY <1>2 DEF Pools
<1>6. \A d \in Call : PoolState(pool'[d], connectionInProgress'[d], live'[d])
  <2> TAKE d \in Call
  <2>1. CASE d = e
    BY <2>1, <1>4 DEF PoolState, Pools
  <2>2. CASE d # e
    BY <2>2, <1>4 DEF Pools
  <2> QED BY <2>1, <2>2
<1>7. \A d \in Call : connectionInProgress'[d] \in {"pending", "resolved"} =>
                        registry'[Home[d]]["storage"] = d
  BY <1>4 DEF Pools, StorageAt
<1>8. \A d \in Call : connectionInProgress'[d] = "pending" =>
        \E x \in Call : Home[x] = Home[d] /\ waiting'[x] = "connection"
  <2> SUFFICES ASSUME NEW d \in Call, connectionInProgress[d] = "pending"
               PROVE  \E x \in Call : Home[x] = Home[d] /\ waiting'[x] = "connection"
    BY <1>4
  <2>1. PICK x \in Call : Home[x] = Home[d] /\ waiting[x] = "connection"
    BY DEF Pools
  <2> QED BY <2>1, <1>1
<1>9. \A d \in Call : pool'[d] = "ending" =>
        \E x \in Call : Home[x] = Home[d] /\ waiting'[x] = "end"
  <2> SUFFICES ASSUME NEW d \in Call, pool'[d] = "ending"
               PROVE  \E x \in Call : Home[x] = Home[d] /\ waiting'[x] = "end"
    OBVIOUS
  <2>1. CASE d = e
    BY <2>1, <1>2, <1>3
  <2>2. CASE d # e
    <3>1. PICK x \in Call : Home[x] = Home[d] /\ waiting[x] = "end"
      BY <2>2, <1>4 DEF Pools
    <3> QED BY <3>1, <1>1
  <2> QED BY <2>1, <2>2
<1>10. \A d \in Call : Home[d] = Home[c] => waiting[d] # "end"
  BY <1>2 DEF Pools
<1>11. \A d \in Call : waiting'[d] = "end" => pool'[registry'[Home[d]]["storage"]] = "ending"
  <2> SUFFICES ASSUME NEW d \in Call, waiting'[d] = "end"
               PROVE  pool'[StorageAt(Home[d])] = "ending"
    BY <1>4 DEF StorageAt
  <2>1. CASE d = c
    BY <2>1, <1>2, <1>4
  <2>2. CASE d # c
    <3>1. waiting[d] = "end"
      BY <2>2, <1>1
    <3>2. pool[StorageAt(Home[d])] = "ending" /\ UnderWay(d) /\ Top(d).of = "end"
      BY <3>1 DEF Pools, SetUp, Control
    <3>3. StorageAt(Home[d]) \in Call
      BY <3>2, EngineFacts
    <3> QED BY <3>2, <3>3, <1>4
  <2> QED BY <2>1, <2>2
<1>12. \A d, x \in Call : waiting'[d] = "end" /\ waiting'[x] = "end" /\ Home[d] = Home[x] => d = x
  BY <1>1, <1>10 DEF Pools
<1> QED BY <1>5, <1>6, <1>7, <1>8, <1>9, <1>11, <1>12 DEF Pools, StorageAt

LEMMA CodePools ==
  ASSUME SetUp, Pools, NEW c \in Call, Code(c)
  PROVE  Pools'
<1> DEFINE e == Engine(c)
<1>1. CASE execPostgres(c) /\ ~UNCHANGED <<pool, connectionInProgress, live>>
  BY <1>1, ConnectPools DEF execPostgres, engines, inProgress, objects
<1>2. CASE close(c) /\ ~UNCHANGED <<pool, connectionInProgress, live>>
  BY <1>2, EndingPools DEF close, engines, objects
<1>3. CASE UNCHANGED <<pool, connectionInProgress, live>> /\ waiting'[c] # "end"
  <2>1. /\ waiting[c] = "nothing"
        /\ \A d \in Call : d # c => waiting'[d] = waiting[d]
        /\ \A i \in Instance : StorageAt(i) # None => registry'[i]["storage"] = StorageAt(i)
    BY CodeKeeps
  <2>2. /\ \A d \in Call : waiting[d] \in {"connection", "end"} => waiting'[d] = waiting[d]
        /\ \A d \in Call : waiting'[d] = "end" => waiting[d] = "end"
    BY <1>3, <2>1
  <2> QED BY <1>3, <2>1, <2>2, PoolsKept
<1>4. \/ execPostgres(c) /\ ~UNCHANGED <<pool, connectionInProgress, live>>
      \/ close(c) /\ ~UNCHANGED <<pool, connectionInProgress, live>>
      \/ UNCHANGED <<pool, connectionInProgress, live>> /\ waiting'[c] # "end"
  <2>1. waiting \in [Call -> {"nothing", "connection", "answer", "end"}] /\ waiting[c] = "nothing"
    BY CodeKeeps DEF SetUp, Types
  <2>2. CASE getter(c) \/ resumeGetter(c) \/ build(c) \/ api(c)
    BY <2>1, <2>2 DEF getter, resumeGetter, build, api, engines, Build, Enter, Return, Continue
  <2>3. CASE migrations(c) \/ resumeMigrations(c)
    BY <2>1, <2>3 DEF migrations, resumeMigrations, engines, Enter, Return, Throw
  <2>4. CASE execSqlite(c) \/ closeSqlite(c)
    BY <2>1, <2>4 DEF execSqlite, closeSqlite, engines, Return, Throw
  <2>5. CASE execPostgres(c)
    BY <2>1, <2>5 DEF execPostgres, engines, Await, Throw
  <2>6. CASE close(c)
    <3>1. UnderWay(c) /\ Top(c).of = "end"
      BY <2>6, CodeKeeps DEF close
    <3>2. Engine(c) \in Call
      BY <3>1, EngineFacts
    <3>3. pool[Engine(c)] = "open" => pool # [pool EXCEPT ![Engine(c)] = "ending"]
      BY <3>2 DEF Pools
    <3> QED BY <2>1, <2>6, <3>3 DEF close, engines, Await, Return, Throw
  <2> QED BY <2>2, <2>3, <2>4, <2>5, <2>6 DEF Code
<1> QED BY <1>1, <1>2, <1>3, <1>4

LEMMA ConnectedPools ==
  ASSUME SetUp, Pools, NEW e \in Call, connected(e)
  PROVE  Pools'
<1>1. /\ connectionInProgress[e] = "pending"
      /\ connectionInProgress' = [connectionInProgress EXCEPT ![e] = "resolved"]
      /\ pool' = [pool EXCEPT ![e] = "open"]
      /\ waiting' = [c \in Call |-> IF c \in Waits("connection", e) THEN "answer"
                                    ELSE waiting[c]]
      /\ UNCHANGED <<registry, live>>
  BY DEF connected, objects
<1>2. StorageAt(Home[e]) = e
  BY <1>1 DEF Pools
<1>3. /\ connectionInProgress'[e] = "resolved" /\ pool'[e] = "open"
      /\ \A d \in Call : d # e => /\ connectionInProgress'[d] = connectionInProgress[d]
                                  /\ pool'[d] = pool[d]
      /\ live' = live /\ registry' = registry
  BY <1>1 DEF Pools
<1>4. \A c \in Call : waiting[c] = "connection" /\ Home[c] # Home[e] => waiting'[c] = "connection"
  <2> SUFFICES ASSUME NEW c \in Call, waiting[c] = "connection", Home[c] # Home[e]
               PROVE  c \notin Waits("connection", e)
    BY <1>1
  <2>1. UnderWay(c) /\ Top(c).of = "statement"
    BY DEF SetUp, Control
  <2>2. Home[Engine(c)] = Home[c]
    BY <2>1, EngineFacts
  <2> QED BY <2>2 DEF Waits
<1>5. \A c \in Call : waiting'[c] = "end" <=> waiting[c] = "end"
  BY <1>1 DEF Waits
<1>6. /\ pool' \in [Call -> {"none", "open", "ending"}]
      /\ connectionInProgress' \in [Call -> {"none", "pending", "resolved", "rejected"}]
      /\ live' \in [Call -> Int]
  BY <1>1 DEF Pools
<1>7. \A d \in Call : PoolState(pool'[d], connectionInProgress'[d], live'[d])
  <2> TAKE d \in Call
  <2>1. CASE d = e
    BY <2>1, <1>1, <1>3 DEF PoolState, Pools
  <2>2. CASE d # e
    BY <2>2, <1>3 DEF Pools
  <2> QED BY <2>1, <2>2
<1>8. \A d \in Call : connectionInProgress'[d] \in {"pending", "resolved"} =>
                        registry'[Home[d]]["storage"] = d
  BY <1>2, <1>3 DEF Pools, StorageAt
<1>9. \A d \in Call : connectionInProgress'[d] = "pending" =>
        \E x \in Call : Home[x] = Home[d] /\ waiting'[x] = "connection"
  <2> SUFFICES ASSUME NEW d \in Call, connectionInProgress'[d] = "pending"
               PROVE  \E x \in Call : Home[x] = Home[d] /\ waiting'[x] = "connection"
    OBVIOUS
  <2>1. d # e /\ connectionInProgress[d] = "pending"
    BY <1>3
  <2>2. Home[d] # Home[e]
    BY <1>2, <2>1 DEF Pools
  <2>3. PICK x \in Call : Home[x] = Home[d] /\ waiting[x] = "connection"
    BY <2>1 DEF Pools
  <2> QED BY <1>4, <2>2, <2>3
<1>10. \A d \in Call : pool'[d] = "ending" =>
         \E x \in Call : Home[x] = Home[d] /\ waiting'[x] = "end"
  <2> SUFFICES ASSUME NEW d \in Call, pool'[d] = "ending"
               PROVE  \E x \in Call : Home[x] = Home[d] /\ waiting'[x] = "end"
    OBVIOUS
  <2>1. pool[d] = "ending"
    BY <1>3
  <2>2. PICK x \in Call : Home[x] = Home[d] /\ waiting[x] = "end"
    BY <2>1 DEF Pools
  <2> QED BY <1>5, <2>2
<1>11. \A d \in Call : waiting'[d] = "end" => pool'[registry'[Home[d]]["storage"]] = "ending"
  <2> SUFFICES ASSUME NEW d \in Call, waiting'[d] = "end"
               PROVE  pool'[StorageAt(Home[d])] = "ending"
    BY <1>3 DEF StorageAt
  <2>1. waiting[d] = "end" /\ pool[StorageAt(Home[d])] = "ending"
    BY <1>5 DEF Pools
  <2>2. UnderWay(d) /\ Top(d).of = "end"
    BY <2>1 DEF SetUp, Control
  <2>3. StorageAt(Home[d]) \in Call
    BY <2>2, EngineFacts
  <2>4. pool[e] # "ending"
    BY <1>1 DEF Pools, PoolState
  <2> QED BY <2>1, <2>3, <2>4, <1>3
<1>12. \A d, x \in Call : waiting'[d] = "end" /\ waiting'[x] = "end" /\ Home[d] = Home[x] => d = x
  BY <1>5 DEF Pools
<1> QED BY <1>6, <1>7, <1>8, <1>9, <1>10, <1>11, <1>12 DEF Pools, StorageAt

LEMMA FailedPools ==
  ASSUME SetUp, Pools, NEW e \in Call, connectionFails(e)
  PROVE  Pools'
<1>1. /\ connectionInProgress[e] = "pending"
      /\ connectionInProgress' = [connectionInProgress EXCEPT ![e] = "rejected"]
      /\ waiting' = [c \in Call |-> IF c \in Waits("connection", e) THEN "nothing"
                                    ELSE waiting[c]]
      /\ UNCHANGED <<registry, pool, live>>
  BY DEF connectionFails, objects, Throw
<1>2. StorageAt(Home[e]) = e
  BY <1>1 DEF Pools
<1>3. /\ connectionInProgress'[e] = "rejected"
      /\ \A d \in Call : d # e => connectionInProgress'[d] = connectionInProgress[d]
      /\ pool' = pool /\ live' = live /\ registry' = registry
  BY <1>1 DEF Pools
<1>4. \A c \in Call : waiting[c] = "connection" /\ Home[c] # Home[e] => waiting'[c] = "connection"
  <2> SUFFICES ASSUME NEW c \in Call, waiting[c] = "connection", Home[c] # Home[e]
               PROVE  c \notin Waits("connection", e)
    BY <1>1
  <2>1. UnderWay(c) /\ Top(c).of = "statement"
    BY DEF SetUp, Control
  <2>2. Home[Engine(c)] = Home[c]
    BY <2>1, EngineFacts
  <2> QED BY <2>2 DEF Waits
<1>5. \A c \in Call : waiting'[c] = "end" <=> waiting[c] = "end"
  BY <1>1 DEF Waits
<1>6. /\ pool' \in [Call -> {"none", "open", "ending"}]
      /\ connectionInProgress' \in [Call -> {"none", "pending", "resolved", "rejected"}]
      /\ live' \in [Call -> Int]
  BY <1>1 DEF Pools
<1>7. \A d \in Call : PoolState(pool'[d], connectionInProgress'[d], live'[d])
  <2> TAKE d \in Call
  <2>1. CASE d = e
    BY <2>1, <1>1, <1>3 DEF PoolState, Pools
  <2>2. CASE d # e
    BY <2>2, <1>3 DEF Pools
  <2> QED BY <2>1, <2>2
<1>8. \A d \in Call : connectionInProgress'[d] \in {"pending", "resolved"} =>
                        registry'[Home[d]]["storage"] = d
  BY <1>2, <1>3 DEF Pools, StorageAt
<1>9. \A d \in Call : connectionInProgress'[d] = "pending" =>
        \E x \in Call : Home[x] = Home[d] /\ waiting'[x] = "connection"
  <2> SUFFICES ASSUME NEW d \in Call, connectionInProgress'[d] = "pending"
               PROVE  \E x \in Call : Home[x] = Home[d] /\ waiting'[x] = "connection"
    OBVIOUS
  <2>1. d # e /\ connectionInProgress[d] = "pending"
    BY <1>3
  <2>2. Home[d] # Home[e]
    BY <1>2, <2>1 DEF Pools
  <2>3. PICK x \in Call : Home[x] = Home[d] /\ waiting[x] = "connection"
    BY <2>1 DEF Pools
  <2> QED BY <1>4, <2>2, <2>3
<1>10. /\ \A d \in Call : pool'[d] = "ending" =>
            \E x \in Call : Home[x] = Home[d] /\ waiting'[x] = "end"
       /\ \A d \in Call : waiting'[d] = "end" => pool'[registry'[Home[d]]["storage"]] = "ending"
       /\ \A d, x \in Call : waiting'[d] = "end" /\ waiting'[x] = "end" /\ Home[d] = Home[x] => d = x
  BY <1>3, <1>5 DEF Pools, StorageAt
<1> QED BY <1>6, <1>7, <1>8, <1>9, <1>10 DEF Pools, StorageAt

LEMMA EndedPools ==
  ASSUME SetUp, Pools, NEW c \in Call, ended(c)
  PROVE  Pools'
<1> DEFINE e == Engine(c)
<1>1. /\ waiting[c] = "end"
      /\ pool' = [pool EXCEPT ![e] = "none"]
      /\ connectionInProgress' = [connectionInProgress EXCEPT ![e] = "none"]
      /\ live' = [live EXCEPT ![e] = @ - 1]
      /\ waiting' = [waiting EXCEPT ![c] = "nothing"]
      /\ UNCHANGED registry
  BY DEF ended, objects, Return
<1>2. UnderWay(c) /\ Top(c).of = "end"
  BY <1>1 DEF SetUp, Control
<1>3. e \in Call /\ e = StorageAt(Home[c]) /\ Home[e] = Home[c]
  BY <1>2, EngineFacts
<1> HIDE DEF e
<1>4. pool[e] = "ending" /\ live[e] = 1
  BY <1>1, <1>3 DEF Pools, PoolState
<1>5. /\ pool'[e] = "none" /\ connectionInProgress'[e] = "none" /\ live'[e] = 0
      /\ \A d \in Call : d # e => /\ pool'[d] = pool[d] /\ live'[d] = live[d]
                                  /\ connectionInProgress'[d] = connectionInProgress[d]
      /\ registry' = registry
  BY <1>1, <1>3, <1>4 DEF Pools
<1>6. waiting'[c] = "nothing" /\ \A d \in Call : d # c => waiting'[d] = waiting[d]
  BY <1>1 DEF SetUp, Types
<1>7. /\ pool' \in [Call -> {"none", "open", "ending"}]
      /\ connectionInProgress' \in [Call -> {"none", "pending", "resolved", "rejected"}]
      /\ live' \in [Call -> Int]
  BY <1>1, <1>3 DEF Pools
<1>8. \A d \in Call : PoolState(pool'[d], connectionInProgress'[d], live'[d])
  <2> TAKE d \in Call
  <2>1. CASE d = e
    BY <2>1, <1>5 DEF PoolState
  <2>2. CASE d # e
    BY <2>2, <1>5 DEF Pools
  <2> QED BY <2>1, <2>2
<1>9. \A d \in Call : connectionInProgress'[d] \in {"pending", "resolved"} =>
                        registry'[Home[d]]["storage"] = d
  BY <1>5 DEF Pools, StorageAt
<1>10. \A d \in Call : connectionInProgress'[d] = "pending" =>
         \E x \in Call : Home[x] = Home[d] /\ waiting'[x] = "connection"
  <2> SUFFICES ASSUME NEW d \in Call, connectionInProgress'[d] = "pending"
               PROVE  \E x \in Call : Home[x] = Home[d] /\ waiting'[x] = "connection"
    OBVIOUS
  <2>1. connectionInProgress[d] = "pending"
    BY <1>5
  <2>2. PICK x \in Call : Home[x] = Home[d] /\ waiting[x] = "connection"
    BY <2>1 DEF Pools
  <2> QED BY <1>1, <1>6, <2>2
<1>11. \A d \in Call : pool'[d] = "ending" =>
         \E x \in Call : Home[x] = Home[d] /\ waiting'[x] = "end"
  <2> SUFFICES ASSUME NEW d \in Call, pool'[d] = "ending"
               PROVE  \E x \in Call : Home[x] = Home[d] /\ waiting'[x] = "end"
    OBVIOUS
  <2>1. d # e /\ pool[d] = "ending"
    BY <1>5
  <2>2. StorageAt(Home[d]) = d
    BY <2>1, PoolOfStorage
  <2>3. Home[d] # Home[c]
    BY <1>3, <2>1, <2>2
  <2>4. PICK x \in Call : Home[x] = Home[d] /\ waiting[x] = "end"
    BY <2>1 DEF Pools
  <2> QED BY <1>6, <2>3, <2>4
<1>12. \A d \in Call : waiting'[d] = "end" => pool'[registry'[Home[d]]["storage"]] = "ending"
  <2> SUFFICES ASSUME NEW d \in Call, waiting'[d] = "end"
               PROVE  pool'[StorageAt(Home[d])] = "ending"
    BY <1>5 DEF StorageAt
  <2>1. d # c /\ waiting[d] = "end"
    BY <1>6
  <2>2. UnderWay(d) /\ Top(d).of = "end" /\ pool[StorageAt(Home[d])] = "ending"
    BY <2>1 DEF SetUp, Control, Pools
  <2>3. StorageAt(Home[d]) \in Call /\ Home[StorageAt(Home[d])] = Home[d]
    BY <2>2, EngineFacts
  <2>4. Home[d] # Home[c]
    BY <1>1, <2>1 DEF Pools
  <2>5. StorageAt(Home[d]) # e
    BY <1>3, <2>3, <2>4
  <2> QED BY <1>5, <2>2, <2>3, <2>5
<1>13. \A d, x \in Call : waiting'[d] = "end" /\ waiting'[x] = "end" /\ Home[d] = Home[x] => d = x
  BY <1>6 DEF Pools
<1> QED BY <1>7, <1>8, <1>9, <1>10, <1>11, <1>12, <1>13 DEF Pools, StorageAt

LEMMA AnsweredPools ==
  ASSUME SetUp, Pools, NEW c \in Call, answered(c)
  PROVE  Pools'
<1>1. /\ waiting[c] = "answer" /\ UNCHANGED <<registry, pool, connectionInProgress, live>>
      /\ (Return(c, None) \/ Throw({c}))
  BY DEF answered, objects, engines
<1>2. \A d \in Call : waiting'[d] = IF d = c THEN "nothing" ELSE waiting[d]
  BY <1>1 DEF Return, Throw, SetUp, Types
<1>3. \A i \in Instance : StorageAt(i) # None => registry'[i]["storage"] = StorageAt(i)
  BY <1>1 DEF StorageAt
<1>4. /\ \A d \in Call : waiting[d] \in {"connection", "end"} => waiting'[d] = waiting[d]
      /\ \A d \in Call : waiting'[d] = "end" => waiting[d] = "end"
  BY <1>1, <1>2
<1> QED BY <1>1, <1>3, <1>4, PoolsKept

(* No pool of an instance connects, is open or ends when no call of it is   *)
(* under way and no pool of it is open.                                     *)
LEMMA IdlePools ==
  ASSUME SetUp, Pools, NEW i \in Instance,
         \A c \in Call : Home[c] = i => ~UnderWay(c),
         \A e \in Call : Home[e] = i => pool[e] # "open"
  PROVE  /\ \A e \in Call : Home[e] = i => connectionInProgress[e] \notin {"pending", "resolved"}
         /\ \A c \in Call : Home[c] = i => waiting[c] = "nothing"
<1>1. \A c \in Call : Home[c] = i => waiting[c] = "nothing"
  BY DEF SetUp, Control
<1>2. ASSUME NEW e \in Call, Home[e] = i
      PROVE  connectionInProgress[e] \notin {"pending", "resolved"}
  <2>1. connectionInProgress[e] # "pending"
    BY <1>1, <1>2 DEF Pools
  <2>2. pool[e] # "ending"
    BY <1>1, <1>2 DEF Pools
  <2>3. PoolState(pool[e], connectionInProgress[e], live[e]) /\ pool[e] # "open"
    BY <1>2 DEF Pools
  <2> QED BY <2>1, <2>2, <2>3 DEF PoolState
<1> QED BY <1>1, <1>2

LEMMA AnotherPools ==
  ASSUME SetUp, Pools, NEW i \in Instance, another(i)
  PROVE  Pools'
<1>1. /\ \A c \in Call : Home[c] = i => ~UnderWay(c)
      /\ \A e \in Call : Home[e] = i => pool[e] # "open"
      /\ registry' = [registry EXCEPT ![i] = [g \in Getter |-> None]]
      /\ UNCHANGED <<waiting, pool, connectionInProgress, live>>
  BY DEF another, control, engines
<1>2. /\ \A e \in Call : Home[e] = i => connectionInProgress[e] \notin {"pending", "resolved"}
      /\ \A c \in Call : Home[c] = i => waiting[c] = "nothing"
  BY <1>1, IdlePools
<1>3. \A j \in Instance : j # i => registry'[j] = registry[j]
  BY <1>1 DEF SetUp, Types
<1>4. \A c \in Call : Home[c] \in Instance
  BY HomeAssumption
<1>5. \A d \in Call : connectionInProgress'[d] \in {"pending", "resolved"} =>
                        registry'[Home[d]]["storage"] = d
  BY <1>1, <1>2, <1>3, <1>4 DEF Pools, StorageAt
<1>6. \A d \in Call : waiting'[d] = "end" => pool'[registry'[Home[d]]["storage"]] = "ending"
  BY <1>1, <1>2, <1>3, <1>4 DEF Pools, StorageAt
<1> QED BY <1>1, <1>5, <1>6 DEF Pools, StorageAt

LEMMA CrashPools ==
  ASSUME SetUp, Pools, NEW i \in Instance, crash(i)
  PROVE  Pools'
<1>1. /\ registry' = [registry EXCEPT ![i] = [g \in Getter |-> None]]
      /\ waiting' = [c \in Call |-> IF Home[c] = i /\ UnderWay(c) THEN "nothing" ELSE waiting[c]]
      /\ pool' = [c \in Call |-> IF Home[c] = i THEN "none" ELSE pool[c]]
      /\ connectionInProgress' =
           [c \in Call |-> IF Home[c] = i THEN "none" ELSE connectionInProgress[c]]
      /\ live' = [c \in Call |-> IF Home[c] = i THEN 0 ELSE live[c]]
  BY DEF crash
<1>2. \A j \in Instance : j # i => registry'[j] = registry[j]
  BY <1>1 DEF SetUp, Types
<1>3. \A c \in Call : Home[c] \in Instance
  BY HomeAssumption
<1>4. /\ \A c \in Call : Home[c] = i => waiting'[c] = "nothing"
      /\ \A c \in Call : Home[c] # i => waiting'[c] = waiting[c]
  BY <1>1 DEF SetUp, Control
<1>5. /\ pool' \in [Call -> {"none", "open", "ending"}]
      /\ connectionInProgress' \in [Call -> {"none", "pending", "resolved", "rejected"}]
      /\ live' \in [Call -> Int]
  BY <1>1 DEF Pools
<1>6. \A d \in Call : PoolState(pool'[d], connectionInProgress'[d], live'[d])
  BY <1>1 DEF Pools, PoolState
<1>7. \A d \in Call : connectionInProgress'[d] \in {"pending", "resolved"} =>
                        registry'[Home[d]]["storage"] = d
  BY <1>1, <1>2, <1>3 DEF Pools, StorageAt
<1>8. \A d \in Call : connectionInProgress'[d] = "pending" =>
        \E x \in Call : Home[x] = Home[d] /\ waiting'[x] = "connection"
  BY <1>1, <1>4 DEF Pools
<1>9. \A d \in Call : pool'[d] = "ending" =>
        \E x \in Call : Home[x] = Home[d] /\ waiting'[x] = "end"
  BY <1>1, <1>4 DEF Pools
<1>10. \A d \in Call : waiting'[d] = "end" => pool'[registry'[Home[d]]["storage"]] = "ending"
  <2> SUFFICES ASSUME NEW d \in Call, waiting'[d] = "end"
               PROVE  pool'[registry'[Home[d]]["storage"]] = "ending"
    OBVIOUS
  <2>1. Home[d] # i /\ waiting[d] = "end"
    BY <1>4
  <2>2. UnderWay(d) /\ Top(d).of = "end" /\ pool[StorageAt(Home[d])] = "ending"
    BY <2>1 DEF SetUp, Control, Pools
  <2>3. StorageAt(Home[d]) \in Call /\ Home[StorageAt(Home[d])] = Home[d]
    BY <2>2, EngineFacts
  <2>4. registry'[Home[d]] = registry[Home[d]]
    BY <1>2, <1>3, <2>1
  <2> QED BY <1>1, <2>1, <2>2, <2>3, <2>4 DEF StorageAt
<1>11. \A d, x \in Call : waiting'[d] = "end" /\ waiting'[x] = "end" /\ Home[d] = Home[x] => d = x
  BY <1>4 DEF Pools
<1> QED BY <1>5, <1>6, <1>7, <1>8, <1>9, <1>10, <1>11 DEF Pools, StorageAt

LEMMA PoolsInit == StartupInit => Pools
BY DEF StartupInit, Pools, PoolState

LEMMA PoolsStep ==
  ASSUME SetUp, Pools, [StartupNext]_everything
  PROVE  Pools'
<1>1. CASE UNCHANGED <<registry, waiting, pool, connectionInProgress, live>>
  BY <1>1 DEF Pools, StorageAt
<1>2. ASSUME NEW c \in Call, Code(c)
      PROVE  Pools'
  BY <1>2, CodePools
<1>3. ASSUME NEW c \in Call, Database(c)
      PROVE  Pools'
  BY <1>3, ConnectedPools, FailedPools, AnsweredPools, EndedPools DEF Database
<1>4. ASSUME NEW c \in Call, call(c) \/ run(c)
      PROVE  Pools'
  BY <1>1, <1>4 DEF call, run, objects, engines
<1>5. ASSUME NEW i \in Instance, crash(i) \/ another(i)
      PROVE  Pools'
  BY <1>5, CrashPools, AnotherPools
<1>6. CASE UNCHANGED everything
  BY <1>1, <1>6 DEF everything, objects, control, engines
<1> QED BY <1>2, <1>3, <1>4, <1>5, <1>6 DEF StartupNext

LEMMA OnePoolHolds == Pools => OnePool
<1> SUFFICES ASSUME Pools, NEW i \in Instance
             PROVE  /\ Cardinality({e \in Call : /\ Home[e] = i /\ live[e] > 0
                                                 /\ connectionInProgress[e] # "rejected"}) <= 1
                    /\ \A e \in Call : live[e] <= 1
  BY DEF OnePool
<1> DEFINE inUse == {e \in Call : /\ Home[e] = i /\ live[e] > 0
                                  /\ connectionInProgress[e] # "rejected"}
<1>1. inUse \subseteq {StorageAt(i)}
  BY DEF Pools, PoolState
<1>2. ASSUME NEW e \in Call
      PROVE  live[e] <= 1
  <2>1. PoolState(pool[e], connectionInProgress[e], live[e])
    BY DEF Pools
  <2> QED BY <2>1 DEF PoolState
<1> HIDE DEF inUse
<1>3. inUse = {} \/ inUse = {StorageAt(i)}
  BY <1>1
<1>4. Cardinality({StorageAt(i)}) = 1 /\ Cardinality({}) = 0
  BY FS_Singleton, FS_EmptySet
<1>5. Cardinality(inUse) <= 1
  BY <1>3, <1>4
<1> QED BY <1>2, <1>5 DEF inUse

(* A process has one connection pool in use at a time, and no engine makes  *)
(* a second one before it has closed the first.                             *)
THEOREM OnePoolAtATime ==
  ASSUME MaxTogether = 1
  PROVE  StartupSpec => []OnePool
<1>1. SetUp /\ [StartupNext]_everything => SetUp'
  BY SetUpStep
<1>2. SetUp /\ Pools /\ [StartupNext]_everything => Pools'
  BY PoolsStep
<1> QED BY <1>1, <1>2, SetUpInit, PoolsInit, OnePoolHolds, PTL DEF StartupSpec

-----------------------------------------------------------------------------
(* What a shutdown leaves behind.                                           *)

\* The call is a shutdown whose end is over, and that has not returned yet.
Closed(c) ==
  /\ UnderWay(c) /\ Top(c).of = "shutdown" /\ answer[c] # "entered"
  /\ Awaited(Top(c)) = "end"

(* Between the end and the return of a shutdown nothing is opened again.    *)
Releases ==
  /\ kind \in {"sqlite", "postgresql"}
  /\ db \in [Instance -> {"none", "open", "closed"}]
  /\ kind = "sqlite" => \A e \in Call : connectionInProgress[e] = "none"
  /\ kind = "postgresql" => \A i \in Instance : db[i] = "none"
  /\ \A c \in Call : Closed(c) =>
       /\ db[Home[c]] # "open"
       /\ \A e \in Call : Home[e] = Home[c] => pool[e] = "none"

LEMMA ClosedIsBusy ==
  ASSUME SetUp, NEW c \in Call, Closed(c)
  PROVE  Busy(c) /\ ~Quiet(Home[c])
<1>1. Top(c).of \notin {"statement", "end"}
  BY DEF Closed
<1>2. Busy(c)
  BY <1>1 DEF Closed, SetUp, Control
<1> QED BY <1>2, StartupAssumption DEF Busy, Runs, Quiet

(* A shutdown comes to its end in a return from it only.                    *)
LEMMA BecomesClosed ==
  ASSUME SetUp, NEW c \in Call, Goes(c), NEW v, Return(c, v), Closed(c)'
  PROVE  Top(c).of = "end"
<1> DEFINE s == stack[c]
<1>1. /\ StackOK(s, answer[c], Function[c], registry[Home[c]])
      /\ s \in Seq(FrameType) /\ s # <<>> /\ Top(c) = s[1]
  BY GoingCalls
<1>2. stack'[c] = Tail(s)
  BY DEF Return, SetUp, Types
<1>3. Tail(s) # <<>> /\ Awaited(Head(Tail(s))) = "end"
  BY <1>2 DEF Closed, UnderWay, Top
<1>4. Len(s) >= 2 /\ Head(Tail(s)) = s[2] /\ 2 \in 1 .. Len(s)
  BY <1>1, <1>3
<1>5. PlaceOK(s, answer[c], registry[Home[c]], 2)
  BY <1>1, <1>4 DEF StackOK
<1>6. s[2 - 1].of = Awaited(s[2])
  BY <1>5 DEF PlaceOK
<1> QED BY <1>1, <1>3, <1>4, <1>6

LEMMA CodeCloses ==
  ASSUME SetUp, NEW c \in Call, Code(c), Closed(c)'
  PROVE  \/ closeSqlite(c) /\ kind = "sqlite"
         \/ /\ kind = "postgresql" /\ Top(c).of = "end" /\ pool[Engine(c)] = "none"
            /\ UNCHANGED engines
<1>1. Runs(c) /\ UnderWay(c)
  BY CodeKeeps
<1>2. answer' [c] # "entered" /\ stack'[c] # <<>>
  BY DEF Closed, UnderWay
<1>3. ~Entering(c)
  BY <1>2 DEF Entering, Enter, SetUp, Types
<1>4. ~Throwing({c})
  BY <1>2 DEF Throwing, Throw
<1>5. ~Awaiting(c)
  <2>1. Awaiting(c) => answer'[c] = answer[c] /\ stack'[c] = stack[c] /\ Top(c).of \in {"statement", "end"}
    BY DEF Awaiting, Await
  <2>2. Awaiting(c) => Top(c).of = "shutdown"
    BY <2>1 DEF Closed, Top
  <2> QED BY <2>1, <2>2
<1>6. PICK v : Return(c, v)
  BY <1>3, <1>4, <1>5, CodeSteps DEF Returning, Building, Build
<1>7. Top(c).of = "end"
  BY <1>1, <1>6, BecomesClosed DEF Goes
<1>8. close(c) \/ closeSqlite(c)
  BY <1>7, Names DEF Code, getter, resumeGetter, build, api, Api, migrations, resumeMigrations,
                 execSqlite, execPostgres
<1>9. CASE closeSqlite(c)
  BY <1>9 DEF closeSqlite
<1>10. CASE close(c)
  <2>1. ~Throw({c})
    BY <1>2 DEF Throw
  <2>2. ~Await(c, "end")
    <3>1. waiting'[c] = "nothing"
      BY <1>6 DEF Return, SetUp, Types
    <3> QED BY <3>1 DEF Await, SetUp, Types
  <2> QED BY <1>7, <1>10, <2>1, <2>2 DEF close
<1> QED BY <1>8, <1>9, <1>10

(* A call touches the engine and the file of its own instance only.         *)
LEMMA CodeEngines ==
  ASSUME SetUp, Pools, Releases, NEW c \in Call, Code(c)
  PROVE  /\ kind' = kind
         /\ db' \in [Instance -> {"none", "open", "closed"}]
         /\ \A i \in Instance : i # Home[c] => db'[i] = db[i]
         /\ kind = "postgresql" => db' = db
         /\ kind = "sqlite" => connectionInProgress' = connectionInProgress
         /\ \A e \in Call : Home[e] # Home[c] => pool'[e] = pool[e]
<1>1. UnderWay(c) /\ Home[c] \in Instance
  BY CodeKeeps
<1>2. db \in [Instance -> {"none", "open", "closed"}] /\ kind \in {"sqlite", "postgresql"}
  BY DEF Releases
<1>3. CASE getter(c) \/ resumeGetter(c) \/ api(c) \/ migrations(c) \/ resumeMigrations(c)
           \/ execSqlite(c)
  BY <1>2, <1>3 DEF getter, resumeGetter, api, migrations, resumeMigrations, execSqlite, engines
<1>4. CASE build(c)
  BY <1>1, <1>2, <1>4 DEF build, EngineSqlite
<1>5. CASE execPostgres(c)
  BY <1>2, <1>5 DEF execPostgres, engines
<1>6. CASE close(c)
  <2>1. Engine(c) \in Call /\ Home[Engine(c)] = Home[c]
    <3>1. Top(c).of = "end"
      BY <1>6 DEF close
    <3> QED BY <1>1, <3>1, EngineFacts
  <2>2. \A e \in Call : Home[e] # Home[c] => pool'[e] = pool[e]
    BY <1>6, <2>1 DEF close, engines, Pools
  <2> QED BY <1>2, <1>6, <2>2 DEF close, engines
<1>7. CASE closeSqlite(c)
  BY <1>1, <1>2, <1>7 DEF closeSqlite
<1> QED BY <1>3, <1>4, <1>5, <1>6, <1>7 DEF Code

LEMMA PoolsElsewhere ==
  ASSUME Pools, NEW e \in Call, e = StorageAt(Home[e]),
         NEW d \in Call, Home[d] = Home[e], d # e
  PROVE  pool[d] = "none"
BY PoolOfStorage

LEMMA CodeReleases ==
  ASSUME SetUp, Pools, Releases, NEW c \in Call, Code(c)
  PROVE  Releases'
<1>1. /\ kind' = kind
      /\ db' \in [Instance -> {"none", "open", "closed"}]
      /\ \A i \in Instance : i # Home[c] => db'[i] = db[i]
      /\ kind = "postgresql" => db' = db
      /\ kind = "sqlite" => connectionInProgress' = connectionInProgress
      /\ \A e \in Call : Home[e] # Home[c] => pool'[e] = pool[e]
  BY CodeEngines
<1>2. /\ Runs(c) /\ UnderWay(c) /\ Home[c] \in Instance
      /\ \A d \in Call : d # c => stack'[d] = stack[d] /\ answer'[d] = answer[d]
  BY CodeKeeps
<1>3. ASSUME NEW d \in Call, d # c, Closed(d)'
      PROVE  /\ db'[Home[d]] # "open"
             /\ \A e \in Call : Home[e] = Home[d] => pool'[e] = "none"
  <2>1. Closed(d)
    BY <1>2, <1>3 DEF Closed, UnderWay, Top
  <2>2. Home[d] # Home[c]
    BY <1>2, <1>3, <2>1, ClosedIsBusy DEF SetUp, Control, Busy
  <2>3. Home[d] \in Instance
    BY HomeAssumption
  <2> QED BY <1>1, <2>1, <2>2, <2>3 DEF Releases
<1>4. ASSUME Closed(c)'
      PROVE  /\ db'[Home[c]] # "open"
             /\ \A e \in Call : Home[e] = Home[c] => pool'[e] = "none"
  <2>1. CASE closeSqlite(c) /\ kind = "sqlite"
    <3>1. db'[Home[c]] # "open" /\ pool' = pool
      BY <1>2, <2>1 DEF closeSqlite, Releases
    <3>2. \A e \in Call : pool[e] = "none"
      BY <2>1 DEF Releases, Pools, PoolState
    <3> QED BY <3>1, <3>2
  <2>2. CASE /\ kind = "postgresql" /\ Top(c).of = "end" /\ pool[Engine(c)] = "none"
             /\ UNCHANGED engines
    <3>1. Engine(c) = StorageAt(Home[c]) /\ Engine(c) \in Call /\ Home[Engine(c)] = Home[c]
      BY <1>2, <2>2, EngineFacts
    <3>2. \A e \in Call : Home[e] = Home[c] => pool[e] = "none"
      BY <2>2, <3>1, PoolsElsewhere
    <3>3. db[Home[c]] = "none" /\ db' = db /\ pool' = pool
      BY <1>2, <2>2 DEF Releases, engines
    <3> QED BY <3>2, <3>3
  <2> QED BY <1>4, <2>1, <2>2, CodeCloses
<1>5. \A d \in Call : Closed(d)' =>
        /\ db'[Home[d]] # "open"
        /\ \A e \in Call : Home[e] = Home[d] => pool'[e] = "none"
  BY <1>3, <1>4
<1> QED BY <1>1, <1>5 DEF Releases

LEMMA DatabaseReleases ==
  ASSUME SetUp, Pools, Releases, NEW c \in Call, Database(c)
  PROVE  Releases'
<1>0. \A d \in Call : Home[d] \in Instance
  BY HomeAssumption
<1>1. CASE connected(c)
  <2>1. /\ connectionInProgress[c] = "pending" /\ Quiet(Home[c])
        /\ pool' = [pool EXCEPT ![c] = "open"]
        /\ UNCHANGED <<kind, db, stack, answer>>
    BY <1>1 DEF connected
  <2>2. kind = "postgresql"
    BY <2>1 DEF Releases
  <2>3. ASSUME NEW d \in Call, Closed(d)'
        PROVE  /\ db'[Home[d]] # "open"
               /\ \A e \in Call : Home[e] = Home[d] => pool'[e] = "none"
    <3>1. Closed(d)
      BY <2>1, <2>3 DEF Closed, UnderWay, Top
    <3>2. Home[d] # Home[c]
      BY <2>1, <3>1, ClosedIsBusy
    <3> QED BY <2>1, <3>1, <3>2 DEF Releases, Pools
  <2> QED BY <2>1, <2>2, <2>3 DEF Releases
<1>2. CASE connectionFails(c)
  <2>1. /\ connectionInProgress[c] = "pending"
        /\ stack' = [d \in Call |-> IF d \in Waits("connection", c) THEN <<>> ELSE stack[d]]
        /\ answer' = [d \in Call |-> IF d \in Waits("connection", c) THEN "threw" ELSE answer[d]]
        /\ UNCHANGED <<kind, db, pool>>
    BY <1>2 DEF connectionFails, Throw
  <2>2. kind = "postgresql"
    BY <2>1 DEF Releases
  <2>3. \A d \in Call : Closed(d)' => Closed(d)
    BY <2>1 DEF Closed, UnderWay, Top
  <2> QED BY <2>1, <2>2, <2>3 DEF Releases
<1>3. CASE answered(c)
  <2>1. /\ waiting[c] = "answer" /\ Goes(c) /\ UNCHANGED <<kind, engines>>
        /\ (Return(c, None) \/ Throw({c}))
    BY <1>3 DEF answered, Goes
  <2>2. Top(c).of = "statement"
    BY <2>1 DEF SetUp, Control
  <2>3. \A d \in Call : d # c => stack'[d] = stack[d] /\ answer'[d] = answer[d]
    BY <2>1 DEF Return, Throw, SetUp, Types
  <2>4. \A d \in Call : d # c /\ Closed(d)' => Closed(d)
    BY <2>3 DEF Closed, UnderWay, Top
  <2>5. ~Closed(c)'
    <3>1. Return(c, None) => ~Closed(c)'
      BY <2>1, <2>2, BecomesClosed
    <3>2. Throw({c}) => ~Closed(c)'
      BY DEF Throw, Closed, UnderWay
    <3> QED BY <2>1, <3>1, <3>2
  <2> QED BY <2>1, <2>4, <2>5 DEF Releases, engines
<1>4. CASE ended(c)
  <2>1. /\ waiting[c] = "end" /\ Quiet(Home[c]) /\ Return(c, None)
        /\ pool' = [pool EXCEPT ![Engine(c)] = "none"]
        /\ connectionInProgress' = [connectionInProgress EXCEPT ![Engine(c)] = "none"]
        /\ UNCHANGED <<kind, db>>
    BY <1>4 DEF ended
  <2>2. UnderWay(c) /\ Top(c).of = "end"
    BY <2>1 DEF SetUp, Control
  <2>3. /\ Engine(c) = StorageAt(Home[c]) /\ Engine(c) \in Call /\ Home[Engine(c)] = Home[c]
    BY <2>2, EngineFacts
  <2>4. pool[Engine(c)] = "ending"
    BY <2>1, <2>3 DEF Pools
  <2>5. kind = "postgresql"
    BY <2>3, <2>4 DEF Releases, Pools, PoolState
  <2>6. ASSUME NEW d \in Call, Closed(d)'
        PROVE  /\ db'[Home[d]] # "open"
               /\ \A e \in Call : Home[e] = Home[d] => pool'[e] = "none"
    <3>1. db'[Home[d]] # "open"
      BY <1>0, <2>1, <2>5 DEF Releases
    <3>2. CASE Home[d] = Home[c]
      <4>1. \A e \in Call : Home[e] = Home[c] /\ e # Engine(c) => pool[e] = "none"
        BY <2>3, PoolsElsewhere
      <4> QED BY <2>1, <2>3, <3>1, <3>2, <4>1 DEF Pools
    <3>3. CASE Home[d] # Home[c]
      <4>1. d # c
        BY <3>3
      <4>2. stack'[d] = stack[d] /\ answer'[d] = answer[d]
        BY <2>1, <4>1 DEF Return, SetUp, Types
      <4>3. Closed(d)
        BY <2>6, <4>2 DEF Closed, UnderWay, Top
      <4> QED BY <2>1, <2>3, <3>3, <4>3 DEF Releases, Pools
    <3> QED BY <3>2, <3>3
  <2> QED BY <2>1, <2>5, <2>6 DEF Releases
<1> QED BY <1>1, <1>2, <1>3, <1>4 DEF Database

LEMMA ReleasesInit == StartupInit => Releases
BY StartupAssumption DEF StartupInit, Releases, Closed, UnderWay

LEMMA CrashReleases ==
  ASSUME SetUp, Pools, Releases, NEW i \in Instance, crash(i)
  PROVE  Releases'
<1>1. /\ stack' = [c \in Call |-> IF Home[c] = i /\ UnderWay(c) THEN <<>> ELSE stack[c]]
      /\ answer' = [c \in Call |-> IF Home[c] = i /\ UnderWay(c) THEN "threw" ELSE answer[c]]
      /\ pool' = [c \in Call |-> IF Home[c] = i THEN "none" ELSE pool[c]]
      /\ connectionInProgress' =
           [c \in Call |-> IF Home[c] = i THEN "none" ELSE connectionInProgress[c]]
      /\ db' = [db EXCEPT ![i] = "none"]
      /\ kind' = kind
  BY DEF crash
<1>2. \A c \in Call : Home[c] \in Instance
  BY HomeAssumption
<1>3. /\ \A j \in Instance : db'[j] = IF j = i THEN "none" ELSE db[j]
      /\ db' \in [Instance -> {"none", "open", "closed"}]
  BY <1>1 DEF Releases
<1>4. ASSUME NEW d \in Call, Closed(d)'
      PROVE  /\ db'[Home[d]] # "open"
             /\ \A e \in Call : Home[e] = Home[d] => pool'[e] = "none"
  <2>1. Home[d] # i /\ Closed(d)
    BY <1>1, <1>4 DEF Closed, UnderWay, Top
  <2> QED BY <1>1, <1>2, <1>3, <2>1 DEF Releases
<1> QED BY <1>1, <1>3, <1>4 DEF Releases

LEMMA ReleasesStep ==
  ASSUME SetUp, Pools, Releases, [StartupNext]_everything
  PROVE  Releases'
<1>1. CASE UNCHANGED <<kind, stack, answer, engines>>
  BY <1>1 DEF Releases, Closed, UnderWay, Top, engines
<1>2. ASSUME NEW c \in Call, call(c)
      PROVE  Releases'
  <2>1. /\ stack' = [stack EXCEPT ![c] = <<Frame(Function[c])>>]
        /\ answer' = [answer EXCEPT ![c] = "entered"]
        /\ UNCHANGED <<kind, engines>>
    BY <1>2 DEF call
  <2>2. \A d \in Call : Closed(d)' => Closed(d)
    BY <2>1 DEF Closed, UnderWay, Top, SetUp, Types
  <2> QED BY <2>1, <2>2 DEF Releases, engines
<1>3. ASSUME NEW c \in Call, run(c)
      PROVE  Releases'
  BY <1>1, <1>3 DEF run
<1>4. ASSUME NEW c \in Call, Code(c)
      PROVE  Releases'
  BY <1>4, CodeReleases
<1>5. ASSUME NEW c \in Call, Database(c)
      PROVE  Releases'
  BY <1>5, DatabaseReleases
<1>6. ASSUME NEW i \in Instance, crash(i)
      PROVE  Releases'
  BY <1>6, CrashReleases
<1>7. ASSUME NEW i \in Instance, another(i)
      PROVE  Releases'
  BY <1>1, <1>7 DEF another, control
<1>8. CASE UNCHANGED everything
  BY <1>1, <1>8 DEF everything, control
<1> QED BY <1>2, <1>3, <1>4, <1>5, <1>6, <1>7, <1>8 DEF StartupNext

(* The return of a shutdown is the step of its API function after the end.  *)
LEMMA ShutdownReturns ==
  ASSUME SetUp, NEW c \in Call, Function[c] = "shutdown", [StartupNext]_everything,
         answer[c] # "returned", answer'[c] = "returned"
  PROVE  Closed(c) /\ Runs(c) /\ UNCHANGED engines
<1>0. "returned" \notin Value
  BY StartupAssumption DEF Value
<1>1. ~UNCHANGED answer
  OBVIOUS
<1>2. PICK d \in Call : Code(d) \/ Database(d)
  <2>1. ~UNCHANGED everything
    BY <1>1 DEF everything, control
  <2>2. \A d \in Call : ~call(d) /\ ~run(d)
    BY DEF call, run, SetUp, Types
  <2>3. \A i \in Instance : ~crash(i) /\ ~another(i)
    BY DEF crash, another, control
  <2> QED BY <2>1, <2>2, <2>3 DEF StartupNext
<1>3. d = c /\ Goes(c) /\ Tail(stack[c]) = <<>>
  <2>1. \/ Entering(d) \/ Returning(d) \/ Building(d) \/ Awaiting(d)
        \/ connected(d) \/ \E calls \in SUBSET Call : Throwing(calls)
    <3>1. {d} \in SUBSET Call
      OBVIOUS
    <3> QED BY <1>2, <3>1, CodeSteps, DatabaseSteps
  <2>2. ~Entering(d) /\ ~Awaiting(d) /\ ~connected(d)
    BY DEF Entering, Enter, Awaiting, Await, connected, SetUp, Types
  <2>3. ASSUME NEW calls \in SUBSET Call, Throwing(calls)
        PROVE  FALSE
    BY <2>3 DEF Throwing, Throw
  <2>4. PICK v \in Value : Goes(d) /\ Return(d, v)
    <3>1. CASE Returning(d)
      BY <3>1 DEF Returning
    <3>2. CASE Building(d)
      BY <3>2 DEF Building, Build, Goes, Value
    <3> QED BY <2>1, <2>2, <2>3, <3>1, <3>2
  <2>5. d = c /\ Tail(stack[c]) = <<>>
    BY <1>0, <2>4 DEF Return, SetUp, Types
  <2> QED BY <2>4, <2>5
<1> DEFINE s == stack[c]
<1>4. /\ StackOK(s, answer[c], Function[c], registry[Home[c]])
      /\ s \in Seq(FrameType) /\ s # <<>> /\ Top(c) = s[1] /\ Top(c) \in FrameType
      /\ answer[c] \in Answer
  BY <1>3, GoingCalls
<1>5. Top(c).of = "shutdown"
  <2>1. Tail(s) = <<>> /\ s \in Seq(FrameType) /\ s # <<>>
    BY <1>3, <1>4
  <2>2. Len(s) = 1
    <3> HIDE DEF s
    <3>1. Len(Tail(s)) = 0
      <4>1. Len(<<>>) = 0
        OBVIOUS
      <4> QED BY <2>1, <4>1, Zenon
    <3>2. Len(Tail(s)) = Len(s) - 1 /\ Len(s) \in Nat
      BY <2>1
    <3> QED BY <3>1, <3>2
  <2> QED BY <1>4, <2>2 DEF StackOK
<1>6. api(c) /\ Runs(c)
  <2>1. ~Database(c)
    <3>1. waiting[c] # "nothing" => FALSE
      BY <1>5 DEF SetUp, Control
    <3>2. ~connected(c) /\ ~connectionFails(c)
      BY DEF connected, connectionFails, Throw, SetUp, Types
    <3> QED BY <3>1, <3>2 DEF Database, answered, ended
  <2>2. Code(c)
    BY <1>2, <1>3, <2>1
  <2> QED BY <1>5, <2>2, Names, Apis DEF Code, getter, resumeGetter, build, migrations,
          resumeMigrations, execSqlite, execPostgres, close, closeSqlite, api
<1> DEFINE frame == IF answer[c] = "entered" THEN Top(c)
                    ELSE [Top(c) EXCEPT !.got = Append(@, answer[c])]
<1>7. /\ Awaits["shutdown"][3] = "end" /\ Len(Awaits["shutdown"]) = 3
      /\ NeedsOf("shutdown") = Awaits["shutdown"] /\ "shutdown" \in Api
  BY Shutdowns, Apis, NeedsOfFacts
<1>8. frame.of = "shutdown" /\ Continue(c, frame) /\ UNCHANGED engines
  <2>1. frame.of = "shutdown"
    BY <1>4, <1>5 DEF FrameType
  <2> QED BY <1>6, <2>1 DEF api
<1>9. Top(c).got \in Seq(Answer) /\ Len(Top(c).got) \in Nat
  BY <1>4 DEF FrameType
<1>10. ~(Len(frame.got) < 3)
  <2> SUFFICES ASSUME Len(frame.got) < 3
               PROVE  FALSE
    OBVIOUS
  <2> HIDE DEF frame
  <2>1. \E frames : Enter(c, frames)
    BY <1>7, <1>8 DEF Continue
  <2>2. answer'[c] = "entered"
    BY <2>1 DEF Enter, SetUp, Types
  <2> QED BY <2>2
<1>11. answer[c] # "entered"
  <2>1. answer[c] = "entered" => frame.got = <<>>
    BY <1>4 DEF StackOK
  <2> QED BY <1>10, <2>1
<1>12. Len(Top(c).got) + 1 >= 3
  <2>1. frame.got = Append(Top(c).got, answer[c])
    BY <1>4, <1>11 DEF FrameType
  <2> QED BY <1>4, <1>9, <1>10, <2>1
<1>13. InAwait(Top(c))
  BY <1>4, <1>11 DEF StackOK
<1>14. Len(Top(c).got) = 2
  <2>1. Len(Top(c).got) < Len(NeedsOf(Top(c).of))
    BY <1>5, <1>13, Names DEF InAwait
  <2>2. Len(Top(c).got) < 3
    BY <1>5, <1>7, <2>1
  <2> DEFINE n == Len(Top(c).got)
  <2>3. n \in Nat /\ n + 1 >= 3 /\ n < 3
    BY <1>9, <1>12, <2>2
  <2> HIDE DEF n
  <2>4. n = 2
    BY <2>3
  <2> QED BY <2>4 DEF n
<1>15. Awaited(Top(c)) = "end"
  BY <1>5, <1>7, <1>14 DEF Awaited
<1> QED BY <1>4, <1>5, <1>6, <1>8, <1>11, <1>15 DEF Closed, UnderWay

LEMMA ReleasesHold ==
  ASSUME SetUp, Pools, Releases, [StartupNext]_everything, NEW c \in Call
  PROVE  ReleasesAll(c)
<1> SUFFICES ASSUME Function[c] = "shutdown", answer[c] # "returned", answer'[c] = "returned",
                    \A d \in Call \ {c} : Home[d] = Home[c] => ~UnderWay(d)
             PROVE  /\ db'[Home[c]] # "open"
                    /\ \A e \in Call : Home[e] = Home[c] =>
                         /\ pool'[e] # "open"
                         /\ connectionInProgress[e] # "rejected" => live'[e] = 0
  BY DEF ReleasesAll
<1>1. Closed(c) /\ Runs(c) /\ UNCHANGED engines
  BY ShutdownReturns
<1>2. /\ db[Home[c]] # "open"
      /\ \A e \in Call : Home[e] = Home[c] => pool[e] = "none"
  BY <1>1 DEF Releases
<1>3. \A d \in Call : Home[d] = Home[c] => waiting[d] = "nothing"
  BY <1>1 DEF SetUp, Control, Busy
<1>4. ASSUME NEW e \in Call, Home[e] = Home[c], connectionInProgress[e] # "rejected"
      PROVE  live[e] = 0
  <2>1. connectionInProgress[e] # "pending"
    BY <1>3, <1>4 DEF Pools
  <2>2. PoolState(pool[e], connectionInProgress[e], live[e]) /\ pool[e] = "none"
    BY <1>2, <1>4 DEF Pools
  <2> QED BY <1>4, <2>1, <2>2 DEF PoolState
<1> QED BY <1>1, <1>2, <1>4 DEF engines

(* A shutdown that returns when no other call of its instance is under way  *)
(* leaves nothing open.                                                     *)
THEOREM ShutdownLeavesNothingOpen ==
  ASSUME MaxTogether = 1
  PROVE  StartupSpec => ShutdownReleases
<1>1. SetUp /\ [StartupNext]_everything => SetUp'
  BY SetUpStep
<1>2. SetUp /\ Pools /\ [StartupNext]_everything => Pools'
  BY PoolsStep
<1>3. SetUp /\ Pools /\ Releases /\ [StartupNext]_everything => Releases'
  BY ReleasesStep
<1>4. SetUp /\ Pools /\ Releases /\ [StartupNext]_everything
        => [\A c \in Call : ReleasesAll(c)]_everything
  BY ReleasesHold
<1> QED BY <1>1, <1>2, <1>3, <1>4, SetUpInit, PoolsInit, ReleasesInit, PTL
        DEF StartupSpec, ShutdownReleases
=============================================================================
