--------------------------------- MODULE Startup ---------------------------------
(***************************************************************************)
(* How the first calls on an IohTee instance set it up                     *)
(*   packages/iohtee/src/IohTee.ts, Registry.ts, Storage.ts                *)
(*   packages/iohtee/src/storage/sqlite/EngineSqlite.ts                    *)
(*   packages/iohtee/src/storage/postgresql/EnginePostgres.ts              *)
(* Every API function awaits checkMigrationsState and then getters of the  *)
(* registry, which build what they return when it is first asked for, with *)
(* awaits between the test of a field and its assignment.  The statements  *)
(* of a migration are those of Migration.  Each instance is a process of   *)
(* its own: one call runs at a time, from one await to the next, and an    *)
(* answer of the database is delivered when none is ready to run.          *)
(***************************************************************************)
EXTENDS Migration, Sequences, FiniteSets

CONSTANTS
  None,
  Kinds,         \* protocols of databaseUrl: "sqlite", "postgresql"
  Function,      \* the API function of each call
  MaxTogether    \* calls that are made without awaiting between them

(* What each getter of Registry awaits before it builds its object.         *)
Needs == [
  channelEthContract |-> <<>>,
  inflator           |-> <<"channelEthContract">>,
  storage            |-> <<"inflator", "build">>,
  chainManager       |-> <<>>,
  channelContract    |-> <<"channelEthContract", "storage">>,
  paymentManager     |-> <<"chainManager", "channelContract">>,
  channelManager     |-> <<"storage", "channelContract", "paymentManager">>,
  client             |-> <<"channelManager">> ]

(* What each API function awaits; a statement stands for its work.          *)
Buying == [
  buy         |-> <<"migrations", "client", "channelManager", "migrations",
                    "channelManager", "statement">>,
  payment     |-> <<"migrations", "channelManager", "migrations",
                    "channelManager", "statement">>,
  pry         |-> <<"migrations", "client">> ]

OnChannels ==
  [function \in {"deposit", "open", "channels", "channelById", "close"} |->
     <<"migrations", "channelManager", "statement">>]

Accepting == [
  acceptPayment |-> <<"migrations", "client", "statement">>,
  acceptToken   |-> <<"migrations", "client", "statement">>,
  paymentById   |-> <<"migrations", "storage", "statement">>,
  shutdown      |-> <<"migrations", "storage", "end">> ]

Awaits ==
  [function \in UNION {DOMAIN Buying, DOMAIN OnChannels, DOMAIN Accepting} |->
     CASE function \in DOMAIN Buying -> Buying[function]
       [] function \in DOMAIN OnChannels -> OnChannels[function]
       [] function \in DOMAIN Accepting -> Accepting[function]]

Getter == DOMAIN Needs

ASSUME StartupAssumption == /\ Function \in [Call -> DOMAIN Awaits]
                            /\ None \notin Call
                            /\ {"unmade", "entered", "returned", "threw"}
                                 \cap (Call \cup {None}) = {}
                            /\ Kinds \subseteq {"sqlite", "postgresql"}
                            /\ MaxTogether \in Nat \ {0}

VARIABLES
  kind,          \* the protocol of databaseUrl
  registry,      \* the fields of each instance's registry
  parts,         \* what the object a call built in a getter is made of
  stack,         \* the async functions each call is in, the innermost first
  answer,        \* what the innermost await of a call came to
  running,       \* the call each process is running
  ready,         \* calls whose await is over
  waiting,       \* calls waiting for the database, and for what
  pool,          \* EnginePostgres.pool
  connectionInProgress,  \* EnginePostgres.connectionInProgress
  live,          \* connection pools created and not ended, per engine
  db             \* the map db of EngineSqlite.ts: each process's open file

objects == <<registry, parts>>
control == <<stack, answer, running, ready, waiting>>
engines == <<pool, connectionInProgress, live, db>>
everything == <<vars, kind, objects, control, engines>>

\* An object is named after the call that built it, an engine after its storage.
StartupInit ==
  /\ Init
  /\ kind \in Kinds
  /\ registry = [i \in Instance |-> [g \in Getter |-> None]]
  /\ parts = [g \in Getter |-> [c \in Call |-> <<>>]]
  /\ stack = [c \in Call |-> <<>>]
  /\ answer = [c \in Call |-> "unmade"]
  /\ running = [i \in Instance |-> None]
  /\ ready = {}
  /\ waiting = [c \in Call |-> "nothing"]
  /\ pool = [c \in Call |-> "none"]
  /\ connectionInProgress = [c \in Call |-> "none"]
  /\ live = [c \in Call |-> 0]
  /\ db = [i \in Instance |-> "none"]

Frame(of) == [of |-> of, got |-> <<>>]
Top(c) == Head(stack[c])
Runs(c) == running[Home[c]] = c
UnderWay(c) == stack[c] # <<>>
Quiet(i) == running[i] = None /\ \A c \in ready : Home[c] # i

-----------------------------------------------------------------------------
(* The event loop. *)

\* The call is in its next function, at once.
Enter(c, frames) ==
  /\ stack' = [stack EXCEPT ![c] = frames]
  /\ answer' = [answer EXCEPT ![c] = "entered"]
  /\ UNCHANGED <<running, ready, waiting>>

\* The innermost function returns; what awaits it goes on later.
Return(c, value) ==
  /\ stack' = [stack EXCEPT ![c] = Tail(@)]
  /\ answer' = [answer EXCEPT ![c] = IF Tail(stack[c]) = <<>> THEN "returned" ELSE value]
  /\ running' = [running EXCEPT ![Home[c]] = None]
  /\ ready' = IF Tail(stack[c]) = <<>> THEN ready ELSE ready \cup {c}
  /\ waiting' = [waiting EXCEPT ![c] = "nothing"]

Await(c, what) ==
  /\ waiting' = [waiting EXCEPT ![c] = what]
  /\ running' = [running EXCEPT ![Home[c]] = None]
  /\ UNCHANGED <<stack, answer, ready>>

\* No function of these catches anything: the calls throw.
Throw(calls) ==
  /\ stack' = [c \in Call |-> IF c \in calls THEN <<>> ELSE stack[c]]
  /\ answer' = [c \in Call |-> IF c \in calls THEN "threw" ELSE answer[c]]
  /\ running' = [i \in Instance |-> IF running[i] \in calls THEN None ELSE running[i]]
  /\ ready' = ready \ calls
  /\ waiting' = [c \in Call |-> IF c \in calls THEN "nothing" ELSE waiting[c]]
  /\ fail(calls)

Unstarted(c) == answer[c] = "entered" /\ Len(stack[c]) = 1 /\ Top(c).got = <<>>

\* An API function is called, alone or together with others.
call(c) ==
  /\ answer[c] = "unmade"
  /\ running[Home[c]] = None
  /\ LET together == {d \in ready : Home[d] = Home[c]} IN
       /\ \A d \in together : Unstarted(d)
       /\ Cardinality(together) < MaxTogether
  /\ stack' = [stack EXCEPT ![c] = <<Frame(Function[c])>>]
  /\ answer' = [answer EXCEPT ![c] = "entered"]
  /\ ready' = ready \cup {c}
  /\ UNCHANGED <<vars, kind, objects, engines, running, waiting>>

run(c) ==
  /\ c \in ready
  /\ running[Home[c]] = None
  /\ Unstarted(c) \/ \A d \in ready : Home[d] = Home[c] => ~Unstarted(d)
  /\ running' = [running EXCEPT ![Home[c]] = c]
  /\ ready' = ready \ {c}
  /\ UNCHANGED <<vars, kind, objects, engines, stack, answer, waiting>>

-----------------------------------------------------------------------------
(* The registry. *)

Field(c, g) == registry[Home[c]][g]

Build(c, g, from) ==
  /\ registry' = [registry EXCEPT ![Home[c]][g] = c]
  /\ parts' = [parts EXCEPT ![g][c] = from]
  /\ Return(c, c)

\* "if (!this.x)", up to the first await.
getter_Rebuilds(c) ==
  LET g == Top(c).of IN
  /\ Runs(c) /\ g \in Getter /\ answer[c] = "entered"
  /\ \/ Needs[g] = <<>> /\ Build(c, g, <<>>)
     \/ Needs[g] # <<>> /\ Enter(c, <<Frame(Needs[g][1])>> \o stack[c]) /\ UNCHANGED objects
  /\ UNCHANGED <<vars, kind, engines>>
getter(c) ==
  LET g == Top(c).of IN
  /\ Runs(c) /\ g \in Getter /\ answer[c] = "entered"
  /\ \/ Field(c, g) # None /\ Return(c, Field(c, g)) /\ UNCHANGED objects
     \/ Field(c, g) = None /\ Needs[g] = <<>> /\ Build(c, g, <<>>)
     \/ /\ Field(c, g) = None /\ Needs[g] # <<>>
        /\ Enter(c, <<Frame(Needs[g][1])>> \o stack[c])
        /\ UNCHANGED objects
  /\ UNCHANGED <<vars, kind, engines>>

\* After an await of a getter: the next one, or "this.x = new ...".
resumeGetter(c) ==
  LET g == Top(c).of
      got == Append(Top(c).got, answer[c])
  IN
  /\ Runs(c) /\ g \in Getter /\ answer[c] # "entered"
  /\ IF Len(got) < Len(Needs[g])
     THEN /\ Enter(c, <<Frame(Needs[g][Len(got) + 1]), [of |-> g, got |-> got]>>
                        \o Tail(stack[c]))
          /\ UNCHANGED objects
     ELSE Build(c, g, got)
  /\ UNCHANGED <<vars, kind, engines>>

\* new EngineSqlite: the file is opened once in a process, and never forgotten.
EngineSqlite(i) == db' = [db EXCEPT ![i] = IF @ = "none" THEN "open" ELSE @]

\* Storage.build: an engine; that of PostgreSQL makes a pool when it needs it.
build(c) ==
  /\ Runs(c) /\ Top(c).of = "build"
  /\ IF kind = "sqlite" THEN EngineSqlite(Home[c]) ELSE UNCHANGED db
  /\ Return(c, c)
  /\ UNCHANGED <<vars, kind, objects, pool, connectionInProgress, live>>

-----------------------------------------------------------------------------
(* The API functions and checkMigrationsState. *)

\* The next await of an API function; its last one is also its return.
Continue(c, frame) ==
  LET needs == Awaits[frame.of] IN
  IF Len(frame.got) < Len(needs)
  THEN Enter(c, <<Frame(needs[Len(frame.got) + 1]), frame>>)
  ELSE Return(c, None)

api(c) ==
  LET frame == Top(c) IN
  /\ Runs(c) /\ frame.of \in DOMAIN Awaits
  /\ Continue(c, IF answer[c] = "entered" THEN frame
                 ELSE [frame EXCEPT !.got = Append(@, answer[c])])
  /\ UNCHANGED <<vars, kind, objects, engines>>

\* The flag is tested once; then the storage is needed.
migrations(c) ==
  /\ Runs(c) /\ Top(c).of = "migrations" /\ answer[c] = "entered"
  /\ \/ pc[c] = "idle" /\ checkMigrationsState(c)
     \/ pc[c] # "idle" /\ UNCHANGED vars
  /\ IF migrated[Home[c]] THEN Return(c, None)
     ELSE Enter(c, <<Frame("storage")>> \o stack[c])
  /\ UNCHANGED <<kind, objects, engines>>

\* isLatest and sync, one statement after the other.
resumeMigrations(c) ==
  LET frame == [Top(c) EXCEPT !.got = IF @ = <<>> THEN <<answer[c]>> ELSE @] IN
  /\ Runs(c) /\ Top(c).of = "migrations" /\ answer[c] # "entered"
  /\ \/ pc[c] = "proceeded" /\ Return(c, None) /\ UNCHANGED vars
     \/ pc[c] = "threw" /\ Throw({c})
     \/ /\ pc[c] \notin Over
        /\ Enter(c, <<Frame("statement"), frame>> \o Tail(stack[c]))
        /\ UNCHANGED vars
  /\ UNCHANGED <<kind, objects, engines>>

-----------------------------------------------------------------------------
(* The engines. *)

Last(frame) == frame.got[Len(frame.got)]

StorageOf(object, name) ==
  CASE name = "storage" -> object
    [] name = "channelManager" -> parts["channelManager"][object][1]
    [] name = "client" -> parts["channelManager"][parts["client"][object][1]][1]

\* The engine of the object the function around the statement got last.
Engine(c) ==
  LET frame == stack[c][2] IN
  IF frame.of = "migrations" THEN Last(frame)
  ELSE StorageOf(Last(frame), Awaits[frame.of][Len(frame.got)])

InMigration(c) == stack[c][2].of = "migrations"

\* The statement is executed.
Effect(c) == IF InMigration(c) THEN Step(c) ELSE UNCHANGED vars

\* EngineSqlite.exec: a synchronous call on the file, which throws if it is closed.
execSqlite(c) ==
  /\ Runs(c) /\ Top(c).of = "statement" /\ kind = "sqlite"
  /\ IF db[Home[c]] = "open" THEN Effect(c) /\ Return(c, None)
     ELSE Throw({c})
  /\ UNCHANGED <<kind, objects, engines>>

inProgress_Unseen(e) == connectionInProgress[e] = "rejected"
inProgress(e) == connectionInProgress[e] # "none"

\* EnginePostgres.exec and ensureConnection.
execPostgres(c) ==
  LET e == Engine(c) IN
  /\ Runs(c) /\ Top(c).of = "statement" /\ kind = "postgresql"
  /\ \/ pool[e] = "open" /\ Await(c, "answer") /\ UNCHANGED <<vars, engines>>
     \/ /\ \/ pool[e] = "ending"
           \/ pool[e] = "none" /\ inProgress(e) /\ connectionInProgress[e] = "rejected"
        /\ Throw({c}) /\ UNCHANGED engines
     \/ /\ pool[e] = "none" /\ inProgress(e) /\ connectionInProgress[e] = "pending"
        /\ Await(c, "connection") /\ UNCHANGED <<vars, engines>>
     \/ /\ pool[e] = "none" /\ ~inProgress(e)
        /\ connectionInProgress' = [connectionInProgress EXCEPT ![e] = "pending"]
        /\ live' = [live EXCEPT ![e] = @ + 1]
        /\ Await(c, "connection")
        /\ UNCHANGED <<vars, pool, db>>
  /\ UNCHANGED <<kind, objects>>

Waits(what, e) == {c \in Call : waiting[c] = what /\ Engine(c) = e}

\* The pool's first query is answered: every call that waited sends its own.
connected_WakesOne(e) ==
  /\ connectionInProgress[e] = "pending"
  /\ Quiet(Home[e])
  /\ connectionInProgress' = [connectionInProgress EXCEPT ![e] = "resolved"]
  /\ pool' = [pool EXCEPT ![e] = "open"]
  /\ \E c \in Waits("connection", e) : waiting' = [waiting EXCEPT ![c] = "answer"]
  /\ UNCHANGED <<vars, kind, objects, stack, answer, running, ready, live, db>>
connected(e) ==
  /\ connectionInProgress[e] = "pending"
  /\ Quiet(Home[e])
  /\ connectionInProgress' = [connectionInProgress EXCEPT ![e] = "resolved"]
  /\ pool' = [pool EXCEPT ![e] = "open"]
  /\ waiting' = [c \in Call |-> IF c \in Waits("connection", e) THEN "answer" ELSE waiting[c]]
  /\ UNCHANGED <<vars, kind, objects, stack, answer, running, ready, live, db>>

\* The promise stays rejected, and with that every later statement.
connectionFails(e) ==
  /\ connectionInProgress[e] = "pending"
  /\ Quiet(Home[e])
  /\ connectionInProgress' = [connectionInProgress EXCEPT ![e] = "rejected"]
  /\ Throw(Waits("connection", e))
  /\ UNCHANGED <<kind, objects, pool, live, db>>

answered(c) ==
  /\ waiting[c] = "answer"
  /\ Quiet(Home[c])
  /\ \/ Effect(c) /\ Return(c, None)
     \/ Throw({c})
  /\ UNCHANGED <<kind, objects, engines>>

\* close: what shutdown awaits last.
close_Forgets(c) ==
  /\ Runs(c) /\ Top(c).of = "end"
  /\ pool' = [pool EXCEPT ![Engine(c)] = "none"]
  /\ connectionInProgress' = [connectionInProgress EXCEPT ![Engine(c)] = "none"]
  /\ Return(c, None)
  /\ UNCHANGED <<vars, kind, objects, live, db>>
close(c) ==
  LET e == Engine(c) IN
  /\ Runs(c) /\ Top(c).of = "end"
  /\ \/ /\ kind = "postgresql" /\ pool[e] = "none"
        /\ Return(c, None) /\ UNCHANGED <<vars, engines>>
     \/ /\ kind = "postgresql" /\ pool[e] = "open"
        /\ pool' = [pool EXCEPT ![e] = "ending"]
        /\ Await(c, "end")
        /\ UNCHANGED <<vars, connectionInProgress, live, db>>
     \/ /\ kind = "postgresql" /\ pool[e] = "ending"
        /\ Throw({c}) /\ UNCHANGED engines
  /\ UNCHANGED <<kind, objects>>

closeSqlite(c) ==
  LET i == Home[c] IN
  /\ Runs(c) /\ Top(c).of = "end" /\ kind = "sqlite"
  /\ IF db[i] = "open"
     THEN Return(c, None) /\ UNCHANGED vars
     ELSE Throw({c})
  /\ db' = [db EXCEPT ![i] = "closed"]
  /\ UNCHANGED <<kind, objects, pool, connectionInProgress, live>>

\* The pool has ended, after the queries that were under way.
ended(c) ==
  LET e == Engine(c) IN
  /\ waiting[c] = "end"
  /\ Quiet(Home[c])
  /\ Waits("answer", e) = {}
  /\ pool' = [pool EXCEPT ![e] = "none"]
  /\ connectionInProgress' = [connectionInProgress EXCEPT ![e] = "none"]
  /\ live' = [live EXCEPT ![e] = @ - 1]
  /\ Return(c, None)
  /\ UNCHANGED <<vars, kind, objects, db>>

\* The application, having shut its instance down, makes another in the process,
\* on the same database; what the module EngineSqlite keeps stays.
another(i) ==
  /\ Quiet(i)
  /\ \A c \in Call : Home[c] = i => ~UnderWay(c)
  /\ \E c \in Call : Home[c] = i /\ Function[c] = "shutdown" /\ answer[c] = "returned"
  /\ \A e \in Call : Home[e] = i => pool[e] # "open"
  /\ \E c \in Call : Home[c] = i /\ answer[c] = "unmade"
  /\ \E g \in Getter : registry[i][g] # None
  /\ restart(i)
  /\ registry' = [registry EXCEPT ![i] = [g \in Getter |-> None]]
  /\ parts' = [g \in Getter |-> [c \in Call |-> IF Home[c] = i THEN <<>> ELSE parts[g][c]]]
  /\ UNCHANGED <<kind, control, engines>>

\* The process stops, and starts again with a new instance.
crash(i) ==
  LET dead == {c \in Call : Home[c] = i /\ UnderWay(c)} IN
  /\ running[i] = None
  /\ restart(i)
  /\ stack' = [c \in Call |-> IF c \in dead THEN <<>> ELSE stack[c]]
  /\ answer' = [c \in Call |-> IF c \in dead THEN "threw" ELSE answer[c]]
  /\ running' = [running EXCEPT ![i] = None]
  /\ ready' = ready \ dead
  /\ waiting' = [c \in Call |-> IF c \in dead THEN "nothing" ELSE waiting[c]]
  /\ registry' = [registry EXCEPT ![i] = [g \in Getter |-> None]]
  /\ parts' = [g \in Getter |-> [c \in Call |-> IF Home[c] = i THEN <<>> ELSE parts[g][c]]]
  /\ pool' = [c \in Call |-> IF Home[c] = i THEN "none" ELSE pool[c]]
  /\ connectionInProgress' =
       [c \in Call |-> IF Home[c] = i THEN "none" ELSE connectionInProgress[c]]
  /\ live' = [c \in Call |-> IF Home[c] = i THEN 0 ELSE live[c]]
  /\ db' = [db EXCEPT ![i] = "none"]
  /\ UNCHANGED kind

Code(c) == \/ getter(c)
           \/ resumeGetter(c)
           \/ build(c)
           \/ api(c)
           \/ migrations(c)
           \/ resumeMigrations(c)
           \/ execSqlite(c)
           \/ execPostgres(c)
           \/ close(c)
           \/ closeSqlite(c)
Database(c) == connected(c) \/ connectionFails(c) \/ answered(c) \/ ended(c)

StartupNext ==
  \/ \E c \in Call : call(c) \/ run(c) \/ Code(c) \/ Database(c)
  \/ \E i \in Instance : crash(i) \/ another(i)

StartupSpec == StartupInit /\ [][StartupNext]_everything

(* A process goes on while it has something to run or an answer comes, and  *)
(* the database answers or fails.                                           *)
FairStartup ==
  /\ StartupSpec
  /\ \A i \in Instance :
       WF_everything(\E c \in Call : Home[c] = i /\ (run(c) \/ Code(c) \/ Database(c)))
-----------------------------------------------------------------------------
(* Properties. *)

(* When no two first calls are made without an await between them, each     *)
(* object of an instance is built once, although every getter awaits before *)
(* it assigns: no two channel managers, with a mutex each, are ever in use. *)
BuiltOnce ==
  \A i \in Instance : \A g \in Getter :
    Cardinality({c \in Call : Home[c] = i /\ parts[g][c] # <<>>}) <= 1

(* A process has at most one connection pool at a time, also while a        *)
(* connection is in progress or a pool is being closed, and when another    *)
(* instance follows one that was shut down (a pool that could not connect   *)
(* holds nothing); and no engine makes a second one before it closed the    *)
(* first.                                                                   *)
OnePool ==
  \A i \in Instance :
    /\ Cardinality({e \in Call : /\ Home[e] = i /\ live[e] > 0
                                 /\ connectionInProgress[e] # "rejected"}) <= 1
    /\ \A e \in Call : live[e] <= 1

(* A shutdown that returns when no other call of the instance is under way  *)
(* leaves nothing open, no file and no pool that keeps the process from     *)
(* ending (a pool that could not connect holds nothing), also when the      *)
(* instance is not the process's first.                                     *)
ReleasesAll(c) ==
  (/\ Function[c] = "shutdown"
   /\ answer[c] # "returned" /\ answer'[c] = "returned"
   /\ \A d \in Call \ {c} : Home[d] = Home[c] => ~UnderWay(d))
     => /\ db'[Home[c]] # "open"
        /\ \A e \in Call : Home[e] = Home[c] =>
          pool'[e] # "open" /\ (connectionInProgress[e] # "rejected" => live'[e] = 0)
ShutdownReleases == [][\A c \in Call : ReleasesAll(c)]_everything

(* Every API call returns or throws, whatever fails: in the end none is     *)
(* under way.                                                               *)
EveryApiCallEnds == []<>(\A c \in Call : ~UnderWay(c))
=============================================================================
