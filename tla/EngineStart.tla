------------------------------ MODULE EngineStart ------------------------------
(***************************************************************************)
(* How a process comes to its configuration and its engine: init() and     *)
(* get_config() over the OnceLock CONFIG_RESOLVER (config/resolver.rs),    *)
(* and get_engine_state() with build_engine_state() over the OnceLock      *)
(* ENGINE_STATE (holonomy-py/src/lib.rs), called by several threads.  A    *)
(* configuration maps fields to values; a layer sets some of the fields.   *)
(* The bucket is a pair <<scheme, name>>, the public key its verdict.      *)
(***************************************************************************)
EXTENDS Naturals, Sequences

CONSTANTS
  Threads,      \* the threads of the Python process
  Places,       \* what the process can find: the TOML files and the environment
  Overrides,    \* the arguments init() is called with, as layers
  MaxCalls,     \* bound: calls one thread makes
  None,         \* no value
  Malformed,    \* the content of a file that does not parse as a Configuration
  Unparsed      \* the text of an environment variable that is not a u32

Fields == {"provider", "key_id", "endpoint", "credential", "central_bucket",
           "public_key", "cache_ttl_hours", "telemetry", "license"}

\* init() has no argument for the license, whatever else it can set.
OverrideFields == Fields \ {"license"}

IsLayer(l) == l = [f \in DOMAIN l |-> l[f]] /\ DOMAIN l \subseteq Fields

IsFile(file) == file \in {None, Malformed} \/ IsLayer(file)

ASSUME CallsAssumption == MaxCalls \in Nat

ASSUME PlacesAssumption ==
  \A place \in Places :
    /\ IsFile(place.system) /\ IsFile(place.user) /\ IsLayer(place.env)
    /\ Len(place.project) \in Nat /\ DOMAIN place.project = 1..Len(place.project)
    /\ \A i \in 1..Len(place.project) : IsFile(place.project[i])

ASSUME OverridesAssumption == \A l \in Overrides : IsLayer(l) /\ DOMAIN l \subseteq OverrideFields

--------------------------------------------------------------------------------
(* The cascade.                                                              *)

NoLayer == [f \in {} |-> None]

\* merge_config: what over sets wins, the rest of base stays.
merge_config(base, over) ==
  [f \in DOMAIN base \cup DOMAIN over |-> IF f \in DOMAIN over THEN over[f] ELSE base[f]]

\* A file that is missing or does not parse sets nothing, without a word.
Toml(file) == IF file \in {None, Malformed} THEN NoLayer ELSE file

\* The crawl from the working directory upwards ends at the first file that
\* can be read, whether or not it parses.
ProjectToml(files) ==
  IF \A i \in DOMAIN files : files[i] = None THEN None
  ELSE files[CHOOSE i \in DOMAIN files : files[i] # None /\ \A j \in 1..(i - 1) : files[j] = None]

\* A cache_ttl_hours that is not a number is as good as not set.
Environment(env) ==
  [f \in {g \in DOMAIN env : g # "cache_ttl_hours" \/ env[g] # Unparsed} |-> env[f]]

Default(f) == IF f = "cache_ttl_hours" THEN 24
              ELSE IF f = "central_bucket" THEN <<"", "">>
              ELSE IF f = "license" THEN None ELSE ""

\* The scheme is taken off the bucket of an s3:// or r2:// address.
Finalized(f, value) ==
  IF f = "central_bucket" /\ value[1] \in {"s3", "r2"} THEN <<"", value[2]>> ELSE value

resolve_configuration(place, programmatic) ==
  LET merged == merge_config(merge_config(merge_config(merge_config(
                  Toml(place.system), Toml(place.user)), Toml(ProjectToml(place.project))),
                  Environment(place.env)), programmatic)
  IN [f \in Fields |-> Finalized(f, IF f \in DOMAIN merged THEN merged[f] ELSE Default(f))]

\* Every configuration the process can resolve.
Configurations ==
  {resolve_configuration(p, l) : p \in Places, l \in Overrides \cup {NoLayer}}

ASSUME NoneAssumption ==
  None \notin Threads \cup Overrides \cup Nat \cup Configurations \cup {"ok", "error"}

--------------------------------------------------------------------------------
(* What build_engine_state makes of a configuration.                         *)

Bucket(name) == <<"", name>>

IsLocal(c) == c.central_bucket \in {Bucket("mock"), Bucket("local")}

KmsProvider(c) == IF IsLocal(c) THEN "mock" ELSE IF c.provider = "" THEN "gcp" ELSE c.provider

\* The settings no provider can be built from.
KmsRefused(c) ==
  \/ KmsProvider(c) \notin {"gcp", "aws", "vault", "mock"}
  \/ KmsProvider(c) # "mock" /\ c.key_id = ""
  \/ KmsProvider(c) = "vault" /\ c.endpoint = ""

\* gcp looks for credentials, vault without one for a token: either may fail.
KmsMayFail(c) == KmsProvider(c) = "gcp" \/ (KmsProvider(c) = "vault" /\ c.credential = "")

\* A local provider signs with a key of its own; else the key must be given.
KeyRefused(c) == ~IsLocal(c) /\ c.public_key # "hex32"

Refused(c) == c.central_bucket = Bucket("") \/ KmsRefused(c) \/ KeyRefused(c)

--------------------------------------------------------------------------------
VARIABLES
  place,        \* what the process finds around it
  cell,         \* CONFIG_RESOLVER: None, or the configuration
  resolver,     \* the thread inside CONFIG_RESOLVER's get_or_init, if any
  engine,       \* ENGINE_STATE: None, or the buffer of the engine in use
  listened,     \* the audit buffers a running broadcaster drains
  licensed,     \* LICENSE_VALID
  buffers,      \* the audit buffers created so far
  call          \* each thread's call

vars == <<place, cell, resolver, engine, listened, licensed, buffers, call>>

\* at: where the call stands; programmatic: the arguments of init; config:
\* the configuration it resolved or reads; buffer: the one it created, and
\* when it is back the one its engine pushes to; made: calls made so far.
Idle == [at |-> "idle", programmatic |-> None, config |-> None, buffer |-> None,
         result |-> None, made |-> 0]

Building == {"license", "telemetry", "provider", "publish"}

Positions == {"idle", "init", "config", "resolving"} \cup Building

Init ==
  /\ place \in Places
  /\ cell = None /\ resolver = None
  /\ engine = None /\ listened = {} /\ licensed = FALSE /\ buffers = 0
  /\ call = [t \in Threads |-> Idle]

At(t, where) == call[t].at = where

Goes(t, where) == call' = [call EXCEPT ![t].at = where]

\* The call comes back with a result, pushing to the buffer of its engine.
Back(t, result, buffer) ==
  call' = [call EXCEPT ![t].at = "idle", ![t].result = result, ![t].buffer = buffer]

--------------------------------------------------------------------------------
(* init(): the arguments are resolved before the cell is looked at.          *)

CallInit(t) ==
  /\ At(t, "idle") /\ call[t].made < MaxCalls
  /\ \E programmatic \in Overrides :
       call' = [call EXCEPT ![t] =
                  [Idle EXCEPT !.at = "init", !.programmatic = programmatic,
                               !.config = resolve_configuration(place, programmatic),
                               !.made = call[t].made + 1]]
  /\ UNCHANGED <<place, cell, resolver, engine, listened, licensed, buffers>>

\* init() answers Ok whether or not it was first.
SetConfig_alwaysOk(t) ==
  /\ At(t, "init") /\ resolver = None
  /\ cell' = IF cell = None THEN call[t].config ELSE cell
  /\ Back(t, "ok", None)
  /\ UNCHANGED <<place, resolver, engine, listened, licensed, buffers>>

\* OnceLock::set waits while another thread initialises the cell.
SetConfig(t) ==
  /\ At(t, "init") /\ resolver = None
  /\ cell' = IF cell = None THEN call[t].config ELSE cell
  /\ Back(t, IF cell = None THEN "ok" ELSE "error", None)
  /\ UNCHANGED <<place, resolver, engine, listened, licensed, buffers>>

--------------------------------------------------------------------------------
(* read(), scan(), write() and Writer: get_engine_state().                   *)

UseEngine(t) ==
  /\ At(t, "idle") /\ call[t].made < MaxCalls /\ engine # None
  /\ call' = [call EXCEPT ![t] = [Idle EXCEPT !.config = cell, !.buffer = engine,
                                              !.result = "ok", !.made = call[t].made + 1]]
  /\ UNCHANGED <<place, cell, resolver, engine, listened, licensed, buffers>>

FindNoEngine(t) ==
  /\ At(t, "idle") /\ call[t].made < MaxCalls /\ engine = None
  /\ call' = [call EXCEPT ![t] = [Idle EXCEPT !.at = "config", !.made = call[t].made + 1]]
  /\ UNCHANGED <<place, cell, resolver, engine, listened, licensed, buffers>>

\* get_or_init on a cell that is set; build_engine_state makes its buffer.
GetConfig(t) ==
  /\ At(t, "config") /\ cell # None
  /\ call' = [call EXCEPT ![t].at = "license", ![t].config = cell, ![t].buffer = buffers]
  /\ buffers' = buffers + 1
  /\ UNCHANGED <<place, cell, resolver, engine, listened, licensed>>

\* the cell does not keep a second thread out.
BeginResolve_unguarded(t) ==
  /\ At(t, "config") /\ cell = None
  /\ resolver' = t
  /\ Goes(t, "resolving")
  /\ UNCHANGED <<place, cell, engine, listened, licensed, buffers>>

\* get_or_init on an empty cell: one thread resolves, the others wait.
BeginResolve(t) ==
  /\ At(t, "config") /\ cell = None /\ resolver = None
  /\ resolver' = t
  /\ Goes(t, "resolving")
  /\ UNCHANGED <<place, cell, engine, listened, licensed, buffers>>

EndResolve(t) ==
  /\ At(t, "resolving")
  /\ cell' = resolve_configuration(place, NoLayer)
  /\ resolver' = None
  /\ Goes(t, "config")
  /\ UNCHANGED <<place, engine, listened, licensed, buffers>>

\* resolve_and_verify_license: a configured key decides, a bad one too; else
\* the bucket's holonomy.lic, which is there and valid or not.
ResolveLicense(t) ==
  /\ At(t, "license")
  /\ LET c == call[t].config
     IN IF c.license # None THEN licensed' = (licensed \/ c.license = "valid")
        ELSE IF c.central_bucket = Bucket("") THEN UNCHANGED licensed
        ELSE licensed' \in {licensed, TRUE}
  /\ Goes(t, "telemetry")
  /\ UNCHANGED <<place, cell, resolver, engine, listened, buffers>>

\* no second broadcaster in one process.
StartBroadcaster_once(t) ==
  /\ At(t, "telemetry")
  /\ listened' = IF call[t].config.telemetry = "" \/ listened # {} THEN listened
                 ELSE listened \cup {call[t].buffer}
  /\ Goes(t, "provider")
  /\ UNCHANGED <<place, cell, resolver, engine, licensed, buffers>>

\* The broadcaster starts before anything of the engine can fail.
StartBroadcaster(t) ==
  /\ At(t, "telemetry")
  /\ listened' = IF call[t].config.telemetry = "" THEN listened
                 ELSE listened \cup {call[t].buffer}
  /\ Goes(t, "provider")
  /\ UNCHANGED <<place, cell, resolver, engine, licensed, buffers>>

Build(t) ==
  /\ At(t, "provider") /\ ~Refused(call[t].config)
  /\ Goes(t, "publish")
  /\ UNCHANGED <<place, cell, resolver, engine, listened, licensed, buffers>>

\* a refused provider is tried again.
BuildFails_retries(t) ==
  /\ At(t, "provider") /\ (Refused(call[t].config) \/ KmsMayFail(call[t].config))
  /\ Goes(t, "telemetry")
  /\ UNCHANGED <<place, cell, resolver, engine, listened, licensed, buffers>>

\* The buffer is dropped with the call, its broadcaster goes on for ever.
BuildFails(t) ==
  /\ At(t, "provider") /\ (Refused(call[t].config) \/ KmsMayFail(call[t].config))
  /\ Back(t, "error", None)
  /\ UNCHANGED <<place, cell, resolver, engine, listened, licensed, buffers>>

\* `let _ = ENGINE_STATE.set(state)`: the first wins, all use the winner's.
Publish(t) ==
  /\ At(t, "publish")
  /\ engine' = IF engine = None THEN call[t].buffer ELSE engine
  /\ Back(t, "ok", engine')
  /\ UNCHANGED <<place, cell, resolver, listened, licensed, buffers>>

--------------------------------------------------------------------------------
(* The steps of a call that was made.                                        *)
Runs(t) ==
  \/ SetConfig(t) \/ GetConfig(t) \/ BeginResolve(t) \/ EndResolve(t)
  \/ ResolveLicense(t) \/ StartBroadcaster(t)
  \/ Build(t) \/ BuildFails(t) \/ Publish(t)

Next == \E t \in Threads : CallInit(t) \/ UseEngine(t) \/ FindNoEngine(t) \/ Runs(t)

Spec == Init /\ [][Next]_vars

\* A thread inside a call is scheduled, and what it waits for in block_on,
\* the license bucket and the KMS, answers or fails.
FairSpec == Spec /\ \A t \in Threads : WF_vars(Runs(t))

--------------------------------------------------------------------------------
Results == {None, "ok", "error"}

\* A call; a buffer is numbered in the order of creation.
Calls(n) ==
  [at : Positions, programmatic : Overrides \cup {None}, config : Configurations \cup {None},
   buffer : (0..(n - 1)) \cup {None}, result : Results, made : 0..MaxCalls]

\* The type of the state; a thread that builds has a configuration and a
\* buffer, and exactly the thread inside get_or_init holds the cell
\* (resolver.rs:105, lib.rs:192-424).
TypeOK ==
  /\ place \in Places
  /\ cell \in Configurations \cup {None}
  /\ resolver \in Threads \cup {None}
  /\ buffers \in Nat
  /\ engine \in (0..(buffers - 1)) \cup {None}
  /\ listened \subseteq 0..(buffers - 1)
  /\ licensed \in BOOLEAN
  /\ call \in [Threads -> Calls(buffers)]
  /\ \A t \in Threads :
       /\ At(t, "resolving") <=> resolver = t
       /\ call[t].at \in Building => call[t].config # None /\ call[t].buffer # None

\* The places a field can be set at, the weakest first.
Sources(programmatic) ==
  <<Toml(place.system), Toml(place.user), Toml(ProjectToml(place.project)),
    Environment(place.env), programmatic>>

\* c has each field as the strongest source that sets it says.
StrongestWins(c, programmatic) ==
  \A f \in Fields :
    LET s == Sources(programmatic)
    IN IF \E i \in 1..5 : f \in DOMAIN s[i]
       THEN \E i \in 1..5 : /\ f \in DOMAIN s[i] /\ c[f] = Finalized(f, s[i][f])
                            /\ \A j \in (i + 1)..5 : f \notin DOMAIN s[j]
       ELSE c[f] = Finalized(f, Default(f))

\* The process has one configuration: init() returns Ok only if the
\* configuration in force is the one its arguments give, whatever other
\* threads did meanwhile; else it is the one found without arguments or the
\* one of another init(); and every call that built or used the engine read
\* exactly this configuration (init_overrides, get_config, resolver.rs).
ConfigAgreed ==
  /\ cell # None => \E l \in Overrides \cup {NoLayer} : StrongestWins(cell, l)
  /\ \A t \in Threads :
       /\ call[t].programmatic # None /\ call[t].result = "ok" =>
            StrongestWins(cell, call[t].programmatic)
       /\ call[t].programmatic = None /\ call[t].config # None => call[t].config = cell

\* Every call that came back with an engine uses the one engine, its
\* configuration is one an engine can be built from, and if it asks for
\* telemetry the buffer everybody pushes to has a running broadcaster,
\* although builds failed and races were lost on the way (lib.rs:192-424).
EngineAgreed ==
  /\ engine # None =>
       /\ cell # None /\ ~Refused(cell)
       /\ cell.telemetry # "" => engine \in listened
  /\ \A t \in Threads :
       At(t, "idle") /\ call[t].programmatic = None /\ call[t].result = "ok" =>
         engine # None /\ call[t].buffer = engine

\* Every call returns: nobody waits for a cell whose initialiser is gone,
\* and a build that cannot succeed fails (lib.rs:415-424, resolver.rs:105).
CallsReturn == \A t \in Threads : ~At(t, "idle") ~> At(t, "idle")

================================================================================
