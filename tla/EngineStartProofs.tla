--------------------------- MODULE EngineStartProofs ---------------------------
(***************************************************************************)
(* Theorems about EngineStart, for every set of threads, places, override  *)
(* layers and number of calls.  The argument: a call of init() holds the   *)
(* resolution of its arguments, and only the one that filled the cell came *)
(* back Ok (InitCalls); a call that builds holds the cell's configuration  *)
(* (BuildCalls), and past StartBroadcaster its buffer is drained if the    *)
(* configuration asks for it (Drained).                                    *)
(***************************************************************************)
EXTENDS EngineStart, WellFoundedInduction, TLAPS

InitCalls ==
  \A t \in Threads : call[t].programmatic # None =>
    /\ call[t].at \in {"idle", "init"}
    /\ call[t].config = resolve_configuration(place, call[t].programmatic)
    /\ call[t].result = "ok" => cell = call[t].config

BuildCalls ==
  \A t \in Threads : call[t].programmatic = None =>
    /\ call[t].at # "init"
    /\ call[t].config # None => call[t].config = cell

CellResolved ==
  cell # None => \E l \in Overrides \cup {NoLayer} : cell = resolve_configuration(place, l)

Drained ==
  \A t \in Threads :
    /\ call[t].at \in {"provider", "publish"} /\ call[t].config.telemetry # "" =>
         call[t].buffer \in listened
    /\ call[t].at = "publish" => ~Refused(call[t].config)

--------------------------------------------------------------------------------
(* The cascade.                                                              *)

LEMMA LeastOf ==
  ASSUME NEW S, S \subseteq Nat, S # {}
  PROVE  \E x \in S : \A y \in S : x <= y
<1> DEFINE R == OpToRel(<, Nat)
<1>1. IsWellFoundedOn(R, Nat)
  BY NatLessThanWellFounded
<1>2. \A x, y \in Nat : <<x, y>> \in R <=> x < y
  BY DEF OpToRel
<1> HIDE DEF R
<1>3. PICK x \in S : \A y \in S : ~(<<y, x>> \in R)
  BY <1>1, WFMin
<1>4. \A y \in S : ~(y < x)
  BY <1>2, <1>3
<1>5. x \in Nat /\ \A y \in S : y \in Nat
  OBVIOUS
<1>6. \A y \in S : x <= y
  BY ONLY <1>4, <1>5
<1> QED BY <1>6

LEMMA PlaceLayers ==
  ASSUME NEW p \in Places
  PROVE  /\ IsLayer(Toml(p.system)) /\ IsLayer(Toml(p.user))
         /\ IsLayer(Toml(ProjectToml(p.project))) /\ IsLayer(Environment(p.env))
<1>1. IsLayer(NoLayer)
  BY DEF IsLayer, NoLayer
<1>2. \A file : IsFile(file) => IsLayer(Toml(file))
  BY <1>1 DEF IsFile, Toml
<1>3. IsFile(p.system) /\ IsFile(p.user) /\ IsLayer(p.env)
  BY PlacesAssumption
<1>4. IsFile(ProjectToml(p.project))
  <2> DEFINE First(i) == p.project[i] # None /\ \A j \in 1..(i - 1) : p.project[j] = None
  <2>1. /\ Len(p.project) \in Nat /\ DOMAIN p.project = 1..Len(p.project)
        /\ \A i \in 1..Len(p.project) : IsFile(p.project[i])
    BY PlacesAssumption
  <2>2. CASE \A i \in DOMAIN p.project : p.project[i] = None
    BY <2>2 DEF ProjectToml, IsFile
  <2>3. CASE \E i \in DOMAIN p.project : p.project[i] # None
    <3> DEFINE S == {i \in DOMAIN p.project : p.project[i] # None}
    <3>1. S \subseteq Nat /\ S # {}
      BY <2>1, <2>3
    <3>2. PICK i \in S : \A j \in S : i <= j
      BY <3>1, LeastOf
    <3>3. i \in DOMAIN p.project /\ First(i)
      BY <2>1, <3>2
    <3>4. \E k \in DOMAIN p.project : ProjectToml(p.project) = p.project[k]
      BY <2>3, <3>3 DEF ProjectToml
    <3> QED BY <2>1, <3>4
  <2> QED BY <2>2, <2>3
<1>5. IsLayer(Environment(p.env))
  BY <1>3 DEF IsLayer, Environment
<1> QED BY <1>2, <1>3, <1>4, <1>5

LEMMA Merged ==
  ASSUME NEW base, NEW over, IsLayer(base), IsLayer(over)
  PROVE  /\ IsLayer(merge_config(base, over))
         /\ DOMAIN merge_config(base, over) = DOMAIN base \cup DOMAIN over
         /\ \A f \in DOMAIN over : merge_config(base, over)[f] = over[f]
         /\ \A f \in DOMAIN base \ DOMAIN over : merge_config(base, over)[f] = base[f]
BY DEF IsLayer, merge_config

(* What resolve_configuration gives, the strongest source has it.            *)
LEMMA Resolved ==
  ASSUME place \in Places, NEW l \in Overrides \cup {NoLayer}
  PROVE  StrongestWins(resolve_configuration(place, l), l)
<1> DEFINE s1 == Toml(place.system)
           s2 == Toml(place.user)
           s3 == Toml(ProjectToml(place.project))
           s4 == Environment(place.env)
           m2 == merge_config(s1, s2)
           m3 == merge_config(m2, s3)
           m4 == merge_config(m3, s4)
           m5 == merge_config(m4, l)
           c == resolve_configuration(place, l)
           src == <<s1, s2, s3, s4, l>>
<1>1. IsLayer(s1) /\ IsLayer(s2) /\ IsLayer(s3) /\ IsLayer(s4) /\ IsLayer(l)
  BY PlaceLayers, OverridesAssumption DEF IsLayer, NoLayer
<1>2. \A f \in Fields : c[f] = Finalized(f, IF f \in DOMAIN m5 THEN m5[f] ELSE Default(f))
  BY DEF resolve_configuration
<1>3. src[1] = s1 /\ src[2] = s2 /\ src[3] = s3 /\ src[4] = s4 /\ src[5] = l
  OBVIOUS
<1>4. Sources(l) = src
  BY DEF Sources
<1> HIDE DEF s1, s2, s3, s4, src
<1>5. /\ IsLayer(m2)
      /\ DOMAIN m2 = DOMAIN s1 \cup DOMAIN s2
      /\ \A f \in DOMAIN s2 : m2[f] = s2[f]
      /\ \A f \in DOMAIN s1 \ DOMAIN s2 : m2[f] = s1[f]
  BY <1>1, Merged
<1> HIDE DEF m2
<1>6. /\ IsLayer(m3)
      /\ DOMAIN m3 = DOMAIN m2 \cup DOMAIN s3
      /\ \A f \in DOMAIN s3 : m3[f] = s3[f]
      /\ \A f \in DOMAIN m2 \ DOMAIN s3 : m3[f] = m2[f]
  BY <1>1, <1>5, Merged
<1> HIDE DEF m3
<1>7. /\ IsLayer(m4)
      /\ DOMAIN m4 = DOMAIN m3 \cup DOMAIN s4
      /\ \A f \in DOMAIN s4 : m4[f] = s4[f]
      /\ \A f \in DOMAIN m3 \ DOMAIN s4 : m4[f] = m3[f]
  BY <1>1, <1>6, Merged
<1> HIDE DEF m4
<1>8. /\ IsLayer(m5)
      /\ DOMAIN m5 = DOMAIN m4 \cup DOMAIN l
      /\ \A f \in DOMAIN l : m5[f] = l[f]
      /\ \A f \in DOMAIN m4 \ DOMAIN l : m5[f] = m4[f]
  BY <1>1, <1>7, Merged
<1> HIDE DEF m5, c
<1>9. SUFFICES ASSUME NEW f \in Fields
               PROVE  IF \E i \in 1..5 : f \in DOMAIN src[i]
                      THEN \E i \in 1..5 : /\ f \in DOMAIN src[i] /\ c[f] = Finalized(f, src[i][f])
                                           /\ \A j \in (i + 1)..5 : f \notin DOMAIN src[j]
                      ELSE c[f] = Finalized(f, Default(f))
  BY <1>4 DEF StrongestWins, c
<1>10. CASE f \in DOMAIN l
  <2>1. c[f] = Finalized(f, l[f])
    BY <1>2, <1>8, <1>10
  <2> QED BY <1>3, <1>10, <2>1
<1>11. CASE f \in DOMAIN s4 /\ f \notin DOMAIN l
  <2>1. c[f] = Finalized(f, s4[f])
    BY <1>2, <1>7, <1>8, <1>11
  <2>2. \A j \in 5..5 : f \notin DOMAIN src[j]
    BY <1>3, <1>11
  <2> QED BY <1>3, <1>11, <2>1, <2>2
<1>12. CASE f \in DOMAIN s3 /\ f \notin DOMAIN s4 \cup DOMAIN l
  <2>1. c[f] = Finalized(f, s3[f])
    BY <1>2, <1>6, <1>7, <1>8, <1>12
  <2>2. \A j \in 4..5 : f \notin DOMAIN src[j]
    <3>1. \A j \in 4..5 : j = 4 \/ j = 5
      OBVIOUS
    <3> QED BY <1>3, <1>12, <3>1
  <2> QED BY <1>3, <1>12, <2>1, <2>2
<1>13. CASE f \in DOMAIN s2 /\ f \notin DOMAIN s3 \cup DOMAIN s4 \cup DOMAIN l
  <2>1. c[f] = Finalized(f, s2[f])
    BY <1>2, <1>5, <1>6, <1>7, <1>8, <1>13
  <2>2. \A j \in 3..5 : f \notin DOMAIN src[j]
    <3>1. \A j \in 3..5 : j = 3 \/ j = 4 \/ j = 5
      OBVIOUS
    <3> QED BY <1>3, <1>13, <3>1
  <2> QED BY <1>3, <1>13, <2>1, <2>2
<1>14. CASE f \in DOMAIN s1 /\ f \notin DOMAIN s2 \cup DOMAIN s3 \cup DOMAIN s4 \cup DOMAIN l
  <2>1. c[f] = Finalized(f, s1[f])
    BY <1>2, <1>5, <1>6, <1>7, <1>8, <1>14
  <2>2. \A j \in 2..5 : f \notin DOMAIN src[j]
    <3>1. \A j \in 2..5 : j = 2 \/ j = 3 \/ j = 4 \/ j = 5
      OBVIOUS
    <3> QED BY <1>3, <1>14, <3>1
  <2> QED BY <1>3, <1>14, <2>1, <2>2
<1>15. CASE f \notin DOMAIN s1 \cup DOMAIN s2 \cup DOMAIN s3 \cup DOMAIN s4 \cup DOMAIN l
  <2>1. c[f] = Finalized(f, Default(f))
    BY <1>2, <1>5, <1>6, <1>7, <1>8, <1>15
  <2>2. \A i \in 1..5 : f \notin DOMAIN src[i]
    <3>1. \A i \in 1..5 : i = 1 \/ i = 2 \/ i = 3 \/ i = 4 \/ i = 5
      OBVIOUS
    <3> QED BY <1>3, <1>15, <3>1
  <2> QED BY <2>1, <2>2
<1> QED BY <1>10, <1>11, <1>12, <1>13, <1>14, <1>15

--------------------------------------------------------------------------------
(* Types.                                                                    *)

LEMMA Settled ==
  ASSUME place \in Places, NEW l \in Overrides \cup {NoLayer}
  PROVE  resolve_configuration(place, l) \in Configurations
BY DEF Configurations

LEMMA IdleTyped ==
  ASSUME NEW n \in Nat
  PROVE  Idle \in Calls(n)
BY CallsAssumption DEF Idle, Calls, Positions, Results

(* The buffers of yesterday are numbered below those of tomorrow.            *)
LEMMA CallsGrow ==
  ASSUME NEW n \in Nat
  PROVE  Calls(n) \subseteq Calls(n + 1)
BY DEF Calls

(* The call of one thread goes on, or comes back; the others stay.           *)
LEMMA Gone ==
  ASSUME TypeOK, NEW t \in Threads, NEW w \in Positions, Goes(t, w)
  PROVE  /\ call' \in [Threads -> Calls(buffers)]
         /\ \A s \in Threads \ {t} : call'[s] = call[s]
         /\ call'[t].at = w /\ call'[t].programmatic = call[t].programmatic
         /\ call'[t].config = call[t].config /\ call'[t].buffer = call[t].buffer
         /\ call'[t].result = call[t].result
<1>1. call[t] \in Calls(buffers) /\ call \in [Threads -> Calls(buffers)]
  BY DEF TypeOK
<1> DEFINE c == [call[t] EXCEPT !.at = w]
<1>2. /\ c \in Calls(buffers) /\ c.at = w /\ c.programmatic = call[t].programmatic
      /\ c.config = call[t].config /\ c.buffer = call[t].buffer /\ c.result = call[t].result
  BY <1>1 DEF Calls
<1>3. call' = [call EXCEPT ![t] = c]
  BY DEF Goes
<1> HIDE DEF c
<1> QED BY <1>1, <1>2, <1>3

LEMMA CameBack ==
  ASSUME TypeOK, NEW t \in Threads, NEW r \in Results, NEW b \in (0..(buffers - 1)) \cup {None},
         Back(t, r, b)
  PROVE  /\ call' \in [Threads -> Calls(buffers)]
         /\ \A s \in Threads \ {t} : call'[s] = call[s]
         /\ call'[t].at = "idle" /\ call'[t].programmatic = call[t].programmatic
         /\ call'[t].config = call[t].config /\ call'[t].buffer = b /\ call'[t].result = r
<1>1. call[t] \in Calls(buffers) /\ call \in [Threads -> Calls(buffers)]
  BY DEF TypeOK
<1> DEFINE c == [call[t] EXCEPT !.at = "idle", !.result = r, !.buffer = b]
<1>2. /\ c \in Calls(buffers) /\ c.at = "idle" /\ c.programmatic = call[t].programmatic
      /\ c.config = call[t].config /\ c.buffer = b /\ c.result = r
  BY <1>1 DEF Calls, Positions
<1>3. call' = [call EXCEPT ![t] = c]
  BY <1>1 DEF Back
<1> HIDE DEF c
<1> QED BY <1>1, <1>2, <1>3

Held(t) ==
  /\ At(t, "resolving") <=> resolver = t
  /\ call[t].at \in Building => call[t].config # None /\ call[t].buffer # None

LEMMA Kept ==
  ASSUME TypeOK, NEW t \in Threads,
         \A s \in Threads \ {t} : call'[s] = call[s], UNCHANGED resolver,
         call[t].at # "resolving", call'[t].at # "resolving",
         call'[t].at \in Building => call'[t].config # None /\ call'[t].buffer # None
  PROVE  \A s \in Threads : Held(s)'
BY DEF TypeOK, Held, At

LEMMA TypeInit ==
  ASSUME Init
  PROVE  TypeOK
<1>1. call \in [Threads -> Calls(buffers)]
  BY IdleTyped DEF Init
<1> QED BY <1>1, NoneAssumption DEF Init, TypeOK, At, Idle, Building

LEMMA TypeStep ==
  ASSUME TypeOK, [Next]_vars
  PROVE  TypeOK'
<1> USE DEF TypeOK
<1>1. ASSUME NEW t \in Threads, CallInit(t) PROVE TypeOK'
  <2>1. PICK l \in Overrides :
          call' = [call EXCEPT ![t] =
                     [Idle EXCEPT !.at = "init", !.programmatic = l,
                                  !.config = resolve_configuration(place, l),
                                  !.made = call[t].made + 1]]
    BY <1>1 DEF CallInit
  <2>2. call[t].made + 1 \in 0..MaxCalls /\ resolve_configuration(place, l) \in Configurations
    BY <1>1, CallsAssumption, Settled DEF CallInit, Calls
  <2>3. [Idle EXCEPT !.at = "init", !.programmatic = l, !.config = resolve_configuration(place, l),
                     !.made = call[t].made + 1] \in Calls(buffers)
    BY <2>2 DEF Idle, Calls, Positions, Results
  <2> QED BY <1>1, <2>1, <2>3 DEF CallInit, At, Idle, Building
<1>2. ASSUME NEW t \in Threads, SetConfig(t) PROVE TypeOK'
  <2>1. PICK r \in Results : Back(t, r, None)
    BY <1>2 DEF SetConfig, Results
  <2>2. /\ call' \in [Threads -> Calls(buffers)] /\ call'[t].at = "idle"
        /\ \A s \in Threads \ {t} : call'[s] = call[s]
    BY <2>1, CameBack
  <2>3. call[t].config \in Configurations \cup {None}
    BY DEF Calls
  <2>4. \A s \in Threads : Held(s)'
    BY <1>2, <2>2, Kept DEF SetConfig, At, Building
  <2> QED BY <1>2, <2>2, <2>3, <2>4 DEF SetConfig, Held
<1>3. ASSUME NEW t \in Threads, UseEngine(t) PROVE TypeOK'
  <2>1. call[t].made + 1 \in 0..MaxCalls
    BY <1>3, CallsAssumption DEF UseEngine, Calls
  <2>2. [Idle EXCEPT !.config = cell, !.buffer = engine, !.result = "ok", !.made = call[t].made + 1]
          \in Calls(buffers)
    BY <2>1 DEF Idle, Calls, Positions, Results
  <2> QED BY <1>3, <2>2 DEF UseEngine, At, Idle, Building
<1>4. ASSUME NEW t \in Threads, FindNoEngine(t) PROVE TypeOK'
  <2>1. call[t].made + 1 \in 0..MaxCalls
    BY <1>4, CallsAssumption DEF FindNoEngine, Calls
  <2>2. [Idle EXCEPT !.at = "config", !.made = call[t].made + 1] \in Calls(buffers)
    BY <2>1 DEF Idle, Calls, Positions, Results
  <2> QED BY <1>4, <2>2 DEF FindNoEngine, At, Idle, Building
<1>5. ASSUME NEW t \in Threads, GetConfig(t) PROVE TypeOK'
  <2>1. call \in [Threads -> Calls(buffers + 1)]
    BY CallsGrow
  <2> DEFINE c == [call[t] EXCEPT !.at = "license", !.config = cell, !.buffer = buffers]
  <2>2. call[t] \in Calls(buffers + 1) /\ cell \in Configurations /\ buffers \in 0..(buffers + 1 - 1)
    BY <1>5, <2>1 DEF GetConfig
  <2>3. c \in Calls(buffers + 1) /\ c.at = "license" /\ c.config = cell /\ c.buffer = buffers
    <3> DEFINE n == buffers + 1
    <3>1. call[t] \in Calls(n) /\ cell \in Configurations /\ buffers \in 0..(n - 1)
      BY <2>2
    <3> HIDE DEF n
    <3>2. c \in Calls(n) /\ c.at = "license" /\ c.config = cell /\ c.buffer = buffers
      BY ONLY <3>1 DEF Calls, Positions, Building
    <3> QED BY <3>2 DEF n
  <2>4. call' = [call EXCEPT ![t] = c] /\ buffers' = buffers + 1
    BY <1>5 DEF GetConfig
  <2> HIDE DEF c
  <2>5. call' \in [Threads -> Calls(buffers')]
    BY <2>1, <2>3, <2>4
  <2>6. /\ call'[t].at = "license" /\ call'[t].config # None /\ call'[t].buffer # None
        /\ \A s \in Threads \ {t} : call'[s] = call[s]
    BY <1>5, <2>3, <2>4, NoneAssumption DEF GetConfig
  <2> QED BY <1>5, <2>4, <2>5, <2>6 DEF GetConfig, At, Building
<1>6. ASSUME NEW t \in Threads, BeginResolve(t) PROVE TypeOK'
  <2>1. Goes(t, "resolving") /\ "resolving" \in Positions
    BY <1>6 DEF BeginResolve, Positions, Building
  <2> QED BY <1>6, <2>1, Gone, NoneAssumption, Settled DEF BeginResolve, At, Building
<1>7. ASSUME NEW t \in Threads, EndResolve(t) PROVE TypeOK'
  <2>1. Goes(t, "config") /\ "config" \in Positions
    BY <1>7 DEF EndResolve, Positions, Building
  <2> QED BY <1>7, <2>1, Gone, NoneAssumption, Settled DEF EndResolve, At, Building
<1>8. ASSUME NEW t \in Threads, ResolveLicense(t) PROVE TypeOK'
  <2>1. Goes(t, "telemetry") /\ "telemetry" \in Positions
    BY <1>8 DEF ResolveLicense, Positions, Building
  <2>2. /\ call' \in [Threads -> Calls(buffers)] /\ call'[t].at = "telemetry"
        /\ call'[t].config = call[t].config /\ call'[t].buffer = call[t].buffer
        /\ \A s \in Threads \ {t} : call'[s] = call[s]
    BY <2>1, Gone
  <2>3. \A s \in Threads : Held(s)'
    BY <1>8, <2>2, Kept DEF ResolveLicense, At, Building
  <2>4. licensed' \in BOOLEAN
    BY <1>8 DEF ResolveLicense
  <2> QED BY <1>8, <2>2, <2>3, <2>4 DEF ResolveLicense, Held
<1>9. ASSUME NEW t \in Threads, StartBroadcaster(t) PROVE TypeOK'
  <2>1. Goes(t, "provider") /\ "provider" \in Positions
    BY <1>9 DEF StartBroadcaster, Positions, Building
  <2>2. /\ call' \in [Threads -> Calls(buffers)] /\ call'[t].at = "provider"
        /\ call'[t].config = call[t].config /\ call'[t].buffer = call[t].buffer
        /\ \A s \in Threads \ {t} : call'[s] = call[s]
    BY <2>1, Gone
  <2>3. \A s \in Threads : Held(s)'
    BY <1>9, <2>2, Kept DEF StartBroadcaster, At, Building
  <2>4. listened' \subseteq 0..(buffers - 1)
    BY <1>9 DEF StartBroadcaster, At, Building, Calls
  <2> QED BY <1>9, <2>2, <2>3, <2>4 DEF StartBroadcaster, Held
<1>10. ASSUME NEW t \in Threads, Build(t) PROVE TypeOK'
  <2>1. Goes(t, "publish") /\ "publish" \in Positions
    BY <1>10 DEF Build, Positions, Building
  <2>2. /\ call' \in [Threads -> Calls(buffers)] /\ call'[t].at = "publish"
        /\ call'[t].config = call[t].config /\ call'[t].buffer = call[t].buffer
        /\ \A s \in Threads \ {t} : call'[s] = call[s]
    BY <2>1, Gone
  <2>3. \A s \in Threads : Held(s)'
    BY <1>10, <2>2, Kept DEF Build, At, Building
  <2> QED BY <1>10, <2>2, <2>3 DEF Build, Held
<1>11. ASSUME NEW t \in Threads, BuildFails(t) PROVE TypeOK'
  <2>1. Back(t, "error", None) /\ "error" \in Results
    BY <1>11 DEF BuildFails, Results
  <2>2. /\ call' \in [Threads -> Calls(buffers)] /\ call'[t].at = "idle"
        /\ \A s \in Threads \ {t} : call'[s] = call[s]
    BY <2>1, CameBack
  <2>3. \A s \in Threads : Held(s)'
    BY <1>11, <2>2, Kept DEF BuildFails, At, Building
  <2> QED BY <1>11, <2>1, <2>2, <2>3 DEF BuildFails, Held
<1>12. ASSUME NEW t \in Threads, Publish(t) PROVE TypeOK'
  <2>1. /\ call[t].buffer \in 0..(buffers - 1) /\ engine' \in 0..(buffers - 1)
        /\ Back(t, "ok", engine') /\ "ok" \in Results
    BY <1>12 DEF Publish, Results, At, Building, Calls
  <2>2. /\ call' \in [Threads -> Calls(buffers)] /\ call'[t].at = "idle"
        /\ \A s \in Threads \ {t} : call'[s] = call[s]
    BY <2>1, CameBack
  <2>3. \A s \in Threads : Held(s)'
    BY <1>12, <2>2, Kept DEF Publish, At, Building
  <2> QED BY <1>12, <2>1, <2>2, <2>3 DEF Publish, Held
<1>13. CASE UNCHANGED vars
  BY <1>13 DEF vars, At
<1> QED BY <1>1, <1>2, <1>3, <1>4, <1>5, <1>6, <1>7, <1>8, <1>9, <1>10, <1>11, <1>12, <1>13 DEF Next, Runs

--------------------------------------------------------------------------------
(* The configuration.                                                        *)

(* While a thread resolves, the cell is empty.                               *)
Exclusive == resolver # None => cell = None

Configured == InitCalls /\ BuildCalls /\ CellResolved /\ Exclusive

LEMMA ConfiguredInit ==
  ASSUME Init
  PROVE  Configured
BY DEF Init, Configured, InitCalls, BuildCalls, CellResolved, Exclusive, Idle

(* A call of the engine that goes on as it is, while the cell stays.         *)
LEMMA Unmoved ==
  ASSUME TypeOK, Configured, NEW t \in Threads, UNCHANGED <<place, cell>>,
         Exclusive',
         \A s \in Threads \ {t} : call'[s] = call[s],
         call[t].at # "init", call'[t].at # "init",
         call[t].programmatic # None => call'[t].at = "idle" /\ call'[t].result # "ok",
         call'[t].programmatic = call[t].programmatic,
         call'[t].config = call[t].config
  PROVE  Configured'
BY DEF TypeOK, Configured, InitCalls, BuildCalls, CellResolved, Exclusive

LEMMA ConfiguredStep ==
  ASSUME TypeOK, Configured, [Next]_vars
  PROVE  Configured'
<1>a. call \in [Threads -> Calls(buffers)] /\ place \in Places /\ None \notin Overrides
  BY NoneAssumption DEF TypeOK
<1>1. ASSUME NEW t \in Threads, CallInit(t) PROVE Configured'
  <2>1. PICK l \in Overrides :
          call' = [call EXCEPT ![t] =
                     [Idle EXCEPT !.at = "init", !.programmatic = l,
                                  !.config = resolve_configuration(place, l),
                                  !.made = call[t].made + 1]]
    BY <1>1 DEF CallInit
  <2>2. /\ call'[t].at = "init" /\ call'[t].programmatic = l /\ call'[t].result = None
        /\ call'[t].config = resolve_configuration(place, l)
        /\ \A s \in Threads \ {t} : call'[s] = call[s]
    BY <1>a, <2>1 DEF Idle
  <2>3. UNCHANGED <<place, cell, resolver>> /\ l # None /\ None # "ok"
    BY <1>1, <1>a, NoneAssumption DEF CallInit
  <2>4. InitCalls'
    BY <2>2, <2>3 DEF Configured, InitCalls
  <2>5. BuildCalls'
    BY <2>2, <2>3 DEF Configured, BuildCalls
  <2>6. CellResolved' /\ Exclusive'
    BY <2>3 DEF Configured, CellResolved, Exclusive
  <2> QED BY <2>4, <2>5, <2>6 DEF Configured
<1>2. ASSUME NEW t \in Threads, SetConfig(t) PROVE Configured'
  <2>1. PICK r \in Results : Back(t, r, None) /\ (r = "ok" => cell = None)
    BY <1>2 DEF SetConfig, Results
  <2>2. /\ \A s \in Threads \ {t} : call'[s] = call[s]
        /\ call'[t].at = "idle" /\ call'[t].programmatic = call[t].programmatic
        /\ call'[t].config = call[t].config /\ call'[t].result = r
    BY <2>1, CameBack
  <2>3. /\ call[t].programmatic # None /\ call[t].programmatic \in Overrides
        /\ call[t].config = resolve_configuration(place, call[t].programmatic)
    BY <1>2, <1>a DEF SetConfig, At, Configured, InitCalls, BuildCalls, Calls
  <2>4. call[t].config \in Configurations /\ call[t].config # None
    BY <1>a, <2>3, Settled, NoneAssumption
  <2>5. CASE cell = None
    <3>1. cell' = call[t].config /\ UNCHANGED place
      BY <1>2, <2>5 DEF SetConfig
    <3>2. \A s \in Threads : call[s].programmatic # None => call[s].config # None
      BY <1>a, Settled, NoneAssumption DEF Configured, InitCalls, Calls
    <3>3. \A s \in Threads : call[s].programmatic # None => call[s].result # "ok"
      BY <2>5, <3>2 DEF Configured, InitCalls
    <3>4. \A s \in Threads : call[s].programmatic = None => call[s].config = None
      BY <2>5 DEF Configured, BuildCalls
    <3>5. InitCalls'
      BY <2>2, <2>3, <3>1, <3>3 DEF Configured, InitCalls
    <3>6. BuildCalls'
      BY <2>2, <2>3, <3>1, <3>4 DEF Configured, BuildCalls
    <3>7. CellResolved'
      BY <2>3, <3>1 DEF CellResolved
    <3>8. Exclusive'
      BY <1>2 DEF SetConfig, Exclusive
    <3> QED BY <3>5, <3>6, <3>7, <3>8 DEF Configured
  <2>6. CASE cell # None
    <3>1. UNCHANGED <<place, cell, resolver>> /\ r # "ok"
      BY <1>2, <2>1, <2>6 DEF SetConfig
    <3> QED BY <2>2, <2>3, <3>1 DEF Configured, InitCalls, BuildCalls, CellResolved, Exclusive
  <2> QED BY <2>5, <2>6
<1>3. ASSUME NEW t \in Threads, UseEngine(t) PROVE Configured'
  <2>1. /\ call'[t].at = "idle" /\ call'[t].programmatic = None /\ call'[t].config = cell
        /\ \A s \in Threads \ {t} : call'[s] = call[s]
    BY <1>3, <1>a DEF UseEngine, Idle
  <2> QED BY <1>3, <2>1 DEF UseEngine, Configured, InitCalls, BuildCalls, CellResolved, Exclusive
<1>4. ASSUME NEW t \in Threads, FindNoEngine(t) PROVE Configured'
  <2>1. /\ call'[t].at = "config" /\ call'[t].programmatic = None /\ call'[t].config = None
        /\ \A s \in Threads \ {t} : call'[s] = call[s]
    BY <1>4, <1>a DEF FindNoEngine, Idle
  <2> QED BY <1>4, <2>1 DEF FindNoEngine, Configured, InitCalls, BuildCalls, CellResolved, Exclusive
<1>5. ASSUME NEW t \in Threads, GetConfig(t) PROVE Configured'
  <2>1. /\ call'[t].at = "license" /\ call'[t].config = cell
        /\ call'[t].programmatic = call[t].programmatic
        /\ \A s \in Threads \ {t} : call'[s] = call[s]
    BY <1>5, <1>a DEF GetConfig, Calls
  <2>2. call[t].programmatic = None
    BY <1>5 DEF GetConfig, At, Configured, InitCalls
  <2> QED BY <1>5, <2>1, <2>2 DEF GetConfig, Configured, InitCalls, BuildCalls, CellResolved, Exclusive
<1>6. ASSUME NEW t \in Threads, BeginResolve(t) PROVE Configured'
  <2>1. Goes(t, "resolving") /\ "resolving" \in Positions
    BY <1>6 DEF BeginResolve, Positions
  <2>2. call[t].at = "config" /\ call[t].programmatic = None /\ UNCHANGED <<place, cell>>
    BY <1>6 DEF BeginResolve, At, Configured, InitCalls
  <2>3. Exclusive'
    BY <1>6 DEF BeginResolve, Exclusive
  <2> QED BY <2>1, <2>2, <2>3, Gone, Unmoved
<1>7. ASSUME NEW t \in Threads, EndResolve(t) PROVE Configured'
  <2>1. Goes(t, "config") /\ "config" \in Positions
    BY <1>7 DEF EndResolve, Positions
  <2>2. /\ \A s \in Threads \ {t} : call'[s] = call[s]
        /\ call'[t].at = "config" /\ call'[t].programmatic = call[t].programmatic
        /\ call'[t].config = call[t].config /\ call'[t].result = call[t].result
    BY <2>1, Gone
  <2>3. call[t].at = "resolving" /\ call[t].programmatic = None /\ UNCHANGED place
    BY <1>7 DEF EndResolve, At, Configured, InitCalls
  <2>4. cell = None /\ resolver' = None /\ cell' = resolve_configuration(place, NoLayer)
    BY <1>7, <2>3, NoneAssumption DEF EndResolve, TypeOK, At, Configured, Exclusive
  <2>5. \A s \in Threads : call[s].programmatic # None => call[s].config # None
    BY <1>a, Settled, NoneAssumption DEF Configured, InitCalls, Calls
  <2>6. InitCalls'
    BY <2>2, <2>3, <2>4, <2>5 DEF Configured, InitCalls
  <2>7. BuildCalls'
    BY <2>2, <2>3, <2>4 DEF Configured, BuildCalls
  <2>8. CellResolved' /\ Exclusive'
    BY <2>3, <2>4 DEF CellResolved, Exclusive
  <2> QED BY <2>6, <2>7, <2>8 DEF Configured
<1>8. ASSUME NEW t \in Threads, ResolveLicense(t) PROVE Configured'
  <2>1. Goes(t, "telemetry") /\ "telemetry" \in Positions
    BY <1>8 DEF ResolveLicense, Positions, Building
  <2>2. call[t].at \in Building /\ call[t].programmatic = None /\ UNCHANGED <<place, cell>>
    BY <1>8 DEF ResolveLicense, At, Building, Configured, InitCalls
  <2>3. Exclusive'
    BY <1>8 DEF ResolveLicense, Configured, Exclusive
  <2>4. /\ \A s \in Threads \ {t} : call'[s] = call[s]
        /\ call'[t].at = "telemetry" /\ call'[t].programmatic = call[t].programmatic
        /\ call'[t].config = call[t].config
    BY <2>1, Gone
  <2> QED BY <2>2, <2>3, <2>4, Unmoved DEF Building
<1>9. ASSUME NEW t \in Threads, StartBroadcaster(t) PROVE Configured'
  <2>1. Goes(t, "provider") /\ "provider" \in Positions
    BY <1>9 DEF StartBroadcaster, Positions, Building
  <2>2. call[t].at \in Building /\ call[t].programmatic = None /\ UNCHANGED <<place, cell>>
    BY <1>9 DEF StartBroadcaster, At, Building, Configured, InitCalls
  <2>3. Exclusive'
    BY <1>9 DEF StartBroadcaster, Configured, Exclusive
  <2>4. /\ \A s \in Threads \ {t} : call'[s] = call[s]
        /\ call'[t].at = "provider" /\ call'[t].programmatic = call[t].programmatic
        /\ call'[t].config = call[t].config
    BY <2>1, Gone
  <2> QED BY <2>2, <2>3, <2>4, Unmoved DEF Building
<1>10. ASSUME NEW t \in Threads, Build(t) PROVE Configured'
  <2>1. Goes(t, "publish") /\ "publish" \in Positions
    BY <1>10 DEF Build, Positions, Building
  <2>2. call[t].at \in Building /\ call[t].programmatic = None /\ UNCHANGED <<place, cell>>
    BY <1>10 DEF Build, At, Building, Configured, InitCalls
  <2>3. Exclusive'
    BY <1>10 DEF Build, Configured, Exclusive
  <2>4. /\ \A s \in Threads \ {t} : call'[s] = call[s]
        /\ call'[t].at = "publish" /\ call'[t].programmatic = call[t].programmatic
        /\ call'[t].config = call[t].config
    BY <2>1, Gone
  <2> QED BY <2>2, <2>3, <2>4, Unmoved DEF Building
<1>11. ASSUME NEW t \in Threads, BuildFails(t) PROVE Configured'
  <2>1. /\ Back(t, "error", None) /\ "error" \in Results
        /\ None \in (0..(buffers - 1)) \cup {None}
    BY <1>11, <1>a DEF BuildFails, Results, Calls, TypeOK
  <2>2. call[t].at \in Building /\ call[t].programmatic = None /\ UNCHANGED <<place, cell>>
    BY <1>11 DEF BuildFails, At, Building, Configured, InitCalls
  <2>3. Exclusive'
    BY <1>11 DEF BuildFails, Configured, Exclusive
  <2>4. /\ \A s \in Threads \ {t} : call'[s] = call[s]
        /\ call'[t].at = "idle" /\ call'[t].programmatic = call[t].programmatic
        /\ call'[t].config = call[t].config
    BY <2>1, CameBack
  <2> QED BY <2>2, <2>3, <2>4, Unmoved DEF Building
<1>12. ASSUME NEW t \in Threads, Publish(t) PROVE Configured'
  <2>1. /\ Back(t, "ok", engine') /\ "ok" \in Results
        /\ engine' \in (0..(buffers - 1)) \cup {None}
    BY <1>12, <1>a DEF Publish, Results, Calls, TypeOK
  <2>2. call[t].at \in Building /\ call[t].programmatic = None /\ UNCHANGED <<place, cell>>
    BY <1>12 DEF Publish, At, Building, Configured, InitCalls
  <2>3. Exclusive'
    BY <1>12 DEF Publish, Configured, Exclusive
  <2>4. /\ \A s \in Threads \ {t} : call'[s] = call[s]
        /\ call'[t].at = "idle" /\ call'[t].programmatic = call[t].programmatic
        /\ call'[t].config = call[t].config
    BY <2>1, CameBack
  <2> QED BY <2>2, <2>3, <2>4, Unmoved DEF Building
<1>13. CASE UNCHANGED vars
  BY <1>13 DEF vars, Configured, InitCalls, BuildCalls, CellResolved, Exclusive
<1> QED BY <1>1, <1>2, <1>3, <1>4, <1>5, <1>6, <1>7, <1>8, <1>9, <1>10, <1>11, <1>12, <1>13 DEF Next, Runs

--------------------------------------------------------------------------------
(* The engine.                                                               *)

EngineInv == Drained /\ EngineAgreed

LEMMA EngineInit ==
  ASSUME Init
  PROVE  EngineInv
BY NoneAssumption DEF Init, EngineInv, Drained, EngineAgreed, Idle, At

(* A step that leaves engine and cell, and takes no buffer from its drain.   *)
LEMMA Undisturbed ==
  ASSUME TypeOK, EngineInv, NEW t \in Threads,
         \A s \in Threads \ {t} : call'[s] = call[s],
         UNCHANGED <<cell, engine>>, listened \subseteq listened',
         /\ call'[t].at \in {"provider", "publish"} /\ call'[t].config.telemetry # "" =>
              call'[t].buffer \in listened'
         /\ call'[t].at = "publish" => ~Refused(call'[t].config),
         call'[t].at = "idle" /\ call'[t].programmatic = None /\ call'[t].result = "ok" =>
           engine # None /\ call'[t].buffer = engine
  PROVE  EngineInv'
<1>1. Drained'
  BY DEF EngineInv, Drained
<1>2. EngineAgreed'
  BY DEF EngineInv, EngineAgreed, At
<1> QED BY <1>1, <1>2 DEF EngineInv

LEMMA EngineStep ==
  ASSUME TypeOK, Configured, EngineInv, [Next]_vars
  PROVE  EngineInv'
<1>a. call \in [Threads -> Calls(buffers)] /\ None # "ok" /\ None \notin Nat
  BY NoneAssumption DEF TypeOK
<1>1. ASSUME NEW t \in Threads, CallInit(t) PROVE EngineInv'
  <2>1. PICK l \in Overrides :
          call' = [call EXCEPT ![t] =
                     [Idle EXCEPT !.at = "init", !.programmatic = l,
                                  !.config = resolve_configuration(place, l),
                                  !.made = call[t].made + 1]]
    BY <1>1 DEF CallInit
  <2>2. call'[t].at = "init" /\ \A s \in Threads \ {t} : call'[s] = call[s]
    BY <1>a, <2>1 DEF Idle
  <2>3. UNCHANGED <<cell, engine>> /\ listened \subseteq listened'
    BY <1>1 DEF CallInit
  <2> QED BY <2>2, <2>3, Undisturbed
<1>2. ASSUME NEW t \in Threads, SetConfig(t) PROVE EngineInv'
  <2>1. PICK r \in Results : Back(t, r, None)
    BY <1>2 DEF SetConfig, Results
  <2>2. /\ \A s \in Threads \ {t} : call'[s] = call[s]
        /\ call'[t].at = "idle" /\ call'[t].programmatic = call[t].programmatic
    BY <2>1, CameBack
  <2>3. call[t].programmatic # None
    BY <1>2 DEF SetConfig, At, Configured, BuildCalls
  <2>4. UNCHANGED engine /\ UNCHANGED listened /\ (cell # None => cell' = cell)
    BY <1>2 DEF SetConfig
  <2>5. Drained'
    BY <2>2, <2>4 DEF EngineInv, Drained
  <2>6. EngineAgreed'
    BY <2>2, <2>3, <2>4 DEF EngineInv, EngineAgreed, At
  <2> QED BY <2>5, <2>6 DEF EngineInv
<1>3. ASSUME NEW t \in Threads, UseEngine(t) PROVE EngineInv'
  <2>1. /\ call'[t].at = "idle" /\ call'[t].buffer = engine
        /\ \A s \in Threads \ {t} : call'[s] = call[s]
    BY <1>3, <1>a DEF UseEngine, Idle
  <2>2. engine # None /\ UNCHANGED <<cell, engine>> /\ listened \subseteq listened'
    BY <1>3 DEF UseEngine
  <2> QED BY <2>1, <2>2, Undisturbed
<1>4. ASSUME NEW t \in Threads, FindNoEngine(t) PROVE EngineInv'
  <2>1. call'[t].at = "config" /\ \A s \in Threads \ {t} : call'[s] = call[s]
    BY <1>4, <1>a DEF FindNoEngine, Idle
  <2>2. UNCHANGED <<cell, engine>> /\ listened \subseteq listened'
    BY <1>4 DEF FindNoEngine
  <2> QED BY <2>1, <2>2, Undisturbed
<1>5. ASSUME NEW t \in Threads, GetConfig(t) PROVE EngineInv'
  <2>1. call'[t].at = "license" /\ \A s \in Threads \ {t} : call'[s] = call[s]
    BY <1>5, <1>a DEF GetConfig, Calls
  <2>2. UNCHANGED <<cell, engine>> /\ listened \subseteq listened'
    BY <1>5 DEF GetConfig
  <2> QED BY <2>1, <2>2, Undisturbed
<1>6. ASSUME NEW t \in Threads, BeginResolve(t) PROVE EngineInv'
  <2>1. Goes(t, "resolving") /\ "resolving" \in Positions
    BY <1>6 DEF BeginResolve, Positions
  <2>2. call'[t].at = "resolving" /\ \A s \in Threads \ {t} : call'[s] = call[s]
    BY <2>1, Gone
  <2>3. UNCHANGED <<cell, engine>> /\ listened \subseteq listened'
    BY <1>6 DEF BeginResolve
  <2> QED BY <2>2, <2>3, Undisturbed
<1>7. ASSUME NEW t \in Threads, EndResolve(t) PROVE EngineInv'
  <2>1. Goes(t, "config") /\ "config" \in Positions
    BY <1>7 DEF EndResolve, Positions
  <2>2. call'[t].at = "config" /\ \A s \in Threads \ {t} : call'[s] = call[s]
    BY <2>1, Gone
  <2>3. UNCHANGED <<engine, listened>> /\ cell = None
    BY <1>7, NoneAssumption DEF EndResolve, TypeOK, At, Configured, Exclusive
  <2>4. engine = None
    BY <2>3 DEF EngineInv, EngineAgreed
  <2>5. Drained'
    BY <2>2, <2>3 DEF EngineInv, Drained
  <2>6. EngineAgreed'
    BY <2>2, <2>3, <2>4 DEF EngineInv, EngineAgreed, At
  <2> QED BY <2>5, <2>6 DEF EngineInv
<1>8. ASSUME NEW t \in Threads, ResolveLicense(t) PROVE EngineInv'
  <2>1. Goes(t, "telemetry") /\ "telemetry" \in Positions
    BY <1>8 DEF ResolveLicense, Positions, Building
  <2>2. call'[t].at = "telemetry" /\ \A s \in Threads \ {t} : call'[s] = call[s]
    BY <2>1, Gone
  <2>3. UNCHANGED <<cell, engine>> /\ listened \subseteq listened'
    BY <1>8 DEF ResolveLicense
  <2> QED BY <2>2, <2>3, Undisturbed
<1>9. ASSUME NEW t \in Threads, StartBroadcaster(t) PROVE EngineInv'
  <2>1. Goes(t, "provider") /\ "provider" \in Positions
    BY <1>9 DEF StartBroadcaster, Positions, Building
  <2>2. /\ call'[t].at = "provider" /\ \A s \in Threads \ {t} : call'[s] = call[s]
        /\ call'[t].config = call[t].config /\ call'[t].buffer = call[t].buffer
    BY <2>1, Gone
  <2>3. /\ UNCHANGED <<cell, engine>> /\ listened \subseteq listened'
        /\ call[t].config.telemetry # "" => call[t].buffer \in listened'
    BY <1>9 DEF StartBroadcaster
  <2> QED BY <2>2, <2>3, Undisturbed
<1>10. ASSUME NEW t \in Threads, Build(t) PROVE EngineInv'
  <2>1. Goes(t, "publish") /\ "publish" \in Positions
    BY <1>10 DEF Build, Positions, Building
  <2>2. /\ call'[t].at = "publish" /\ \A s \in Threads \ {t} : call'[s] = call[s]
        /\ call'[t].config = call[t].config /\ call'[t].buffer = call[t].buffer
    BY <2>1, Gone
  <2>3. /\ UNCHANGED <<cell, engine>> /\ UNCHANGED listened
        /\ call[t].config.telemetry # "" => call[t].buffer \in listened
        /\ ~Refused(call[t].config)
    BY <1>10 DEF Build, At, EngineInv, Drained
  <2> QED BY <2>2, <2>3, Undisturbed
<1>11. ASSUME NEW t \in Threads, BuildFails(t) PROVE EngineInv'
  <2>1. Back(t, "error", None) /\ "error" \in Results
    BY <1>11 DEF BuildFails, Results
  <2>2. /\ call'[t].at = "idle" /\ call'[t].result = "error"
        /\ \A s \in Threads \ {t} : call'[s] = call[s]
    BY <2>1, CameBack
  <2>3. UNCHANGED <<cell, engine>> /\ listened \subseteq listened'
    BY <1>11 DEF BuildFails
  <2> QED BY <2>2, <2>3, Undisturbed
<1>12. ASSUME NEW t \in Threads, Publish(t) PROVE EngineInv'
  <2>1. /\ call[t].buffer \in 0..(buffers - 1) /\ engine' \in 0..(buffers - 1)
        /\ Back(t, "ok", engine') /\ "ok" \in Results
    BY <1>12 DEF Publish, Results, At, Building, Calls, TypeOK
  <2>2. /\ call'[t].at = "idle" /\ call'[t].buffer = engine'
        /\ \A s \in Threads \ {t} : call'[s] = call[s]
    BY <2>1, CameBack
  <2>3. /\ call[t].config = cell /\ cell # None
        /\ ~Refused(call[t].config)
        /\ call[t].config.telemetry # "" => call[t].buffer \in listened
    BY <1>12 DEF Publish, At, Building, TypeOK, Configured, InitCalls, BuildCalls, EngineInv, Drained
  <2>4. UNCHANGED <<cell, listened>> /\ engine' = IF engine = None THEN call[t].buffer ELSE engine
    BY <1>12 DEF Publish
  <2>5. engine' # None /\ (engine # None => engine' = engine)
    BY <1>a, <2>1, <2>4
  <2>6. Drained'
    BY <2>2, <2>4 DEF EngineInv, Drained
  <2>7. EngineAgreed'
    <3>1. cell' # None /\ ~Refused(cell') /\ (cell'.telemetry # "" => engine' \in listened')
      BY <2>3, <2>4 DEF EngineInv, EngineAgreed
    <3>2. \A s \in Threads :
            call'[s].at = "idle" /\ call'[s].programmatic = None /\ call'[s].result = "ok" =>
              call'[s].buffer = engine'
      BY <2>2, <2>5 DEF EngineInv, EngineAgreed, At
    <3> QED BY <2>5, <3>1, <3>2 DEF EngineAgreed, At
  <2> QED BY <2>6, <2>7 DEF EngineInv
<1>13. CASE UNCHANGED vars
  BY <1>13 DEF vars, EngineInv, Drained, EngineAgreed, At
<1> QED BY <1>1, <1>2, <1>3, <1>4, <1>5, <1>6, <1>7, <1>8, <1>9, <1>10, <1>11, <1>12, <1>13 DEF Next, Runs

--------------------------------------------------------------------------------
LEMMA Inductive == Spec => [](TypeOK /\ Configured /\ EngineInv)
<1>1. Init => TypeOK /\ Configured /\ EngineInv
  BY TypeInit, ConfiguredInit, EngineInit
<1>2. TypeOK /\ Configured /\ EngineInv /\ [Next]_vars => (TypeOK /\ Configured /\ EngineInv)'
  BY TypeStep, ConfiguredStep, EngineStep
<1> QED BY <1>1, <1>2, PTL DEF Spec

(* Every variable keeps its type, exactly the thread inside get_or_init      *)
(* holds the cell, and a thread that builds has configuration and buffer     *)
(* (resolver.rs:105, lib.rs:192-424).                                        *)
THEOREM TypeCorrect == Spec => []TypeOK
BY Inductive, PTL

(* Whatever the threads, the place and the arguments, the process has one    *)
(* configuration, resolved as the cascade says, and init() answers Ok only   *)
(* when it is its own (init_overrides, get_config, resolve_configuration).   *)
THEOREM OneConfiguration == Spec => []ConfigAgreed
<1>1. TypeOK /\ Configured => ConfigAgreed
  <2> SUFFICES ASSUME TypeOK, Configured PROVE ConfigAgreed
    OBVIOUS
  <2>1. cell # None => \E l \in Overrides \cup {NoLayer} : StrongestWins(cell, l)
    BY Resolved DEF TypeOK, Configured, CellResolved
  <2>2. ASSUME NEW t \in Threads, call[t].programmatic # None, call[t].result = "ok"
        PROVE  StrongestWins(cell, call[t].programmatic)
    <3>1. call[t].programmatic \in Overrides
      BY <2>2 DEF TypeOK, Calls
    <3>2. cell = resolve_configuration(place, call[t].programmatic)
      BY <2>2 DEF Configured, InitCalls
    <3> QED BY <3>1, <3>2, Resolved DEF TypeOK
  <2> QED BY <2>1, <2>2 DEF ConfigAgreed, Configured, BuildCalls
<1> QED BY Inductive, <1>1, PTL

(* Whatever builds fail and races are lost, all calls use one engine, built  *)
(* from the configuration in force, whose audit buffer is drained if that    *)
(* configuration names a telemetry endpoint (build_engine_state,             *)
(* get_engine_state).                                                        *)
THEOREM OneEngine == Spec => []EngineAgreed
<1>1. EngineInv => EngineAgreed
  BY DEF EngineInv
<1> QED BY Inductive, <1>1, PTL

================================================================================
