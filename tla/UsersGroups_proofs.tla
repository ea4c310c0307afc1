-------------------------- MODULE UsersGroups_proofs --------------------------
(***************************************************************************)
(* Theorems about UsersGroups, for any names, ids and configurations, any  *)
(* number of runs, stops and acts of the administrator.                    *)
(***************************************************************************)
EXTENDS UsersGroups, TLAPS

Accounts == [Names -> Ids \cup {None}]

(* Accounts share ids only with those of S. *)
Unique(f, S) ==
    \A m, n \in Names : f[m] = f[n] /\ f[n] # None =>
        m = n \/ m \in S \/ n \in S

(* Accounts keep their ids. *)
Keeps(o, r) == \A n \in Names : o[n] # None /\ r[n] # None => o[n] = r[n]

(* The id of a new account, if it is not the declared one, is nobody else's: no
   other new account's, none that is declared, none of an account there was. *)
Fresh(o, r, x) ==
    \A n \in Names : o[n] # None /\ r[n] = None /\ o[n] # x[n] =>
        \A m \in Names : /\ r[m] # o[n] /\ x[m] # o[n]
                         /\ m # n => o[m] # o[n]

(* New accounts have the declared id, the one remembered for them, or one that is
   remembered for nobody. *)
Reserved(o, r, x, p) ==
    \A n \in Names : o[n] # None /\ r[n] = None /\ o[n] # x[n] /\ o[n] # p[n] =>
        \A m \in Names \ {n} : o[n] # p[m]

RunInv(k) ==
    /\ Unique(read.db[k], doubled[k])
    /\ IdsIn(read.db[k]) \cup IdsIn(out[k]) \cup Explicit(config, k) \subseteq used[k]
    /\ Keeps(out[k], read.db[k])
    /\ Fresh(out[k], read.db[k], config.ids[k])
    /\ Reserved(out[k], read.db[k], config.ids[k], read.map[k])

IInv ==
    /\ TypeOK
    /\ IdsAreUnique
    /\ pc # "idle" => \A k \in Kinds : RunInv(k)
    /\ pc = "resolve" => todo \subseteq Declared(config, kind)
    /\ pc = "db" => map[kind] = Remembered(kind)
    /\ ~AdminRaces /\ pc \in {"resolve", "map", "db"} =>
          db[kind] = read.db[kind] /\ db["user"] = read.db["user"]

-----------------------------------------------------------------------------
(* The program never stores anything but ids, ranges and passwords; what it is
   configured to does not matter for this. *)
LEMMA TypesInit == Init => TypeOK
<1> SUFFICES ASSUME Init PROVE TypeOK
  OBVIOUS
<1>1. /\ db \in [Kinds -> Accounts] /\ map \in [Kinds -> Accounts]
      /\ decl \in [Kinds -> SUBSET Names] /\ out \in [Kinds -> Accounts]
      /\ read \in [db : [Kinds -> Accounts], map : [Kinds -> Accounts],
                   decl : [Kinds -> SUBSET Names]]
  BY DEF Init, Nothing, NoIds, Accounts
<1>2. /\ shadow \in [Names -> Passwords \cup {None}]
      /\ sub \in [SubFiles -> [Names -> Starts \cup {None}]]
      /\ subMap \in [Names -> Starts \cup {None}]
      /\ subOut \in [Names -> Starts \cup {None}]
  BY DEF Init, NoIds
<1>3. runs \in 0..MaxRuns /\ stops \in 0..MaxStops /\ admin \in 0..MaxAdmin
  BY BoundsAssumption DEF Init
<1>4. /\ pc = "idle" /\ pc \in Steps /\ kind \in Kinds
      /\ config \in Configs \cup {None}
  BY DEF Init, Kinds, Steps
<1>5. /\ used \in [Kinds -> SUBSET Ids] /\ todo \subseteq Names
      /\ subUsed \subseteq SubIds \cup Starts
      /\ imperative \in [Kinds -> SUBSET Names] /\ doubled \in [Kinds -> SUBSET Names]
      /\ completed \in BOOLEAN /\ interrupted \in BOOLEAN
  BY DEF Init
<1> QED
  BY <1>1, <1>2, <1>3, <1>4, <1>5 DEF TypeOK, Accounts

LEMMA TypesForgotten ==
    ASSUME TypeOK, Forgotten, UNCHANGED <<db, map, decl, shadow, sub, config>>,
           subMap' \in [Names -> Starts \cup {None}],
           imperative' \in [Kinds -> SUBSET Names],
           doubled' = doubled, completed' \in BOOLEAN, interrupted' \in BOOLEAN,
           runs' \in 0..MaxRuns, stops' \in 0..MaxStops, admin' \in 0..MaxAdmin
    PROVE  TypeOK'
BY DEF TypeOK, Forgotten, Nothing, NoIds, Kinds, Steps

LEMMA TypesStart == ASSUME TypeOK, NEW c \in Configs, Start(c) PROVE TypeOK'
<1>1. \A k \in Kinds : Explicit(c, k) \cup IdsIn(db[k]) \in SUBSET Ids
  BY ConfigsAssumption DEF TypeOK, Explicit, IdsIn
<1>2. used' \in [Kinds -> SUBSET Ids]
  BY <1>1 DEF Start
<1>3. runs' \in 0..MaxRuns
  BY BoundsAssumption DEF TypeOK, Start
<1> QED
  BY <1>2, <1>3 DEF TypeOK, Start, files, Declared, NoIds, Kinds, Steps

LEMMA TypesResolve == ASSUME TypeOK, NEW n \in Names, Resolve(n) PROVE TypeOK'
<1>1. PICK i \in Ids : \E u \in {used[kind], used[kind] \cup {i},
                                  used[kind] \cup Scanned(kind, n, i)} :
          /\ out' = [out EXCEPT ![kind] = [@ EXCEPT ![n] = i]]
          /\ used' = [used EXCEPT ![kind] = u]
  BY DEF Resolve
<1>2. PICK u \in {used[kind], used[kind] \cup {i},
                  used[kind] \cup Scanned(kind, n, i)} :
          /\ out' = [out EXCEPT ![kind] = [@ EXCEPT ![n] = i]]
          /\ used' = [used EXCEPT ![kind] = u]
  BY <1>1
<1>3. u \in SUBSET Ids
  BY <1>2, ConfigsAssumption DEF TypeOK, Scanned, RangeOf
<1>4. \A k \in Kinds : out[k] \in Accounts
  BY DEF TypeOK, Accounts
<1>5. out' \in [Kinds -> [Names -> Ids \cup {None}]] /\ used' \in [Kinds -> SUBSET Ids]
  BY <1>2, <1>3, <1>4 DEF TypeOK, Accounts
<1> QED
  BY <1>5 DEF TypeOK, Resolve, files, history

LEMMA TypesWriteDb == ASSUME TypeOK, WriteDb PROVE TypeOK'
<1>1. \A k \in Kinds : Merged(k) \in Accounts
  BY DEF TypeOK, Merged, Accounts
<1>2. /\ db' \in [Kinds -> [Names -> Ids \cup {None}]]
      /\ out' \in [Kinds -> [Names -> Ids \cup {None}]]
  BY <1>1 DEF TypeOK, Accounts, WriteDb
<1>3. imperative' \in [Kinds -> SUBSET Names] /\ doubled' \in [Kinds -> SUBSET Names]
  BY DEF TypeOK, WriteDb, Doubling
<1>4. todo' \subseteq Names /\ kind' \in Kinds /\ pc' \in Steps /\ pc # "idle"
  BY DEF TypeOK, Declared, Kinds, Steps, WriteDb
<1> QED
  BY <1>2, <1>3, <1>4 DEF TypeOK, WriteDb

LEMMA TypesResolveSub == ASSUME TypeOK, NEW n \in Names, ResolveSub(n) PROVE TypeOK'
<1>1. subUsed' \subseteq SubIds \cup Starts /\ subOut' \in [Names -> Starts \cup {None}]
  <2>1. CASE SubRevivable(n)
    <3>1. subMap[n] \in Starts
      BY <2>1 DEF TypeOK, SubRevivable
    <3>2. /\ subUsed' = subUsed \cup {subMap[n]}
          /\ subOut' = [subOut EXCEPT ![n] = subMap[n]]
      BY <2>1 DEF ResolveSub
    <3> QED
      BY <3>1, <3>2 DEF TypeOK
  <2>2. CASE ~SubRevivable(n)
    <3>1. PICK i \in SubFree : /\ subUsed' = subUsed \cup 0..i
                               /\ subOut' = [subOut EXCEPT ![n] = SubStart(i)]
      BY <2>2 DEF ResolveSub
    <3>2. i \in SubIds /\ SubStart(i) \in Starts
      BY <3>1 DEF SubFree, SubStart, Starts
    <3>3. 0..i \subseteq SubIds
      BY <3>2, BoundsAssumption
    <3>4. subUsed \subseteq SubIds \cup Starts /\ subOut \in [Names -> Starts \cup {None}]
      BY DEF TypeOK
    <3>5. subUsed' \subseteq SubIds \cup Starts
      BY <3>1, <3>3, <3>4
    <3>6. subOut' \in [Names -> Starts \cup {None}]
      BY <3>1, <3>2, <3>4
    <3> QED
      BY <3>5, <3>6
  <2> QED
    BY <2>1, <2>2
<1> QED
  BY <1>1 DEF TypeOK, ResolveSub, files, history

LEMMA TypesAdmin ==
    ASSUME TypeOK, NEW k \in Kinds, NEW n \in Names,
           AddAccount(k, n) \/ DeleteAccount(k, n) \/ ChangePassword(n)
    PROVE  TypeOK'
<1>1. AdminActs
  BY DEF AddAccount, DeleteAccount, ChangePassword
<1>2. admin' \in 0..MaxAdmin
  BY <1>1, BoundsAssumption DEF AdminActs, TypeOK
<1>3. db' \in [Kinds -> [Names -> Ids \cup {None}]]
  <2>1. CASE AddAccount(k, n)
    <3>1. PICK i \in (IF k = "group" THEN SysIds ELSE UserIds) \ IdsIn(db[k]) :
              db' = [db EXCEPT ![k] = [@ EXCEPT ![n] = i]]
      BY <2>1 DEF AddAccount
    <3>2. i \in Ids
      BY <3>1, ConfigsAssumption
    <3> QED
      BY <3>1, <3>2 DEF TypeOK
  <2>2. CASE DeleteAccount(k, n)
    BY <2>2 DEF DeleteAccount, TypeOK
  <2>3. CASE ChangePassword(n)
    BY <2>3 DEF ChangePassword, TypeOK
  <2> QED
    BY <2>1, <2>2, <2>3
<1>4. /\ shadow' \in [Names -> Passwords \cup {None}]
      /\ imperative' \in [Kinds -> SUBSET Names]
  <2>1. CASE AddAccount(k, n)
    BY <2>1 DEF AddAccount, TypeOK, Passwords
  <2>2. CASE DeleteAccount(k, n)
    BY <2>2 DEF DeleteAccount, TypeOK, Passwords
  <2>3. CASE ChangePassword(n)
    BY <2>3 DEF ChangePassword, TypeOK, Passwords
  <2> QED
    BY <2>1, <2>2, <2>3
<1> QED
  BY <1>1, <1>2, <1>3, <1>4 DEF TypeOK, AdminActs, working

LEMMA TypesNext == ASSUME TypeOK, [Next]_vars PROVE TypeOK'
<1>1. CASE UNCHANGED vars
  BY <1>1 DEF TypeOK, vars, files, working, history
<1>2. ASSUME NEW c \in Configs, Start(c) PROVE TypeOK'
  BY <1>2, TypesStart
<1>3. ASSUME NEW n \in Names, Resolve(n) PROVE TypeOK'
  BY <1>3, TypesResolve
<1>4. ASSUME NEW n \in Names, OutOfIds(n) PROVE TypeOK'
  BY <1>4, TypesForgotten DEF OutOfIds, files, history, TypeOK
<1>5. ASSUME NEW n \in Names, ResolveSub(n) PROVE TypeOK'
  BY <1>5, TypesResolveSub
<1>6. CASE WriteDeclared
  BY <1>6 DEF TypeOK, WriteDeclared, working, history, Declared, Steps
<1>7. CASE WriteMap
  <2>1. \A k \in Kinds : Remembered(k) \in Accounts
    BY DEF TypeOK, Remembered, Accounts
  <2>2. map' \in [Kinds -> [Names -> Ids \cup {None}]]
    BY <1>7, <2>1 DEF TypeOK, Accounts, WriteMap
  <2> QED
    BY <1>7, <2>2 DEF TypeOK, WriteMap, working, history, Steps
<1>8. CASE WriteDb
  BY <1>8, TypesWriteDb
<1>9. CASE WriteShadow
  <2>1. shadow' \in [Names -> Passwords \cup {None}]
    BY <1>9 DEF TypeOK, WriteShadow, ShadowLine, Hashed, Passwords
  <2> QED
    BY <1>9, <2>1 DEF TypeOK, WriteShadow, history, Declared, Steps
<1>10. CASE SubsResolved
  BY <1>10 DEF TypeOK, SubsResolved, files, working, history, Steps
<1>11. CASE WriteSubMap
  <2>1. subMap' \in [Names -> Starts \cup {None}]
    BY <1>11 DEF TypeOK, WriteSubMap
  <2> QED
    BY <1>11, <2>1, TypesForgotten DEF WriteSubMap, TypeOK
<1>12. ASSUME NEW f \in SubFiles, WriteSub(f) PROVE TypeOK'
  BY <1>12 DEF TypeOK, WriteSub, working, history, SubFiles, Steps
<1>13. CASE Stop
  <2>1. stops' \in 0..MaxStops
    BY <1>13, BoundsAssumption DEF Stop, TypeOK
  <2> QED
    BY <1>13, <2>1, TypesForgotten DEF Stop, files, TypeOK
<1>14. ASSUME NEW n \in Names, NEW k \in Kinds,
              AddAccount(k, n) \/ DeleteAccount(k, n) \/ ChangePassword(n)
       PROVE  TypeOK'
  BY <1>14, TypesAdmin
<1>15. Kinds # {}
  BY DEF Kinds
<1> QED
  BY <1>1, <1>2, <1>3, <1>4, <1>5, <1>6, <1>7, <1>8, <1>9, <1>10, <1>11, <1>12,
     <1>13, <1>14, <1>15 DEF Next, RunStep

(* Every file and variable keeps its type (l.9-144 read them back). *)
THEOREM TypeCorrect == Spec => []TypeOK
BY TypesInit, TypesNext, PTL DEF Spec

-----------------------------------------------------------------------------
LEMMA InitEstablishes == Init => IInv
<1> SUFFICES ASSUME Init PROVE IInv
  OBVIOUS
<1>1. TypeOK
  BY TypesInit
<1>2. IdsAreUnique
  BY DEF Init, IdsAreUnique, Nothing, NoIds
<1> QED
  BY <1>1, <1>2 DEF IInv, Init

(* Without a run there is only what is on disk. *)
LEMMA ForgottenKeeps ==
    ASSUME IInv, Forgotten, UNCHANGED <<db, map, decl, shadow, sub, config>>,
           subMap' \in [Names -> Starts \cup {None}],
           imperative' \in [Kinds -> SUBSET Names],
           doubled' = doubled, completed' \in BOOLEAN, interrupted' \in BOOLEAN,
           runs' \in 0..MaxRuns, stops' \in 0..MaxStops, admin' \in 0..MaxAdmin
    PROVE  IInv'
<1>1. TypeOK'
  BY TypesForgotten DEF IInv
<1>2. IdsAreUnique'
  BY DEF IInv, IdsAreUnique
<1> QED
  BY <1>1, <1>2 DEF IInv, Forgotten

LEMMA StartPreserves ==
    ASSUME IInv, NEW c \in Configs, Start(c)
    PROVE  IInv'
<1>1. TypeOK'
  BY TypesStart DEF IInv
<1>2. \A k \in Kinds : RunInv(k)'
  <2> SUFFICES ASSUME NEW k \in Kinds PROVE RunInv(k)'
    OBVIOUS
  <2>1. read'.db[k] = db[k] /\ read'.map[k] = map[k] /\ out'[k] = NoIds
        /\ used'[k] = Explicit(c, k) \cup IdsIn(db[k]) /\ config' = c
    BY DEF Start
  <2>2. Unique(db[k], doubled[k]) /\ doubled' = doubled
    BY DEF IInv, IdsAreUnique, Unique, Start
  <2>3. /\ IdsIn(NoIds) = {} /\ Keeps(NoIds, db[k])
        /\ Fresh(NoIds, db[k], c.ids[k]) /\ Reserved(NoIds, db[k], c.ids[k], map[k])
    BY DEF IdsIn, NoIds, Keeps, Fresh, Reserved
  <2> QED
    BY <2>1, <2>2, <2>3
    DEF RunInv, Explicit, IdsIn, Keeps, Fresh, Unique, Reserved
<1>3. IdsAreUnique'
  BY DEF IInv, IdsAreUnique, Start, files
<1>4. /\ pc' = "resolve" /\ todo' = Declared(config', kind')
      /\ db'[kind'] = read'.db[kind'] /\ db'["user"] = read'.db["user"]
  BY DEF Start, files, Declared
<1> QED
  BY <1>1, <1>2, <1>3, <1>4 DEF IInv

(* What a name is given keeps ids apart: the heart of the matter. *)
LEMMA ResolvesSoundly ==
    ASSUME IInv, pc # "idle", NEW k \in Kinds, NEW n \in Names,
           NEW i \in Ids, NEW u \in SUBSET Ids, Resolves(k, n, i, u),
           config.ids[k][n] # None
    PROVE  /\ used[k] \subseteq u /\ i \in u
           /\ read.db[k][n] # None => i = read.db[k][n]
           /\ read.db[k][n] = None /\ i # config.ids[k][n] =>
                 /\ i \notin used[k]
                 /\ i = read.map[k][n] \/ \A m \in Names : read.map[k][m] # i
<1> DEFINE existing == read.db[k][n]
           declared == config.ids[k][n]
<1>1. RunInv(k) /\ config \in Configs
  BY DEF IInv, TypeOK
<1>2. \A m \in Names : read.db[k][m] # None => read.db[k][m] \in used[k]
  BY <1>1 DEF RunInv, IdsIn
<1>3. declared \in Ids \cup {AnyId} /\ (declared \in Ids => declared \in used[k])
  <2>1. config.ids \in [Kinds -> [Names -> Ids \cup {None, AnyId}]]
    BY <1>1, ConfigsAssumption
  <2>2. declared \in Ids \cup {AnyId}
    BY <2>1
  <2>3. Explicit(config, k) \subseteq used[k]
    BY <1>1 DEF RunInv
  <2> QED
    BY <2>2, <2>3, ConfigsAssumption DEF Explicit
<1>4. i # None
  BY ConfigsAssumption
<1>5. CASE existing # None /\ i = existing /\ u = used[k]
  BY <1>2, <1>5
<1>6. CASE existing = None /\ declared # AnyId /\ i = declared /\ u = used[k]
  BY <1>3, <1>6
<1>7. CASE existing = None /\ declared = AnyId /\ i = read.map[k][n]
           /\ i \notin used[k] /\ u = used[k] \cup {i}
  BY <1>7
<1>8. CASE existing = None /\ declared = AnyId /\ Allocates(k, n, i)
           /\ u = used[k] \cup Scanned(k, n, i)
  <2>1. /\ i \notin used[k] /\ i \notin IdsIn(read.map[k])
        /\ i \in Scanned(k, n, i)
    BY <1>8 DEF Allocates, Free, PrevUsed
  <2>2. \A m \in Names : read.map[k][m] # i
    BY <2>1, <1>4 DEF IdsIn
  <2> QED
    BY <2>1, <2>2, <1>8
<1> QED
  BY <1>5, <1>6, <1>7, <1>8 DEF Resolves, Revivable


LEMMA ResolvePreserves ==
    ASSUME IInv, NEW n \in Names, Resolve(n)
    PROVE  IInv'
<1>0. PICK i \in Ids : \E u \in {used[kind], used[kind] \cup {i},
                                  used[kind] \cup Scanned(kind, n, i)} :
          /\ Resolves(kind, n, i, u)
          /\ out' = [out EXCEPT ![kind] = [@ EXCEPT ![n] = i]]
          /\ used' = [used EXCEPT ![kind] = u]
  BY DEF Resolve
<1>1. PICK u \in {used[kind], used[kind] \cup {i},
                  used[kind] \cup Scanned(kind, n, i)} :
          /\ Resolves(kind, n, i, u)
          /\ out' = [out EXCEPT ![kind] = [@ EXCEPT ![n] = i]]
          /\ used' = [used EXCEPT ![kind] = u]
  BY <1>0
<1>2. /\ pc = "resolve" /\ n \in todo /\ kind \in Kinds
      /\ UNCHANGED <<kind, pc, read, config, db, map, doubled>>
      /\ todo' = todo \ {n}
  BY DEF Resolve, IInv, TypeOK, files, history
<1>3. u \in SUBSET Ids
  BY <1>1, <1>2, ConfigsAssumption DEF IInv, TypeOK, Scanned, RangeOf
<1>4. config.ids[kind][n] # None
  BY <1>2 DEF IInv, Declared
<1>5. \A k \in Kinds : out[k] \in Accounts /\ used[k] \in SUBSET Ids
  BY DEF IInv, TypeOK, Accounts
<1>6. /\ out'[kind] = [out[kind] EXCEPT ![n] = i] /\ used'[kind] = u
      /\ \A k \in Kinds \ {kind} : out'[k] = out[k] /\ used'[k] = used[k]
  BY <1>1, <1>2 DEF IInv, TypeOK
<1>7. TypeOK'
  BY TypesResolve DEF IInv
<1>8. \A k \in Kinds : RunInv(k)
  BY <1>2 DEF IInv
<1>9. RunInv(kind)'
  <2> DEFINE o == out[kind]
             r == read.db[kind]
             p == read.map[kind]
             x == config.ids[kind]
  <2>1. /\ used[kind] \subseteq u /\ i \in u
        /\ r[n] # None => i = r[n]
        /\ r[n] = None /\ i # x[n] =>
              /\ i \notin used[kind]
              /\ i = p[n] \/ \A m \in Names : p[m] # i
    BY <1>1, <1>2, <1>3, <1>4, ResolvesSoundly
  <2>2. out'[kind] \in Accounts /\ \A m \in Names :
            out'[kind][m] = IF m = n THEN i ELSE o[m]
    BY <1>5, <1>6, <1>2 DEF Accounts
  <2>3. /\ Unique(r, doubled[kind])
        /\ IdsIn(r) \cup IdsIn(o) \cup Explicit(config, kind) \subseteq used[kind]
        /\ Keeps(o, r) /\ Fresh(o, r, x) /\ Reserved(o, r, x, p)
    BY <1>8, <1>2 DEF RunInv
  <2>4. /\ read'.db[kind] = r /\ read'.map[kind] = p /\ config'.ids[kind] = x
        /\ Explicit(config', kind) = Explicit(config, kind) /\ doubled' = doubled
    BY <1>2
  <2>5. \A m \in Names : /\ r[m] # None => r[m] \in used[kind]
                         /\ o[m] # None => o[m] \in used[kind]
                         /\ x[m] \in Ids => x[m] \in used[kind]
    BY <2>3, ConfigsAssumption DEF IdsIn, Explicit
  <2>6. i # None /\ i \in Ids
    BY ConfigsAssumption
  <2> HIDE DEF o, r, p, x
  <2>7. IdsIn(r) \cup IdsIn(out'[kind]) \cup Explicit(config, kind) \subseteq used'[kind]
    BY <2>1, <2>2, <2>3, <1>6 DEF IdsIn
  <2>8. Keeps(out'[kind], r)
    BY <2>1, <2>2, <2>3 DEF Keeps
  <2>9. Fresh(out'[kind], r, x)
    <3> SUFFICES ASSUME NEW l \in Names, out'[kind][l] # None, r[l] = None,
                        out'[kind][l] # x[l], NEW m \in Names
                 PROVE  /\ r[m] # out'[kind][l] /\ x[m] # out'[kind][l]
                        /\ m # l => out'[kind][m] # out'[kind][l]
      BY DEF Fresh
    <3>1. CASE l = n
      BY <3>1, <2>1, <2>2, <2>5, <2>6
    <3>2. CASE l # n
      <4>1. /\ r[m] # o[l] /\ x[m] # o[l] /\ (m # l => o[m] # o[l])
            /\ r[n] # o[l] /\ x[n] # o[l] /\ out'[kind][l] = o[l] /\ o[l] # None
        BY <3>2, <2>2, <2>3 DEF Fresh
      <4>2. CASE m = n
        <5>1. o[l] \in used[kind]
          BY <4>1, <2>5
        <5> QED
          BY <5>1, <4>1, <4>2, <2>1, <2>2
      <4>3. CASE m # n
        BY <4>1, <4>3, <2>2
      <4> QED
        BY <4>2, <4>3
    <3> QED
      BY <3>1, <3>2
  <2>10. Reserved(out'[kind], r, x, p)
    BY <2>1, <2>2, <2>3 DEF Reserved
  <2> QED
    BY <2>3, <2>4, <2>7, <2>8, <2>9, <2>10, <1>2 DEF RunInv, IdsIn, Explicit
<1>10. \A k \in Kinds : RunInv(k)'
  <2> SUFFICES ASSUME NEW k \in Kinds, k # kind PROVE RunInv(k)'
    BY <1>9, <1>2
  <2> QED
    BY <1>2, <1>6, <1>8 DEF RunInv, Explicit
<1> QED
  BY <1>2, <1>7, <1>10 DEF IInv, IdsAreUnique, Declared


(* Steps that touch neither the account files nor what the run knows of them. *)
LEMMA OtherStepKeeps ==
    ASSUME IInv, TypeOK', pc # "idle",
           UNCHANGED <<db, map, read, used, out, config, kind, doubled>>,
           pc' # "db", pc' # "resolve", pc' = "map" => pc = "resolve"
    PROVE  IInv'
<1>1. \A k \in Kinds : RunInv(k)'
  BY DEF IInv, RunInv, Explicit
<1> QED
  BY <1>1 DEF IInv, IdsAreUnique

LEMMA WriteDeclaredPreserves == ASSUME IInv, WriteDeclared PROVE IInv'
<1>1. TypeOK'
  BY TypesNext DEF IInv, Next, RunStep
<1> QED
  BY <1>1, OtherStepKeeps DEF WriteDeclared, working, history

LEMMA WriteMapPreserves == ASSUME IInv, WriteMap PROVE IInv'
<1>1. /\ pc = "map" /\ pc' = "db" /\ kind \in Kinds
      /\ UNCHANGED <<db, kind, config, read, used, out, doubled>>
      /\ map' = [map EXCEPT ![kind] = Remembered(kind)]
  BY DEF WriteMap, working, history, IInv, TypeOK
<1>2. TypeOK'
  BY TypesNext DEF IInv, Next, RunStep
<1>3. \A k \in Kinds : RunInv(k)'
  BY <1>1 DEF IInv, RunInv, Explicit
<1>4. map'[kind'] = Remembered(kind)'
  BY <1>1 DEF IInv, TypeOK, Remembered
<1> QED
  BY <1>1, <1>2, <1>3, <1>4 DEF IInv, IdsAreUnique

(* What is merged into the account file shares an id only where a configuration
   declares one that is taken. *)
LEMMA MergedIsSound ==
    ASSUME IInv, pc # "idle", NEW k \in Kinds
    PROVE  /\ Merged(k) \in Accounts
           /\ Unique(Merged(k), doubled[k] \cup Doubling(k))
           /\ IdsIn(Merged(k)) \subseteq IdsIn(out[k]) \cup IdsIn(read.db[k])
           /\ Keeps(Merged(k), read.db[k])
           /\ Fresh(Merged(k), read.db[k], config.ids[k])
           /\ Reserved(Merged(k), read.db[k], config.ids[k], read.map[k])
<1> DEFINE f == Merged(k)
           o == out[k]
           r == read.db[k]
           x == config.ids[k]
<1>1. /\ Unique(r, doubled[k]) /\ Keeps(o, r) /\ Fresh(o, r, x)
      /\ Reserved(o, r, x, read.map[k]) /\ config \in Configs
  BY DEF IInv, RunInv, TypeOK
<1>2. o \in Accounts /\ r \in Accounts
  BY DEF IInv, TypeOK, Accounts
<1>3. f \in Accounts
  BY <1>2 DEF Merged, Accounts
<1>4. \A n \in Names : /\ o[n] # None => f[n] = o[n]
                       /\ o[n] = None => f[n] \in {r[n], None}
  BY DEF Merged
<1>5. \A m, n \in Names : x[m] = x[n] /\ x[n] \in Ids => m = n
  BY <1>1, ConfigsAssumption
<1>6. \A n \in Names : r[n] = None /\ x[n] \in IdsIn(r) => n \in Doubling(k)
  BY DEF Doubling
<1> HIDE DEF f, o, r, x
<1>7. Keeps(f, r)
  BY <1>1, <1>4 DEF Keeps
<1>8. Fresh(f, r, x)
  <2> SUFFICES ASSUME NEW n \in Names, f[n] # None, r[n] = None, f[n] # x[n],
                      NEW m \in Names
               PROVE  /\ r[m] # f[n] /\ x[m] # f[n]
                      /\ m # n => f[m] # f[n]
    BY DEF Fresh
  <2>1. f[n] = o[n] /\ o[n] # None
    BY <1>4
  <2>2. r[m] # o[n] /\ x[m] # o[n] /\ (m # n => o[m] # o[n])
    BY <2>1, <1>1 DEF Fresh
  <2> QED
    BY <2>1, <2>2, <1>4
<1>9. Unique(f, doubled[k] \cup Doubling(k))
  <2> SUFFICES ASSUME NEW m \in Names, NEW n \in Names, f[m] = f[n], f[n] # None,
                      m # n
               PROVE  m \in doubled[k] \cup Doubling(k) \/ n \in doubled[k] \cup Doubling(k)
    BY DEF Unique
  <2>1. f[m] \in Ids
    BY <1>3 DEF Accounts
  <2>2. CASE r[m] # None /\ r[n] # None
    BY <2>2, <1>1, <1>7 DEF Keeps, Unique
  <2>3. CASE r[m] = None /\ r[n] # None
    <3>1. f[n] = r[n] /\ f[m] = x[m]
      BY <2>3, <1>7, <1>8 DEF Keeps, Fresh
    <3> QED
      BY <3>1, <2>3, <1>6 DEF IdsIn
  <2>4. CASE r[m] # None /\ r[n] = None
    <3>1. f[m] = r[m] /\ f[n] = x[n]
      BY <2>4, <1>7, <1>8 DEF Keeps, Fresh
    <3> QED
      BY <3>1, <2>4, <1>6 DEF IdsIn
  <2>5. CASE r[m] = None /\ r[n] = None
    <3>1. f[m] = x[m] /\ f[n] = x[n]
      BY <2>5, <1>8 DEF Fresh
    <3> QED
      BY <3>1, <2>1, <1>5
  <2> QED
    BY <2>2, <2>3, <2>4, <2>5
<1>10. IdsIn(f) \subseteq IdsIn(o) \cup IdsIn(r)
  BY <1>4 DEF IdsIn
<1>11. Reserved(f, r, x, read.map[k])
  BY <1>1, <1>4 DEF Reserved
<1> QED
  BY <1>3, <1>7, <1>8, <1>9, <1>10, <1>11 DEF f, o, r, x

LEMMA WriteDbPreserves == ASSUME IInv, WriteDb PROVE IInv'
<1>1. /\ pc = "db" /\ pc' \in {"resolve", "shadow"} /\ kind \in Kinds
      /\ UNCHANGED <<map, config, read, used>>
      /\ db' = [db EXCEPT ![kind] = Merged(kind)]
      /\ out' = [out EXCEPT ![kind] = Merged(kind)]
      /\ doubled' = [doubled EXCEPT ![kind] = @ \cup Doubling(kind)]
      /\ \/ kind = "group" /\ kind' = "user" /\ todo' = Declared(config, "user")
         \/ kind' = kind /\ todo' = todo /\ pc' = "shadow"
  BY DEF WriteDb, IInv, TypeOK
<1>2. /\ Merged(kind) \in Accounts
      /\ Unique(Merged(kind), doubled[kind] \cup Doubling(kind))
      /\ IdsIn(Merged(kind)) \subseteq IdsIn(out[kind]) \cup IdsIn(read.db[kind])
      /\ Keeps(Merged(kind), read.db[kind])
      /\ Fresh(Merged(kind), read.db[kind], config.ids[kind])
      /\ Reserved(Merged(kind), read.db[kind], config.ids[kind], read.map[kind])
  BY <1>1, MergedIsSound
<1>3. /\ db'[kind] = Merged(kind) /\ out'[kind] = Merged(kind)
      /\ doubled'[kind] = doubled[kind] \cup Doubling(kind)
      /\ \A k \in Kinds \ {kind} :
            db'[k] = db[k] /\ out'[k] = out[k] /\ doubled'[k] = doubled[k]
  BY <1>1 DEF IInv, TypeOK
<1>4. TypeOK'
  BY TypesWriteDb DEF IInv
<1>5. IdsAreUnique'
  BY <1>2, <1>3 DEF IInv, IdsAreUnique, Unique
<1>6. \A k \in Kinds : RunInv(k)
  BY <1>1 DEF IInv
<1>7. \A k \in Kinds : RunInv(k)'
  <2>1. ASSUME NEW k \in Kinds, k # kind PROVE RunInv(k)'
    BY <1>1, <1>3, <1>6, <2>1 DEF RunInv, Explicit
  <2>2. ASSUME NEW k \in Kinds, k = kind PROVE RunInv(k)'
    <3>1. out'[k] = Merged(k)
      BY <1>3, <2>2
    <3>2. Unique(read.db[k], doubled[k]) => Unique(read.db[k], doubled'[k])
      BY <1>3, <2>2 DEF Unique
    <3> HIDE DEF Merged
    <3> QED
      BY <1>1, <1>2, <3>1, <3>2, <1>6, <2>2 DEF RunInv, Explicit
  <2> QED
    BY <2>1, <2>2
<1>8. /\ pc' = "resolve" => todo' = Declared(config', kind')
      /\ pc' # "db" /\ pc' # "map" /\ pc' # "idle"
  BY <1>1 DEF Declared, WriteDb
<1>9. ~AdminRaces /\ pc' = "resolve" => db'[kind'] = read'.db[kind']
  BY <1>1, <1>3 DEF IInv, Kinds, WriteDb
<1> QED
  BY <1>1, <1>4, <1>5, <1>7, <1>8, <1>9 DEF IInv, WriteDb


LEMMA WriteShadowPreserves == ASSUME IInv, WriteShadow PROVE IInv'
<1>1. TypeOK'
  BY TypesNext DEF IInv, Next, RunStep
<1> QED
  BY <1>1, OtherStepKeeps DEF WriteShadow, history

LEMMA ResolveSubPreserves ==
    ASSUME IInv, NEW n \in Names, ResolveSub(n)
    PROVE  IInv'
<1>1. TypeOK'
  BY TypesResolveSub DEF IInv
<1> QED
  BY <1>1, OtherStepKeeps DEF ResolveSub, files, history

LEMMA SubsResolvedPreserves == ASSUME IInv, SubsResolved PROVE IInv'
<1>1. TypeOK'
  BY TypesNext DEF IInv, Next, RunStep
<1> QED
  BY <1>1, OtherStepKeeps DEF SubsResolved, files, working, history

LEMMA WriteSubPreserves ==
    ASSUME IInv, NEW f \in SubFiles, WriteSub(f)
    PROVE  IInv'
<1>1. TypeOK'
  BY TypesNext DEF IInv, Next, RunStep
<1> QED
  BY <1>1, OtherStepKeeps DEF WriteSub, working, history, SubFiles

LEMMA WriteSubMapPreserves == ASSUME IInv, WriteSubMap PROVE IInv'
<1>1. subMap' \in [Names -> Starts \cup {None}]
  BY DEF IInv, TypeOK, WriteSubMap
<1> QED
  BY <1>1, ForgottenKeeps DEF WriteSubMap, IInv, TypeOK

LEMMA OutOfIdsPreserves ==
    ASSUME IInv, NEW n \in Names, OutOfIds(n)
    PROVE  IInv'
BY ForgottenKeeps DEF OutOfIds, files, history, IInv, TypeOK

LEMMA StopPreserves == ASSUME IInv, Stop PROVE IInv'
<1>1. stops' \in 0..MaxStops
  BY BoundsAssumption DEF Stop, IInv, TypeOK
<1> QED
  BY <1>1, ForgottenKeeps DEF Stop, files, IInv, TypeOK

(* The administrator changes one account file in a way that keeps ids apart. *)
LEMMA AdminKeeps ==
    ASSUME IInv, AdminActs, db' \in [Kinds -> Accounts], IdsAreUnique',
           shadow' \in [Names -> Passwords \cup {None}],
           imperative' \in [Kinds -> SUBSET Names]
    PROVE  IInv'
<1>1. admin' \in 0..MaxAdmin
  BY BoundsAssumption DEF AdminActs, IInv, TypeOK
<1>2. TypeOK'
  BY <1>1 DEF IInv, TypeOK, AdminActs, working, Accounts
<1>3. pc # "idle" => \A k \in Kinds : RunInv(k)'
  BY DEF IInv, RunInv, AdminActs, working, Explicit
<1>4. AdminRaces \/ pc' \notin {"resolve", "map", "db"}
  BY DEF AdminActs
<1>5. /\ pc' = pc
      /\ pc = "resolve" => todo' \subseteq Declared(config, kind)'
      /\ pc = "db" => map'[kind'] = Remembered(kind)'
  BY DEF AdminActs, working, IInv, Declared, Remembered
<1> QED
  BY <1>2, <1>3, <1>4, <1>5 DEF IInv

LEMMA AddAccountPreserves ==
    ASSUME IInv, NEW k \in Kinds, NEW n \in Names, AddAccount(k, n)
    PROVE  IInv'
<1>1. PICK i \in (IF k = "group" THEN SysIds ELSE UserIds) \ IdsIn(db[k]) :
          db' = [db EXCEPT ![k] = [@ EXCEPT ![n] = i]]
  BY DEF AddAccount
<1>2. i \in Ids /\ i \in SysIds \cup UserIds /\ i # None
  BY <1>1, ConfigsAssumption
<1>3. /\ db[k] \in Accounts /\ db'[k] = [db[k] EXCEPT ![n] = i]
      /\ \A j \in Kinds \ {k} : db'[j] = db[j]
  BY <1>1 DEF IInv, TypeOK, Accounts
<1>4. \A m \in Names : db[k][m] # i /\ db'[k][m] = IF m = n THEN i ELSE db[k][m]
  BY <1>1, <1>2, <1>3 DEF IdsIn, Accounts
<1>5. db' \in [Kinds -> Accounts]
  BY <1>1, <1>2, <1>3 DEF IInv, TypeOK, Accounts
<1>6. IdsAreUnique'
  <2>1. \A m, q \in Names : db'[k][m] = db'[k][q] /\ db'[k][q] # None =>
            m = q \/ m \in doubled'[k] \/ q \in doubled'[k]
    BY <1>2, <1>4 DEF IInv, IdsAreUnique, AddAccount, DeleteAccount, AdminActs
  <2>2. \A j \in Kinds \ {k} : \A m, q \in Names :
          db'[j][m] = db'[j][q] /\ db'[j][q] # None =>
              m = q \/ m \in doubled'[j] \/ q \in doubled'[j]
    BY <1>3 DEF IInv, IdsAreUnique, AddAccount, DeleteAccount, AdminActs
  <2> QED
    BY <2>1, <2>2 DEF IdsAreUnique
<1>7. /\ AdminActs /\ shadow' \in [Names -> Passwords \cup {None}]
      /\ imperative' \in [Kinds -> SUBSET Names]
  BY DEF AddAccount, IInv, TypeOK, Passwords
<1> QED
  BY <1>5, <1>6, <1>7, AdminKeeps

LEMMA DeleteAccountPreserves ==
    ASSUME IInv, NEW k \in Kinds, NEW n \in Names, DeleteAccount(k, n)
    PROVE  IInv'
<1>1. db' = [db EXCEPT ![k] = [@ EXCEPT ![n] = None]]
  BY DEF DeleteAccount
<1>2. /\ db[k] \in Accounts /\ db'[k] = [db[k] EXCEPT ![n] = None]
      /\ \A j \in Kinds \ {k} : db'[j] = db[j]
  BY <1>1 DEF IInv, TypeOK, Accounts
<1>3. \A m \in Names : db'[k][m] = IF m = n THEN None ELSE db[k][m]
  BY <1>2 DEF Accounts
<1>4. db' \in [Kinds -> Accounts]
  BY <1>1, <1>2 DEF IInv, TypeOK, Accounts
<1>5. IdsAreUnique'
  <2>1. \A m, q \in Names : db'[k][m] = db'[k][q] /\ db'[k][q] # None =>
            m = q \/ m \in doubled'[k] \/ q \in doubled'[k]
    BY <1>3 DEF IInv, IdsAreUnique, AddAccount, DeleteAccount, AdminActs
  <2>2. \A j \in Kinds \ {k} : \A m, q \in Names :
          db'[j][m] = db'[j][q] /\ db'[j][q] # None =>
              m = q \/ m \in doubled'[j] \/ q \in doubled'[j]
    BY <1>2 DEF IInv, IdsAreUnique, AddAccount, DeleteAccount, AdminActs
  <2> QED
    BY <2>1, <2>2 DEF IdsAreUnique
<1>6. /\ AdminActs /\ shadow' \in [Names -> Passwords \cup {None}]
      /\ imperative' \in [Kinds -> SUBSET Names]
  BY DEF DeleteAccount, IInv, TypeOK, Passwords
<1> QED
  BY <1>4, <1>5, <1>6, AdminKeeps

LEMMA ChangePasswordPreserves ==
    ASSUME IInv, NEW n \in Names, ChangePassword(n)
    PROVE  IInv'
<1>1. /\ AdminActs /\ UNCHANGED <<db, imperative>>
      /\ shadow' \in [Names -> Passwords \cup {None}]
  BY DEF ChangePassword, IInv, TypeOK, Passwords
<1>2. db' \in [Kinds -> Accounts] /\ imperative' \in [Kinds -> SUBSET Names]
  BY <1>1 DEF IInv, TypeOK, Accounts
<1>3. IdsAreUnique'
  BY <1>1 DEF IInv, IdsAreUnique, AdminActs
<1> QED
  BY <1>1, <1>2, <1>3, AdminKeeps

-----------------------------------------------------------------------------
LEMMA NextPreserves ==
    ASSUME IInv, [Next]_vars
    PROVE  IInv'
<1>1. CASE UNCHANGED vars
  <2>1. TypeOK' /\ IdsAreUnique'
    BY <1>1 DEF IInv, TypeOK, IdsAreUnique, vars, files, working, history
  <2>2. pc # "idle" => \A k \in Kinds : RunInv(k)'
    BY <1>1 DEF IInv, RunInv, Explicit, vars, files, working, history
  <2> QED
    BY <1>1, <2>1, <2>2
    DEF IInv, Declared, Remembered, vars, files, working, history
<1>2. ASSUME NEW c \in Configs, Start(c) PROVE IInv'
  BY <1>2, StartPreserves
<1>3. CASE RunStep
  BY <1>3, ResolvePreserves, OutOfIdsPreserves, ResolveSubPreserves,
     WriteDeclaredPreserves, WriteMapPreserves, WriteDbPreserves,
     WriteShadowPreserves, SubsResolvedPreserves, WriteSubMapPreserves,
     WriteSubPreserves DEF RunStep
<1>4. CASE Stop
  BY <1>4, StopPreserves
<1>5. ASSUME NEW n \in Names, NEW k \in Kinds, AddAccount(k, n) \/ DeleteAccount(k, n)
      PROVE  IInv'
  BY <1>5, AddAccountPreserves, DeleteAccountPreserves
<1>6. ASSUME NEW n \in Names, ChangePassword(n) PROVE IInv'
  BY <1>6, ChangePasswordPreserves
<1> QED
  BY <1>1, <1>2, <1>3, <1>4, <1>5, <1>6 DEF Next

(* The inductive invariant holds in every state (update-users-groups.pl as a
   whole, with the administrator beside it). *)
THEOREM Invariance == Spec => []IInv
<1>1. Init => IInv
  BY InitEstablishes
<1>2. IInv /\ [Next]_vars => IInv'
  BY NextPreserves
<1> QED
  BY <1>1, <1>2, PTL DEF Spec

(* In any state, whatever the runs were given and wherever they stopped, users
   share a uid and groups a gid only where a configuration declared one of them
   with an id that was taken (allocId, allocGid, allocUid, l.56-93). *)
THEOREM IdsStayUnique == Spec => []IdsAreUnique
BY Invariance, PTL DEF IInv

(* What a new account is given was on disk before, and was reserved for nobody
   else, if the administrator waits for the run to end (l.197-198, l.285-286). *)
LEMMA NewAccounts ==
    ASSUME IInv, ~AdminRaces, [Next]_vars, pc # "idle", pc' # "idle",
           NEW k \in Kinds, NEW n \in Names, db'[k][n] # None, db[k][n] = None
    PROVE  /\ map[k][n] = db'[k][n]
           /\ \/ db'[k][n] \in {config.ids[k][n], read.map[k][n]}
              \/ \A m \in Names \ {n} : map[k][m] # db'[k][n]
<1>1. WriteDb
  <2>1. db' # db
    OBVIOUS
  <2> QED
    BY <2>1 DEF Next, RunStep, Start, Resolve, OutOfIds, Forgotten, WriteDeclared,
       WriteMap, WriteShadow, ResolveSub, SubsResolved, WriteSub, WriteSubMap,
       Stop, AddAccount, DeleteAccount, ChangePassword, AdminActs, files, vars
<1>2. /\ pc = "db" /\ kind \in Kinds /\ db' = [db EXCEPT ![kind] = Merged(kind)]
      /\ db[kind] = read.db[kind] /\ map[kind] = Remembered(kind) /\ RunInv(kind)
  BY <1>1 DEF WriteDb, IInv, TypeOK
<1>3. k = kind /\ db'[k] = Merged(k)
  BY <1>2 DEF IInv, TypeOK
<1>4. out[k][n] # None /\ db'[k][n] = out[k][n] /\ read.db[k][n] = None
  BY <1>2, <1>3 DEF Merged
<1>5. map[k][n] = db'[k][n]
  BY <1>2, <1>3, <1>4 DEF Remembered
<1>6. ASSUME out[k][n] # read.map[k][n], out[k][n] # config.ids[k][n],
             NEW m \in Names \ {n}
      PROVE  map[k][m] # out[k][n]
  <2>1. read.map[k][m] # out[k][n]
    BY <1>2, <1>3, <1>4, <1>6 DEF RunInv, Reserved
  <2>2. out[k][m] # out[k][n]
    BY <1>2, <1>3, <1>4, <1>6 DEF RunInv, Fresh
  <2> QED
    BY <1>2, <1>3, <2>1, <2>2 DEF Remembered
<1> QED
  BY <1>4, <1>5, <1>6

(* A run that is interrupted leaves no account whose id is not in gid-map or
   uid-map (l.197-198, l.285-286). *)
THEOREM NewIdsAreOnDisk ==
    ASSUME ~AdminRaces PROVE Spec => NewIdsAreRecorded
<1>1. IInv /\ [Next]_vars =>
        [pc # "idle" /\ pc' # "idle" =>
            \A k \in Kinds : \A n \in Present(db'[k]) \ Present(db[k]) :
                map[k][n] = db'[k][n]]_vars
  BY NewAccounts DEF Present
<1> QED
  BY <1>1, Invariance, PTL DEF Spec, NewIdsAreRecorded

(* Ids of deleted names are chosen for nobody else as long as gid-map and uid-map
   hold them; only a declaration can name them (l.107-109). *)
THEOREM DeletedIdsAreReserved ==
    ASSUME ~AdminRaces PROVE Spec => RememberedIdsStayReserved
<1>1. IInv /\ [Next]_vars =>
        [pc # "idle" /\ pc' # "idle" =>
            \A k \in Kinds : \A n \in Present(db'[k]) \ Present(db[k]) :
                \/ db'[k][n] \in {config.ids[k][n], read.map[k][n]}
                \/ \A m \in Names \ {n} : map[k][m] # db'[k][n]]_vars
  BY NewAccounts DEF Present
<1> QED
  BY <1>1, Invariance, PTL DEF Spec, RememberedIdsStayReserved

-----------------------------------------------------------------------------
(* What the files say together, as long as the administrator waits for runs to
   end: otherwise an account that is added while a run is under way is lost
   (l.282).  Ids play no part in this. *)

Early == {"resolve", "map", "db"}
Late  == {"shadow", "sub", "subuid", "subgid", "submap"}

Settled(k) == imperative[k] = Present(db[k]) \ decl[k]
Full(k)    == Present(db[k]) = Declared(config, k) \cup imperative[k]
Written(k) == pc \in Late \/ (kind = "user" /\ k = "group")

(* The accounts of kind k during a run, before and after their file is written. *)
AccountsInv(k) ==
    IF Written(k)
    THEN Full(k) /\ Settled(k) /\ decl[k] = Declared(config, k)
    ELSE /\ imperative[k] = Present(db[k]) \ read.decl[k]
         /\ decl[k] = IF kind = k /\ pc # "resolve" THEN Declared(config, k)
                      ELSE read.decl[k]

(* What a run knows of the files. *)
RunKnows ==
    /\ pc \in Early =>
          /\ db[kind] = read.db[kind] /\ db["user"] = read.db["user"]
          /\ Present(out[kind]) = IF pc = "resolve" THEN Declared(config, kind) \ todo
                                  ELSE Declared(config, kind)
          /\ kind = "group" => out["user"] = NoIds
    /\ pc = "resolve" => todo \subseteq Declared(config, kind)
    /\ pc \in Late => kind = "user" /\ out["user"] = db["user"]
    /\ pc = "shadow" => \A n \in Present(db["user"]) :
          \/ n \in Declared(config, "user")
          \/ config.mutable /\ read.db["user"][n] # None
    /\ pc \in Late \ {"shadow"} => Present(shadow) = Present(db["user"])
    /\ pc \in {"subgid", "submap"} => sub["subuid"] = subOut
    /\ pc = "submap" => sub["subgid"] = subOut

(* What moreover holds until a run is interrupted. *)
Uninterrupted ==
    /\ pc = "idle" => \A k \in Kinds : Settled(k)
    /\ pc # "idle" => \A k \in Kinds : AccountsInv(k)
    /\ completed => \A k \in Kinds : Full(k)
    /\ pc \in Early \cup {"idle"} => Present(shadow) = Present(db["user"])
    /\ pc = "shadow" => Present(shadow) = Present(read.db["user"])
    /\ \A n \in Initial \cap Names : shadow[n] # "locked"

FilesInv ==
    /\ completed => pc = "idle"
    /\ FilesAgree
    /\ RunKnows
    /\ ~interrupted => Uninterrupted

LEMMA FilesInit == Init => FilesInv
<1> SUFFICES ASSUME Init PROVE FilesInv
  OBVIOUS
<1>1. /\ pc = "idle" /\ ~completed /\ shadow = NoIds
      /\ \A k \in Kinds : db[k] = NoIds /\ decl[k] = {} /\ imperative[k] = {}
  BY DEF Init, Nothing
<1>2. Present(NoIds) = {}
  BY DEF Present, NoIds
<1>3. \A n \in Initial \cap Names : shadow[n] # "locked"
  <2>1. \A n \in Names : shadow[n] = None
    BY <1>1 DEF NoIds
  <2> QED
    BY <2>1, BoundsAssumption DEF Passwords
<1> QED
  BY <1>1, <1>2, <1>3
  DEF FilesInv, FilesAgree, RunKnows, Uninterrupted, Settled, Early, Late, Kinds

LEMMA FilesStart ==
    ASSUME TypeOK, FilesInv, NEW c \in Configs, Start(c)
    PROVE  FilesInv'
<1>1. /\ pc = "idle" /\ pc' = "resolve" /\ kind' = "group" /\ config' = c
      /\ UNCHANGED <<db, map, decl, shadow, sub, subMap, imperative, interrupted>>
      /\ completed' = FALSE /\ todo' = Declared(c, "group")
      /\ read'.db = db /\ read'.decl = decl
      /\ out' = [k \in Kinds |-> NoIds]
  BY DEF Start, files
<1>2. Present(NoIds) = {}
  BY DEF Present, NoIds
<1>3. RunKnows'
  BY <1>1, <1>2 DEF RunKnows, Early, Late, Kinds, Present, Declared
<1>4. ~interrupted => Uninterrupted'
  <2> SUFFICES ASSUME ~interrupted PROVE Uninterrupted'
    OBVIOUS
  <2>1. \A k \in Kinds : Settled(k)
    BY <1>1 DEF FilesInv, Uninterrupted
  <2>2. \A k \in Kinds : AccountsInv(k)'
    BY <1>1, <2>1 DEF AccountsInv, Settled, Written, Late, Present
  <2> QED
    BY <1>1, <2>2 DEF FilesInv, Uninterrupted, Present
<1> QED
  BY <1>1, <1>3, <1>4 DEF FilesInv, FilesAgree

LEMMA FilesResolve ==
    ASSUME TypeOK, FilesInv, NEW n \in Names, Resolve(n)
    PROVE  FilesInv'
<1>1. /\ pc = "resolve" /\ n \in todo /\ kind \in Kinds
      /\ UNCHANGED <<files, read, subUsed, subOut, history, pc, kind, config>>
      /\ todo' = todo \ {n}
  BY DEF Resolve, TypeOK
<1>2. PICK i \in Ids : out' = [out EXCEPT ![kind] = [@ EXCEPT ![n] = i]]
  BY DEF Resolve
<1>3. /\ out[kind] \in Accounts /\ out'[kind] = [out[kind] EXCEPT ![n] = i]
      /\ \A k \in Kinds \ {kind} : out'[k] = out[k]
  BY <1>1, <1>2 DEF TypeOK, Accounts
<1>4. i # None
  BY ConfigsAssumption
<1>5. Present(out'[kind]) = Present(out[kind]) \cup {n}
  BY <1>3, <1>4 DEF Present, Accounts
<1>6. RunKnows'
  <2>1. Present(out'[kind]) = Declared(config, kind) \ todo'
    BY <1>1, <1>5 DEF FilesInv, RunKnows, Early
  <2>2. kind = "group" => out'["user"] = NoIds
    BY <1>1, <1>3 DEF FilesInv, RunKnows, Early, Kinds
  <2> QED
    BY <1>1, <2>1, <2>2 DEF FilesInv, RunKnows, Early, Late, files, Declared
<1>7. ~interrupted => Uninterrupted'
  BY <1>1 DEF FilesInv, Uninterrupted, AccountsInv, Full, Settled, Written, Present,
     Declared, files, history
<1> QED
  BY <1>1, <1>6, <1>7 DEF FilesInv, FilesAgree, files, history, Present

LEMMA FilesWriteDeclared == ASSUME TypeOK, FilesInv, WriteDeclared PROVE FilesInv'
<1>1. /\ pc = "resolve" /\ pc' = "map" /\ todo = {} /\ kind \in Kinds
      /\ UNCHANGED <<db, map, shadow, sub, subMap, working, history, kind, config>>
      /\ decl'[kind] = Declared(config, kind)
      /\ \A k \in Kinds \ {kind} : decl'[k] = decl[k]
  BY DEF WriteDeclared, TypeOK
<1>2. RunKnows'
  BY <1>1 DEF FilesInv, RunKnows, Early, Late, working, Declared
<1>3. ~interrupted => Uninterrupted'
  <2> SUFFICES ASSUME ~interrupted PROVE Uninterrupted'
    OBVIOUS
  <2>1. \A k \in Kinds : AccountsInv(k)
    BY <1>1 DEF FilesInv, Uninterrupted
  <2>2. ASSUME NEW k \in Kinds PROVE AccountsInv(k)'
    <3>1. Written(k)' <=> Written(k)
      BY <1>1 DEF Written, Late
    <3>2. CASE Written(k)
      <4>1. k # kind
        BY <1>1, <3>2 DEF Written, Late
      <4> QED
        BY <1>1, <2>1, <3>1, <3>2, <4>1
        DEF AccountsInv, Full, Settled, Present, Declared, history
    <3>3. CASE ~Written(k)
      BY <1>1, <2>1, <3>1, <3>3 DEF AccountsInv, Present, Declared, working, history
    <3> QED
      BY <3>2, <3>3
  <2> QED
    BY <1>1, <2>2 DEF FilesInv, Uninterrupted, working, history, Present, Early
<1> QED
  BY <1>1, <1>2, <1>3 DEF FilesInv, FilesAgree, history

LEMMA FilesWriteMap == ASSUME TypeOK, FilesInv, WriteMap PROVE FilesInv'
<1>1. /\ pc = "map" /\ pc' = "db"
      /\ UNCHANGED <<db, decl, shadow, sub, subMap, working, history, kind, config>>
  BY DEF WriteMap
<1>2. RunKnows'
  BY <1>1 DEF FilesInv, RunKnows, Early, Late, working, Declared
<1>3. ~interrupted => Uninterrupted'
  <2> SUFFICES ASSUME ~interrupted PROVE Uninterrupted'
    OBVIOUS
  <2>1. \A k \in Kinds : AccountsInv(k)
    BY <1>1 DEF FilesInv, Uninterrupted
  <2>2. \A k \in Kinds : AccountsInv(k)'
    BY <1>1, <2>1 DEF AccountsInv, Full, Settled, Written, Late, Present, Declared,
       working, history
  <2> QED
    BY <1>1, <2>2 DEF FilesInv, Uninterrupted, working, history, Present, Early
<1> QED
  BY <1>1, <1>2, <1>3 DEF FilesInv, FilesAgree, history

(* Whom the account file names once it is merged. *)
LEMMA MergedAccounts ==
    ASSUME TypeOK, FilesInv, pc = "db"
    PROVE  Present(Merged(kind)) = Declared(config, kind) \cup
              (IF config.mutable THEN Present(read.db[kind]) \ read.decl[kind] ELSE {})
<1>1. Present(out[kind]) = Declared(config, kind)
  BY DEF FilesInv, RunKnows, Early
<1> QED
  BY <1>1 DEF Merged, Kept, Present

LEMMA FilesWriteDb == ASSUME TypeOK, FilesInv, WriteDb PROVE FilesInv'
<1> DEFINE others == IF config.mutable THEN Present(read.db[kind]) \ read.decl[kind]
                     ELSE {}
<1>1. /\ pc = "db" /\ kind \in Kinds
      /\ UNCHANGED <<map, decl, shadow, sub, subMap, read, completed, interrupted, config>>
      /\ db'[kind] = Merged(kind) /\ out'[kind] = Merged(kind)
      /\ \A k \in Kinds \ {kind} : /\ db'[k] = db[k] /\ out'[k] = out[k]
                                   /\ imperative'[k] = imperative[k]
      /\ imperative'[kind] = IF config.mutable
                             THEN imperative[kind] \ Declared(config, kind) ELSE {}
  BY DEF WriteDb, TypeOK
<1>2. \/ /\ kind = "group" /\ kind' = "user" /\ pc' = "resolve"
         /\ todo' = Declared(config, "user")
      \/ kind = "user" /\ kind' = "user" /\ pc' = "shadow"
  BY <1>1 DEF WriteDb, Kinds
<1>3. Present(Merged(kind)) = Declared(config, kind) \cup others
  BY <1>1, MergedAccounts
<1>4. Present(NoIds) = {}
  BY DEF Present, NoIds
<1>5. /\ db[kind] = read.db[kind] /\ db["user"] = read.db["user"]
      /\ kind = "group" => out["user"] = NoIds
  BY <1>1 DEF FilesInv, RunKnows, Early
<1>6. RunKnows'
  <2>1. CASE kind = "group"
    BY <1>1, <1>2, <1>4, <1>5, <2>1 DEF RunKnows, Early, Late, Kinds, Declared
  <2>2. CASE kind = "user"
    <3>1. \A n \in Present(db'["user"]) :
             \/ n \in Declared(config, "user")
             \/ config.mutable /\ read.db["user"][n] # None
      BY <1>1, <1>3, <2>2 DEF Present
    <3> QED
      BY <1>1, <1>2, <2>2, <3>1 DEF RunKnows, Early, Late, Declared, Present
  <2> QED
    BY <1>1, <2>1, <2>2 DEF Kinds
<1>7. ~interrupted => Uninterrupted'
  <2> SUFFICES ASSUME ~interrupted PROVE Uninterrupted'
    OBVIOUS
  <2>1. \A k \in Kinds : AccountsInv(k)
    BY <1>1 DEF FilesInv, Uninterrupted
  <2>2. /\ imperative[kind] = Present(read.db[kind]) \ read.decl[kind]
        /\ decl[kind] = Declared(config, kind)
    BY <1>1, <1>5, <2>1 DEF AccountsInv, Written, Late
  <2>3. /\ Present(db'[kind]) = Declared(config, kind) \cup imperative'[kind]
        /\ imperative'[kind] = Present(db'[kind]) \ decl[kind]
    BY <1>1, <1>3, <2>2
  <2>4. ASSUME NEW k \in Kinds, k = kind PROVE AccountsInv(k)'
    <3>1. Written(k)' /\ decl'[k] = Declared(config', k)
      BY <1>1, <1>2, <2>2, <2>4 DEF Written, Late, Declared
    <3>2. Full(k)' /\ Settled(k)'
      BY <1>1, <2>2, <2>3, <2>4 DEF Full, Settled, Present, Declared
    <3> QED
      BY <3>1, <3>2 DEF AccountsInv, Declared
  <2>5. ASSUME NEW k \in Kinds, k # kind PROVE AccountsInv(k)'
    <3>1. AccountsInv(k)
      BY <2>1
    <3> QED
      BY <1>1, <1>2, <2>5, <3>1
      DEF AccountsInv, Full, Settled, Written, Late, Declared, Kinds, Present
  <2>6. \A k \in Kinds : AccountsInv(k)'
    BY <2>4, <2>5
  <2>7. ~completed
    BY <1>1 DEF FilesInv
  <2>8. Present(shadow) = Present(db["user"]) /\ \A n \in Initial \cap Names : shadow[n] # "locked"
    BY <1>1 DEF FilesInv, Uninterrupted, Early
  <2>9. /\ kind = "group" => db'["user"] = db["user"]
        /\ pc' # "idle" /\ (pc' \in Early \cup {"idle"} => kind = "group")
    BY <1>1, <1>2 DEF Early, Kinds
  <2> QED
    BY <1>1, <1>5, <2>6, <2>7, <2>8, <2>9 DEF Uninterrupted, Present
<1>8. ~completed
  BY <1>1 DEF FilesInv
<1> QED
  BY <1>1, <1>6, <1>7, <1>8 DEF FilesInv, FilesAgree

LEMMA FilesWriteShadow == ASSUME TypeOK, FilesInv, WriteShadow PROVE FilesInv'
<1>1. /\ pc = "shadow" /\ pc' = "sub"
      /\ UNCHANGED <<db, map, decl, sub, subMap, read, out, history, kind, config>>
      /\ shadow' = [n \in Names |-> ShadowLine(n)]
  BY DEF WriteShadow
<1>2. kind = "user" /\ out["user"] = db["user"] /\ ~completed
  BY <1>1 DEF FilesInv, RunKnows, Late
<1>3. \A n \in Names : Hashed(n) # None
  BY BoundsAssumption DEF Hashed, Passwords
<1>4. Present(shadow') = Present(db["user"])
  BY <1>1, <1>2, <1>3 DEF Present, ShadowLine
<1>5. RunKnows'
  BY <1>1, <1>2, <1>4 DEF RunKnows, Early, Late, Present
<1>6. ~interrupted => Uninterrupted'
  <2> SUFFICES ASSUME ~interrupted PROVE Uninterrupted'
    OBVIOUS
  <2>1. /\ \A k \in Kinds : AccountsInv(k)
        /\ Present(shadow) = Present(read.db["user"])
        /\ \A n \in Initial \cap Names : shadow[n] # "locked"
    BY <1>1 DEF FilesInv, Uninterrupted
  <2>2. \A k \in Kinds : AccountsInv(k)'
    BY <1>1, <1>2, <2>1
    DEF AccountsInv, Full, Settled, Written, Late, Present, Declared, history
  <2>3. ASSUME NEW n \in Initial \cap Names PROVE shadow'[n] # "locked"
    <3>1. shadow'[n] = ShadowLine(n)
      BY <1>1
    <3>2. None # "locked"
      BY BoundsAssumption DEF Passwords
    <3>3. CASE db["user"][n] # None /\ ~(shadow[n] # None /\ config.mutable)
      <4>1. n \in Declared(config, "user") \/ (config.mutable /\ read.db["user"][n] # None)
        BY <1>1, <3>3 DEF FilesInv, RunKnows, Present
      <4>2. (shadow[n] # None) <=> (read.db["user"][n] # None)
        BY <2>1 DEF Present
      <4>3. Hashed(n) = "initial"
        BY <3>3, <4>1, <4>2 DEF Hashed
      <4> QED
        BY <1>2, <3>1, <3>3, <4>3 DEF ShadowLine
    <3>4. CASE ~(db["user"][n] # None /\ ~(shadow[n] # None /\ config.mutable))
      BY <1>2, <2>1, <3>1, <3>2, <3>4 DEF ShadowLine
    <3> QED
      BY <3>3, <3>4
  <2> QED
    BY <1>1, <1>2, <2>2, <2>3 DEF Uninterrupted, history, Early
<1> QED
  BY <1>1, <1>2, <1>5, <1>6 DEF FilesInv, FilesAgree, history

(* The steps that write subordinate ids, up to the last one. *)
LEMMA FilesSub ==
    ASSUME TypeOK, FilesInv,
           UNCHANGED <<db, decl, shadow, read, out, config, kind, imperative,
                       completed, interrupted>>,
           pc \in Late \ {"shadow"}, pc' \in Late \ {"shadow"},
           pc' \in {"subgid", "submap"} => sub'["subuid"] = subOut',
           pc' = "submap" => sub'["subgid"] = subOut'
    PROVE  FilesInv'
<1>1. RunKnows'
  BY DEF FilesInv, RunKnows, Early, Late, Present
<1>2. ~interrupted => Uninterrupted'
  BY DEF FilesInv, Uninterrupted, AccountsInv, Full, Settled, Written, Early, Late,
     Present, Declared
<1> QED
  BY <1>1, <1>2 DEF FilesInv, FilesAgree, Late

LEMMA FilesWriteSub ==
    ASSUME TypeOK, FilesInv, NEW f \in SubFiles, WriteSub(f)
    PROVE  FilesInv'
<1>1. /\ pc = f /\ sub'[f] = subOut /\ \A g \in SubFiles \ {f} : sub'[g] = sub[g]
      /\ pc' = IF f = "subuid" THEN "subgid" ELSE "submap"
      /\ UNCHANGED <<db, decl, shadow, working, history, kind, config>>
  BY DEF WriteSub, TypeOK
<1>2. pc = "subgid" => sub["subuid"] = subOut
  BY DEF FilesInv, RunKnows
<1>3. f \in {"subuid", "subgid"} /\ SubFiles = {"subuid", "subgid"}
  BY DEF SubFiles
<1>4. pc' \in {"subgid", "submap"} => sub'["subuid"] = subOut'
  BY <1>1, <1>2, <1>3 DEF working
<1>5. pc' = "submap" => sub'["subgid"] = subOut'
  BY <1>1, <1>3 DEF working
<1>6. pc \in Late \ {"shadow"} /\ pc' \in Late \ {"shadow"}
  BY <1>1, <1>3 DEF Late
<1> QED
  BY <1>1, <1>4, <1>5, <1>6, FilesSub DEF working, history

(* A run that is over leaves what is on disk. *)
LEMMA FilesForgotten ==
    ASSUME TypeOK, FilesInv, Forgotten, pc # "idle",
           UNCHANGED <<files, imperative, completed, config>>,
           \/ interrupted' = TRUE
           \/ interrupted' = interrupted /\ pc = "resolve"
    PROVE  FilesInv'
<1>1. ~completed /\ pc' = "idle"
  BY DEF FilesInv, Forgotten
<1>2. RunKnows'
  BY <1>1 DEF RunKnows, Early, Late
<1>3. ~interrupted' => Uninterrupted'
  <2> SUFFICES ASSUME ~interrupted' PROVE Uninterrupted'
    OBVIOUS
  <2>1. ~interrupted /\ pc = "resolve" /\ Uninterrupted
    BY DEF FilesInv
  <2>2. ASSUME NEW k \in Kinds PROVE Settled(k)'
    <3>1. AccountsInv(k)
      BY <2>1 DEF Uninterrupted
    <3> QED
      BY <2>1, <3>1 DEF AccountsInv, Settled, files, Present
  <2> QED
    BY <1>1, <2>1, <2>2 DEF Uninterrupted, files, Present, Early
<1> QED
  BY <1>1, <1>2, <1>3 DEF FilesInv, FilesAgree, files

LEMMA FilesWriteSubMap == ASSUME TypeOK, FilesInv, WriteSubMap PROVE FilesInv'
<1>1. /\ pc = "submap" /\ pc' = "idle"
      /\ UNCHANGED <<db, decl, shadow, sub, imperative, interrupted, config>>
      /\ subMap' = [n \in Names |-> IF subOut[n] # None THEN subOut[n] ELSE subMap[n]]
  BY DEF WriteSubMap, Forgotten
<1>2. /\ sub["subuid"] = subOut /\ sub["subgid"] = subOut
      /\ Present(shadow) = Present(db["user"])
  BY <1>1 DEF FilesInv, RunKnows, Late
<1>3. RunKnows'
  BY <1>1 DEF RunKnows, Early, Late
<1>4. FilesAgree'
  BY <1>1, <1>2 DEF FilesAgree, Present
<1>5. ~interrupted => Uninterrupted'
  <2> SUFFICES ASSUME ~interrupted PROVE Uninterrupted'
    OBVIOUS
  <2>1. \A k \in Kinds : Full(k) /\ Settled(k)
    BY <1>1 DEF FilesInv, Uninterrupted, AccountsInv, Written, Late
  <2>2. \A k \in Kinds : Full(k)' /\ Settled(k)'
    BY <1>1, <2>1 DEF Full, Settled, Present, Declared
  <2> QED
    BY <1>1, <1>2, <2>2 DEF FilesInv, Uninterrupted, Present
<1> QED
  BY <1>1, <1>3, <1>4, <1>5 DEF FilesInv

LEMMA FilesAdmin ==
    ASSUME TypeOK, FilesInv, ~AdminRaces, NEW k \in Kinds, NEW n \in Names,
           AddAccount(k, n) \/ DeleteAccount(k, n) \/ ChangePassword(n)
    PROVE  FilesInv'
<1>1. /\ pc = "idle" /\ pc' = "idle" /\ completed' = FALSE
      /\ UNCHANGED <<decl, interrupted>>
  BY DEF AddAccount, DeleteAccount, ChangePassword, AdminActs
<1>2. RunKnows'
  BY <1>1 DEF RunKnows, Early, Late
<1>3. ~interrupted => Uninterrupted'
  <2> SUFFICES ASSUME ~interrupted PROVE Uninterrupted'
    OBVIOUS
  <2>1. /\ \A j \in Kinds : Settled(j)
        /\ Present(shadow) = Present(db["user"])
        /\ \A m \in Initial \cap Names : shadow[m] # "locked"
    BY <1>1 DEF FilesInv, Uninterrupted
  <2>2. "own" # "locked" /\ None # "own" /\ None # "locked"
    BY BoundsAssumption DEF Passwords
  <2>3. CASE AddAccount(k, n)
    <3>1. PICK i \in (IF k = "group" THEN SysIds ELSE UserIds) \ IdsIn(db[k]) :
              db' = [db EXCEPT ![k] = [@ EXCEPT ![n] = i]]
      BY <2>3 DEF AddAccount
    <3>2. i # None
      BY <3>1, ConfigsAssumption
    <3>3. /\ db'[k] = [db[k] EXCEPT ![n] = i]
          /\ \A j \in Kinds \ {k} : db'[j] = db[j]
      BY <3>1 DEF TypeOK
    <3>4. Present(db'[k]) = Present(db[k]) \cup {n}
      BY <3>2, <3>3 DEF Present, TypeOK
    <3>5. /\ imperative'[k] = IF n \in decl[k] THEN imperative[k]
                              ELSE imperative[k] \cup {n}
          /\ \A j \in Kinds \ {k} : imperative'[j] = imperative[j]
      BY <2>3 DEF AddAccount, TypeOK
    <3>6. ASSUME NEW j \in Kinds PROVE Settled(j)'
      <4>1. CASE j = k
        BY <1>1, <2>1, <3>4, <3>5, <4>1 DEF Settled
      <4>2. CASE j # k
        <5>1. Settled(j)
          BY <2>1
        <5> QED
          BY <1>1, <3>3, <3>5, <4>2, <5>1 DEF Settled, Present
      <4> QED
        BY <4>1, <4>2
    <3>7. /\ Present(shadow') = Present(db'["user"])
          /\ \A m \in Initial \cap Names : shadow'[m] # "locked"
      <4>1. CASE k = "user"
        <5>1. shadow' = [shadow EXCEPT ![n] = "own"]
          BY <2>3, <4>1 DEF AddAccount
        <5>2. Present(shadow') = Present(shadow) \cup {n}
          BY <2>2, <5>1 DEF Present, TypeOK
        <5> QED
          BY <2>1, <2>2, <3>4, <4>1, <5>1, <5>2 DEF TypeOK
      <4>2. CASE k # "user"
        BY <2>1, <2>3, <3>3, <4>2 DEF AddAccount, Kinds
      <4> QED
        BY <4>1, <4>2
    <3> QED
      BY <1>1, <3>6, <3>7 DEF Uninterrupted
  <2>4. CASE DeleteAccount(k, n)
    <3>1. /\ db'[k] = [db[k] EXCEPT ![n] = None]
          /\ \A j \in Kinds \ {k} : db'[j] = db[j]
      BY <2>4 DEF DeleteAccount, TypeOK
    <3>2. Present(db'[k]) = Present(db[k]) \ {n}
      BY <3>1 DEF Present, TypeOK
    <3>3. /\ imperative'[k] = imperative[k] \ {n}
          /\ \A j \in Kinds \ {k} : imperative'[j] = imperative[j]
      BY <2>4 DEF DeleteAccount, TypeOK
    <3>4. ASSUME NEW j \in Kinds PROVE Settled(j)'
      <4>1. CASE j = k
        BY <1>1, <2>1, <3>2, <3>3, <4>1 DEF Settled
      <4>2. CASE j # k
        <5>1. Settled(j)
          BY <2>1
        <5> QED
          BY <1>1, <3>1, <3>3, <4>2, <5>1 DEF Settled, Present
      <4> QED
        BY <4>1, <4>2
    <3>5. /\ Present(shadow') = Present(db'["user"])
          /\ \A m \in Initial \cap Names : shadow'[m] # "locked"
      <4>1. CASE k = "user"
        <5>1. shadow' = [shadow EXCEPT ![n] = None]
          BY <2>4, <4>1 DEF DeleteAccount
        <5>2. Present(shadow') = Present(shadow) \ {n}
          BY <5>1 DEF Present, TypeOK
        <5> QED
          BY <2>1, <2>2, <3>2, <4>1, <5>1, <5>2 DEF TypeOK
      <4>2. CASE k # "user"
        BY <2>1, <2>4, <3>1, <4>2 DEF DeleteAccount, Kinds
      <4> QED
        BY <4>1, <4>2
    <3> QED
      BY <1>1, <3>4, <3>5 DEF Uninterrupted
  <2>5. CASE ChangePassword(n)
    <3>1. /\ shadow' = [shadow EXCEPT ![n] = "own"] /\ shadow[n] # None
          /\ UNCHANGED <<db, imperative>>
      BY <2>5, BoundsAssumption DEF ChangePassword
    <3>2. Present(shadow') = Present(shadow)
      BY <2>2, <3>1 DEF Present, TypeOK
    <3>3. \A m \in Initial \cap Names : shadow'[m] # "locked"
      BY <2>1, <2>2, <3>1 DEF TypeOK
    <3>4. \A j \in Kinds : Settled(j)'
      BY <1>1, <2>1, <3>1 DEF Settled, Present
    <3> QED
      BY <1>1, <2>1, <3>1, <3>2, <3>3, <3>4 DEF Uninterrupted
  <2> QED
    BY <2>3, <2>4, <2>5
<1> QED
  BY <1>1, <1>2, <1>3 DEF FilesInv, FilesAgree

LEMMA FilesNext == ASSUME TypeOK, FilesInv, ~AdminRaces, [Next]_vars PROVE FilesInv'
<1>1. CASE UNCHANGED vars
  <2>1. RunKnows'
    BY <1>1 DEF vars, files, working, history, FilesInv, RunKnows, Present, Declared
  <2>2. FilesAgree'
    BY <1>1 DEF vars, files, working, history, FilesInv, FilesAgree, Present
  <2>3. \A k \in Kinds : /\ AccountsInv(k)' <=> AccountsInv(k)
                         /\ Full(k)' <=> Full(k)
                         /\ Settled(k)' <=> Settled(k)
    BY <1>1 DEF vars, files, working, history, AccountsInv, Full, Settled, Written,
       Present, Declared
  <2>4. ~interrupted => Uninterrupted'
    BY <1>1, <2>3 DEF vars, files, working, history, FilesInv, Uninterrupted, Present
  <2> QED
    BY <1>1, <2>1, <2>2, <2>4 DEF vars, history, FilesInv
<1>2. ASSUME NEW c \in Configs, Start(c) PROVE FilesInv'
  BY <1>2, FilesStart
<1>3. ASSUME NEW n \in Names, Resolve(n) PROVE FilesInv'
  BY <1>3, FilesResolve
<1>4. ASSUME NEW n \in Names, OutOfIds(n) PROVE FilesInv'
  BY <1>4, FilesForgotten DEF OutOfIds, files, history
<1>5. ASSUME NEW n \in Names, ResolveSub(n) PROVE FilesInv'
  BY <1>5, FilesSub DEF ResolveSub, files, history, Late
<1>6. CASE WriteDeclared \/ WriteMap \/ WriteDb \/ WriteShadow \/ WriteSubMap
  BY <1>6, FilesWriteDeclared, FilesWriteMap, FilesWriteDb, FilesWriteShadow,
     FilesWriteSubMap
<1>7. CASE SubsResolved
  BY <1>7, FilesSub DEF SubsResolved, files, working, history, Late
<1>8. ASSUME NEW f \in SubFiles, WriteSub(f) PROVE FilesInv'
  BY <1>8, FilesWriteSub
<1>9. CASE Stop
  BY <1>9, FilesForgotten DEF Stop, files
<1>10. ASSUME NEW n \in Names, NEW k \in Kinds,
              AddAccount(k, n) \/ DeleteAccount(k, n) \/ ChangePassword(n)
       PROVE  FilesInv'
  BY <1>10, FilesAdmin
<1>11. Kinds # {}
  BY DEF Kinds
<1> QED
  BY <1>1, <1>2, <1>3, <1>4, <1>5, <1>6, <1>7, <1>8, <1>9, <1>10, <1>11
  DEF Next, RunStep

LEMMA FilesInvariance == ASSUME ~AdminRaces PROVE Spec => []FilesInv
BY TypesInit, TypesNext, FilesInit, FilesNext, PTL DEF Spec

(* Nobody's account is lost and no declared one outlives its declaration, as long
   as no run is interrupted and the administrator waits for runs to end
   (l.134-144, l.182-191, l.271-280). *)
THEOREM AccountsAreMerged ==
    ASSUME ~AdminRaces PROVE Spec => []AccountsAreTheWantedOnes
<1>1. FilesInv => AccountsAreTheWantedOnes
  BY DEF FilesInv, Uninterrupted, Full, AccountsAreTheWantedOnes
<1> QED
  BY <1>1, FilesInvariance, PTL

(* The files of a run that came to its end name the same users, wherever the runs
   before it stopped (l.290-316, l.377-379). *)
THEOREM FilesEndUpAgreeing == ASSUME ~AdminRaces PROVE Spec => []FilesAgree
BY FilesInvariance, PTL DEF FilesInv

(* No user that is declared with an initialPassword is created without it, as
   long as no run is interrupted (l.226-232, l.308-316). *)
THEOREM NewUsersCanLogIn ==
    ASSUME ~AdminRaces PROVE Spec => [](interrupted \/ InitialPasswordsArrive)
<1>1. FilesInv => interrupted \/ InitialPasswordsArrive
  BY DEF FilesInv, Uninterrupted, InitialPasswordsArrive, Declared
<1> QED
  BY <1>1, FilesInvariance, PTL
================================================================================
