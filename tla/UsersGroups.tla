----------------------------- MODULE UsersGroups -----------------------------
(***************************************************************************)
(* update-users-groups.pl: merging the users and groups a configuration    *)
(* declares into /etc/group, /etc/passwd, /etc/shadow and the subordinate  *)
(* id files.  A run reads the old state once, gives every declared name an *)
(* id, and replaces one file after the other, each atomically; it may stop *)
(* between any two of them.  Files under /var/lib/nixos remember which ids *)
(* were ever given out and which accounts came from a configuration.       *)
(*                                                                         *)
(* External: the administrator with useradd, userdel and passwd.           *)
(*                                                                         *)
(* Left out: members of groups, primary groups, homes, shells, expiry, and *)
(* dry-activate, under which no file is written (l.22).                    *)
(***************************************************************************)
EXTENDS Integers, FiniteSets

CONSTANTS
    Names,         \* names of users and groups
    Ids,           \* uids and gids
    SysIds,        \* 400..999: gids, and uids of system users
    UserIds,       \* 1000..29999: uids of normal users
    Foreign,       \* ids that getpwuid and getgrgid know from other sources
    Configs,       \* the configurations a run may be given
    SystemUsers,   \* names that are declared with isSystemUser
    Initial,       \* users that are declared with an initialPassword
    AutoSub,       \* users that are declared with autoSubUidGidRange
    SubIds,        \* numbers of subordinate ranges, 0, 1, 2, ...
    SubCount,      \* the size of a range, 65536
    None,          \* no id: not an account
    AnyId,         \* declared, without an id of its own
    AdminRaces,    \* may the administrator act while a run is under way?
    MaxRuns,       \* bound on runs
    MaxStops,      \* bound on runs that stop half way
    MaxAdmin       \* bound on what the administrator does

Kinds     == {"group", "user"}
SubFiles  == {"subuid", "subgid"}
Passwords == {"locked", "initial", "own"}
Starts    == {i * SubCount : i \in SubIds}

(* A configuration says whether accounts are mutable, and for each kind and
   name whether it is declared, and with which id. *)
Declared(c, k) == {n \in Names : c.ids[k][n] # None}
Explicit(c, k) == {c.ids[k][n] : n \in Names} \ {None, AnyId}

(* Configurations are evaluated with enforceIdUniqueness: no two names of one
   configuration are declared with the same id. *)
ASSUME ConfigsAssumption ==
    /\ None \notin Ids /\ AnyId \notin Ids /\ None # AnyId
    /\ Ids \subseteq Int /\ SysIds \subseteq Ids /\ UserIds \subseteq Ids
    /\ Configs \subseteq [mutable : BOOLEAN,
                          ids : [Kinds -> [Names -> Ids \cup {None, AnyId}]]]
    /\ \A c \in Configs, k \in Kinds : \A m, n \in Names :
           c.ids[k][m] = c.ids[k][n] /\ c.ids[k][n] \in Ids => m = n

(* There is no upper bound on subordinate ids (l.338). *)
ASSUME BoundsAssumption ==
    /\ SubIds \subseteq Nat /\ \A i \in SubIds : 0..i \subseteq SubIds
    /\ SubCount \in Nat \ {0} /\ None \notin Starts /\ None \notin Passwords
    /\ MaxRuns \in Nat /\ MaxStops \in Nat /\ MaxAdmin \in Nat
    /\ None \notin Configs

VARIABLES
    \* files
    db,          \* /etc/group and /etc/passwd: the id of every account
    map,         \* gid-map and uid-map
    decl,        \* declarative-groups and declarative-users
    shadow,      \* /etc/shadow: the password of every user
    sub,         \* /etc/subuid and /etc/subgid: where automatic ranges start
    subMap,      \* auto-subuid-map
    \* the run
    pc, kind,    \* the next step, and the kind of account it is about
    config,      \* the configuration of the last run
    read,        \* db, map and decl as the run found them
    used,        \* gidsUsed and uidsUsed
    out,         \* groupsOut and usersOut
    todo,        \* names not looked at yet
    subUsed, subOut,
    \* history
    imperative,  \* accounts that the administrator made, not a configuration
    doubled,     \* accounts that were declared with an id somebody had already
    completed,   \* the last run came to its end, and nothing changed since
    interrupted, \* some run stopped half way
    runs, stops, admin

files   == <<db, map, decl, shadow, sub, subMap>>
working == <<read, used, out, todo, subUsed, subOut>>
history == <<imperative, doubled, completed, interrupted, runs, stops, admin>>
vars    == <<files, working, history, pc, kind, config>>

NoIds == [n \in Names |-> None]
Present(f) == {n \in Names : f[n] # None}
IdsIn(f)   == {f[n] : n \in Names} \ {None}

Steps == {"idle", "resolve", "map", "db", "shadow", "sub", "subuid", "subgid",
          "submap"}

TypeOK ==
    /\ db \in [Kinds -> [Names -> Ids \cup {None}]]
    /\ map \in [Kinds -> [Names -> Ids \cup {None}]]
    /\ decl \in [Kinds -> SUBSET Names]
    /\ shadow \in [Names -> Passwords \cup {None}]
    /\ sub \in [SubFiles -> [Names -> Starts \cup {None}]]
    /\ subMap \in [Names -> Starts \cup {None}]
    /\ pc \in Steps /\ kind \in Kinds
    /\ config \in Configs \cup {None}
    /\ pc # "idle" => config \in Configs
    /\ read \in [db   : [Kinds -> [Names -> Ids \cup {None}]],
                 map  : [Kinds -> [Names -> Ids \cup {None}]],
                 decl : [Kinds -> SUBSET Names]]
    /\ used \in [Kinds -> SUBSET Ids]
    /\ out \in [Kinds -> [Names -> Ids \cup {None}]]
    /\ todo \subseteq Names
    /\ subUsed \subseteq SubIds \cup Starts
    /\ subOut \in [Names -> Starts \cup {None}]
    /\ imperative \in [Kinds -> SUBSET Names]
    /\ doubled \in [Kinds -> SUBSET Names]
    /\ completed \in BOOLEAN /\ interrupted \in BOOLEAN
    /\ runs \in 0..MaxRuns /\ stops \in 0..MaxStops /\ admin \in 0..MaxAdmin

Nothing == [db   |-> [k \in Kinds |-> NoIds],
            map  |-> [k \in Kinds |-> NoIds],
            decl |-> [k \in Kinds |-> {}]]

(* What a process that is gone leaves in memory. *)
Forgotten ==
    /\ pc' = "idle" /\ kind' = "group"
    /\ read' = Nothing
    /\ used' = [k \in Kinds |-> {}]
    /\ out' = [k \in Kinds |-> NoIds]
    /\ todo' = {} /\ subUsed' = {} /\ subOut' = NoIds

Init ==
    /\ db = Nothing.db /\ map = Nothing.map /\ decl = Nothing.decl
    /\ shadow = NoIds
    /\ sub = [f \in SubFiles |-> NoIds] /\ subMap = NoIds
    /\ pc = "idle" /\ kind = "group" /\ config = None
    /\ read = Nothing
    /\ used = [k \in Kinds |-> {}]
    /\ out = [k \in Kinds |-> NoIds]
    /\ todo = {} /\ subUsed = {} /\ subOut = NoIds
    /\ imperative = [k \in Kinds |-> {}] /\ doubled = [k \in Kinds |-> {}]
    /\ completed = FALSE /\ interrupted = FALSE
    /\ runs = 0 /\ stops = 0 /\ admin = 0

-----------------------------------------------------------------------------
(* A run. *)

(* The program starts: it reads the declarations and every old file, and
   counts as used the ids that are declared and those of accounts there are.
   The reads are one step: only a racing administrator could come between. *)
Start(c) ==
    /\ pc = "idle" /\ runs < MaxRuns
    /\ pc' = "resolve" /\ kind' = "group" /\ config' = c
    /\ read' = [db |-> db, map |-> map, decl |-> decl]
    /\ used' = [k \in Kinds |-> Explicit(c, k) \cup IdsIn(db[k])]
    /\ out' = [k \in Kinds |-> NoIds]
    /\ todo' = Declared(c, "group")
    /\ runs' = runs + 1 /\ completed' = FALSE
    /\ UNCHANGED <<files, subUsed, subOut, imperative, doubled, interrupted, stops,
                   admin>>

Descending(k, n) == k = "group" \/ n \in SystemUsers
RangeOf(k, n)      == IF Descending(k, n) THEN SysIds ELSE UserIds

(* Ids that were given out before, to anybody, and ids in use elsewhere. *)
PrevUsed(k) == IdsIn(read.map[k])
(* Mutant of Free: ids of deleted names are free. *)
FreeDeleted(k, n) == {i \in RangeOf(k, n) :
                         i \notin used[k] \cup Foreign \cup IdsIn(db[k])}

Free(k, n)  == {i \in RangeOf(k, n) : /\ i \notin used[k]
                                    /\ i \notin PrevUsed(k)
                                    /\ i \notin Foreign \cup IdsIn(db[k])}

(* Mutant of Revivable: an id is revived although somebody has it. *)
RevivableAlways(k, n) ==
    LET i == read.map[k][n]
    IN  i # None /\ (k = "user" => i \in RangeOf(k, n))

(* The name had this id before it was deleted, and nobody has it now. *)
Revivable(k, n) ==
    LET i == read.map[k][n]
    IN  /\ i # None /\ i \notin used[k]
        /\ k = "user" => i \in RangeOf(k, n)

(* The scan for a free id marks every id it comes across as used. *)
Scanned(k, n, i) ==
    {j \in RangeOf(k, n) : IF Descending(k, n) THEN j >= i ELSE j <= i}

Allocates(k, n, i) ==
    /\ i \in Free(k, n)
    /\ Scanned(k, n, i) \cap Free(k, n) = {i}

(* The id that a declared name gets, and the ids that are used from then on:
   an account keeps its id whatever is declared. *)
Resolves(k, n, i, u) ==
    LET existing == read.db[k][n]
        declared == config.ids[k][n]
    IN  \/ existing # None /\ i = existing /\ u = used[k]
        \/ existing = None /\ declared # AnyId /\ i = declared /\ u = used[k]
        \/ existing = None /\ declared = AnyId /\ Revivable(k, n)
           /\ i = read.map[k][n] /\ u = used[k] \cup {i}
        \/ existing = None /\ declared = AnyId /\ ~Revivable(k, n)
           /\ Allocates(k, n, i) /\ u = used[k] \cup Scanned(k, n, i)

Resolve(n) ==
    /\ pc = "resolve" /\ n \in todo
    /\ \E i \in Ids : \E u \in {used[kind], used[kind] \cup {i},
                                used[kind] \cup Scanned(kind, n, i)} :
           /\ Resolves(kind, n, i, u)
           /\ out' = [out EXCEPT ![kind] = [@ EXCEPT ![n] = i]]
           /\ used' = [used EXCEPT ![kind] = u]
    /\ todo' = todo \ {n}
    /\ UNCHANGED <<files, read, subUsed, subOut, history, pc, kind, config>>

(* No id is left: the run dies, with the files it wrote so far in place. *)
OutOfIds(n) ==
    /\ pc = "resolve" /\ n \in todo
    /\ read.db[kind][n] = None /\ config.ids[kind][n] = AnyId
    /\ ~Revivable(kind, n) /\ Free(kind, n) = {}
    /\ Forgotten
    /\ UNCHANGED <<files, history, config>>

(* declarative-groups, declarative-users. *)
WriteDeclared ==
    /\ pc = "resolve" /\ todo = {}
    /\ decl' = [decl EXCEPT ![kind] = Declared(config, kind)]
    /\ pc' = "map"
    /\ UNCHANGED <<db, map, shadow, sub, subMap, working, history, kind, config>>

(* Mutant of Remembered: only ids that the program chose are remembered. *)
RememberedAuto(k) == [n \in Names |-> IF config.ids[k][n] = AnyId THEN out[k][n]
                                      ELSE read.map[k][n]]

Remembered(k) == [n \in Names |-> IF out[k][n] # None THEN out[k][n]
                                  ELSE read.map[k][n]]

(* gid-map, uid-map. *)
WriteMap ==
    /\ pc = "map"
    /\ map' = [map EXCEPT ![kind] = Remembered(kind)]
    /\ pc' = "db"
    /\ UNCHANGED <<db, decl, shadow, sub, subMap, working, history, kind, config>>

(* Mutant of Kept: accounts that an earlier configuration declared stay, too. *)
KeptAll(k, n) == config.mutable

(* Accounts that are not declared stay if accounts are mutable and no earlier
   configuration declared them. *)
Kept(k, n) == config.mutable /\ n \notin read.decl[k]
Merged(k)  == [n \in Names |-> IF out[k][n] # None THEN out[k][n]
                               ELSE IF Kept(k, n) THEN read.db[k][n] ELSE None]

(* New accounts whose declared id an account had when the run began: nothing
   compares an id that is declared with those there are (l.169, l.224). *)
Doubling(k) == {n \in Names : /\ read.db[k][n] = None
                              /\ config.ids[k][n] \in IdsIn(read.db[k])}

(* /etc/group, /etc/passwd; after the groups come the users. *)
WriteDb ==
    /\ pc = "db"
    /\ db' = [db EXCEPT ![kind] = Merged(kind)]
    /\ out' = [out EXCEPT ![kind] = Merged(kind)]
    /\ imperative' = [imperative EXCEPT ![kind] =
                         IF config.mutable THEN @ \ Declared(config, kind) ELSE {}]
    /\ doubled' = [doubled EXCEPT ![kind] = @ \cup Doubling(kind)]
    /\ IF kind = "group"
       THEN pc' = "resolve" /\ kind' = "user" /\ todo' = Declared(config, "user")
       ELSE pc' = "shadow" /\ UNCHANGED <<kind, todo>>
    /\ UNCHANGED <<map, decl, shadow, sub, subMap, read, used, subUsed, subOut,
                   completed, interrupted, runs, stops, admin, config>>

(* Mutant of Hashed: the user counts as existing once it has been merged. *)
HashedLate(n) ==
    IF /\ n \in Initial \cap Declared(config, "user")
       /\ config.mutable => out["user"][n] = None
    THEN "initial" ELSE "locked"

(* The password a configuration sets: an initialPassword counts for users that
   are new, and for all of them if accounts are not mutable. *)
Hashed(n) ==
    IF /\ n \in Initial \cap Declared(config, "user")
       /\ config.mutable => read.db["user"][n] = None
    THEN "initial" ELSE "locked"

(* Mutant of ShadowLine: lines of deleted users stay. *)
ShadowLineKept(n) == IF shadow[n] # None /\ config.mutable THEN shadow[n]
                     ELSE IF out["user"][n] = None THEN None
                     ELSE Hashed(n)

ShadowLine(n) == IF out["user"][n] = None THEN None
                 ELSE IF shadow[n] # None /\ config.mutable THEN shadow[n]
                 ELSE Hashed(n)

WriteShadow ==
    /\ pc = "shadow"
    /\ shadow' = [n \in Names |-> ShadowLine(n)]
    /\ pc' = "sub"
    /\ todo' = AutoSub \cap Declared(config, "user")
    /\ UNCHANGED <<db, map, decl, sub, subMap, read, used, out, subUsed, subOut,
                   history, kind, config>>

-----------------------------------------------------------------------------
(* Subordinate ids. *)

(* The user's range of the last time, if nobody took it. *)
SubRevivable(n) == subMap[n] # None /\ subMap[n] \notin subUsed
SubFree == {i \in SubIds : i \notin subUsed /\ i \notin IdsIn(subMap)}

(* Mutant of SubStart: the offset is not scaled. *)
SubStartUnscaled(i) == i

SubStart(i) == i * SubCount

(* A new range is looked for by its number, among the numbers that were scanned
   and the starts of ranges that were revived or remembered. *)
ResolveSub(n) ==
    /\ pc = "sub" /\ n \in todo
    /\ IF SubRevivable(n)
       THEN /\ subUsed' = subUsed \cup {subMap[n]}
            /\ subOut' = [subOut EXCEPT ![n] = subMap[n]]
       ELSE \E i \in SubFree :
              /\ \A j \in SubFree : i <= j
              /\ subUsed' = subUsed \cup 0..i
              /\ subOut' = [subOut EXCEPT ![n] = SubStart(i)]
    /\ todo' = todo \ {n}
    /\ UNCHANGED <<files, read, used, out, history, pc, kind, config>>

SubsResolved ==
    /\ pc = "sub" /\ todo = {}
    /\ pc' = "subuid"
    /\ UNCHANGED <<files, working, history, kind, config>>

(* /etc/subuid, /etc/subgid. *)
WriteSub(f) ==
    /\ pc = f
    /\ sub' = [sub EXCEPT ![f] = subOut]
    /\ pc' = IF f = "subuid" THEN "subgid" ELSE "submap"
    /\ UNCHANGED <<db, map, decl, shadow, subMap, working, history, kind, config>>

(* auto-subuid-map, the last file. *)
WriteSubMap ==
    /\ pc = "submap"
    /\ subMap' = [n \in Names |-> IF subOut[n] # None THEN subOut[n] ELSE subMap[n]]
    /\ completed' = TRUE
    /\ Forgotten
    /\ UNCHANGED <<db, map, decl, shadow, sub, imperative, doubled, interrupted,
                   runs, stops, admin, config>>

-----------------------------------------------------------------------------
(* What happens to it. *)

(* The run is killed, or a file cannot be written. *)
Stop ==
    /\ pc # "idle" /\ stops < MaxStops
    /\ stops' = stops + 1 /\ interrupted' = TRUE
    /\ Forgotten
    /\ UNCHANGED <<files, imperative, doubled, completed, runs, admin, config>>

AdminActs ==
    /\ AdminRaces \/ pc = "idle"
    /\ admin < MaxAdmin
    /\ admin' = admin + 1 /\ completed' = FALSE
    /\ UNCHANGED <<map, decl, sub, subMap, working, doubled, interrupted, runs,
                   stops, pc, kind, config>>

(* useradd (with a password) and groupadd take an id that no account has. *)
AddAccount(k, n) ==
    /\ AdminActs
    /\ db[k][n] = None
    /\ \E i \in (IF k = "group" THEN SysIds ELSE UserIds) \ IdsIn(db[k]) :
           db' = [db EXCEPT ![k] = [@ EXCEPT ![n] = i]]
    /\ shadow' = IF k = "user" THEN [shadow EXCEPT ![n] = "own"] ELSE shadow
    /\ imperative' = IF n \in decl[k] THEN imperative
                     ELSE [imperative EXCEPT ![k] = @ \cup {n}]

(* userdel and groupdel. *)
DeleteAccount(k, n) ==
    /\ AdminActs
    /\ db[k][n] # None
    /\ db' = [db EXCEPT ![k] = [@ EXCEPT ![n] = None]]
    /\ shadow' = IF k = "user" THEN [shadow EXCEPT ![n] = None] ELSE shadow
    /\ imperative' = [imperative EXCEPT ![k] = @ \ {n}]

(* passwd. *)
ChangePassword(n) ==
    /\ AdminActs
    /\ shadow[n] \in Passwords \ {"own"}
    /\ shadow' = [shadow EXCEPT ![n] = "own"]
    /\ UNCHANGED <<db, imperative>>

RunStep ==
    \/ \E n \in Names : Resolve(n) \/ OutOfIds(n) \/ ResolveSub(n)
    \/ WriteDeclared \/ WriteMap \/ WriteDb \/ WriteShadow
    \/ SubsResolved \/ WriteSubMap
    \/ \E f \in SubFiles : WriteSub(f)

Next ==
    \/ \E c \in Configs : Start(c)
    \/ RunStep
    \/ Stop
    \/ \E n \in Names : \/ \E k \in Kinds : AddAccount(k, n) \/ DeleteAccount(k, n)
                        \/ ChangePassword(n)

(* A run that was started goes on until it ends or is stopped. *)
Spec == Init /\ [][Next]_vars /\ WF_vars(RunStep)

-----------------------------------------------------------------------------
(* Properties. *)

(* Users share a uid, and groups a gid, only where a configuration declared one
   of them with an id that the other had already (l.169, l.224): an id that the
   program or useradd chooses is nobody's, whatever happened to earlier runs and
   whatever ids are declared (l.56-68, l.72-93, l.157-160). *)
IdsAreUnique ==
    \A k \in Kinds : \A m, n \in Names :
        db[k][m] = db[k][n] /\ db[k][n] # None =>
            m = n \/ m \in doubled[k] \/ n \in doubled[k]

(* No two users share a uid and no two groups a gid (users-groups.nix l.849 has
   this checked within a configuration). *)
NoIdIsShared ==
    \A k \in Kinds : \A m, n \in Names :
        db[k][m] = db[k][n] /\ db[k][n] # None => m = n

(* After a run that came to its end, with no interrupted run before it, the
   accounts are the declared ones and, if accounts are mutable, those of the
   administrator: nobody's account is lost, and none that an earlier
   configuration declared survives it (l.134-144, l.182-191, l.271-280). *)
AccountsAreTheWantedOnes ==
    completed /\ ~interrupted =>
        \A k \in Kinds : Present(db[k]) = Declared(config, k) \cup imperative[k]

(* The same of runs some of which were interrupted, and of accounts that
   configurations declared: "These must be removed if they are no longer in the
   current spec" (l.134-136). *)
DeclaredAccountsAreRemoved ==
    completed => \A k \in Kinds :
                     Present(db[k]) \subseteq Declared(config, k) \cup imperative[k]

(* A run that came to its end leaves a line in /etc/shadow for every user and
   for nobody else, whichever earlier run stopped between the two files, and the
   subordinate ids in all three files agree (l.290-316, l.377-379). *)
FilesAgree ==
    completed =>
        /\ Present(shadow) = Present(db["user"])
        /\ sub["subuid"] = sub["subgid"]
        /\ \A n \in Names : sub["subuid"][n] \in {None, subMap[n]}

(* A user with an initialPassword can log in with it once a run has come to its
   end, unless the user has a password of its own (l.226-232, l.308-316). *)
InitialPasswordsArrive ==
    completed =>
        \A n \in Initial \cap Declared(config, "user") : shadow[n] # "locked"

(* An account that a run adds has an id that is already on disk in gid-map or
   uid-map as the account's: an interrupted run is continued with the ids it
   gave out (l.197-198, l.285-286). *)
NewIdsAreRecorded ==
    [][pc # "idle" /\ pc' # "idle" =>
          \A k \in Kinds : \A n \in Present(db'[k]) \ Present(db[k]) :
              map[k][n] = db'[k][n]]_vars

(* An account that a run adds has the id that its configuration declares, the one
   that was remembered for it, or one that gid-map and uid-map remember for no
   other name, deleted or not (l.107-109). *)
RememberedIdsStayReserved ==
    [][pc # "idle" /\ pc' # "idle" =>
          \A k \in Kinds : \A n \in Present(db'[k]) \ Present(db[k]) :
              \/ db'[k][n] \in {config.ids[k][n], read.map[k][n]}
              \/ \A m \in Names \ {n} : map[k][m] # db'[k][n]]_vars

(* "Keep track of deleted uids and gids" (l.9): an id that gid-map or uid-map
   holds stays in it. *)
DeletedIdsAreTracked ==
    [][\A k \in Kinds : IdsIn(map[k]) \subseteq IdsIn(map'[k])]_map

(* Ranges of subordinate ids are for one user each (users-groups.nix
   l.249-254). *)
RangesAreDisjoint ==
    \A f \in SubFiles : \A m, n \in Names :
        sub[f][m] = sub[f][n] /\ sub[f][n] # None => m = n
=============================================================================
