------------------------- MODULE TaskserverAccounts -------------------------
(***************************************************************************)
(* helper-tool.py (nixos-taskserver): the organisations, users and groups  *)
(* of a Taskserver and the certificates of its users.  The administrator   *)
(* calls it for one organisation, user or group, and systemd calls         *)
(* process-json before each start of the server to bring them in line      *)
(* with the configuration of the system.  What the administrator made is   *)
(* marked "imperative" with an empty file, so that process-json leaves it  *)
(* alone.                                                                  *)
(*                                                                         *)
(* An invocation is a list of tasks; it may be killed between any two, and *)
(* within those that remove the files of a directory one by one.  The      *)
(* tool's lazily read dictionaries follow the directories, every change    *)
(* being made to both, so that one invocation after the other needs no     *)
(* copy of them.                                                           *)
(*                                                                         *)
(* External: taskd, which makes and removes directories below orgs, and    *)
(* certtool; either may fail, or do what it is asked to as a whole.        *)
(***************************************************************************)
EXTENDS Naturals, FiniteSets, Sequences, SequencesExt

CONSTANTS
    Orgs, Users, Groups,   \* names; a user and a group may share one
    Configs,               \* declarations: [orgs, users, groups]
    AutoConfig,            \* IS_AUTO_CONFIG: does the tool issue certificates?
    MaxRuns,               \* bound on invocations
    MaxStops,              \* bound on kills and failing commands
    MaxUsers               \* bound on users that are ever added

ASSUME Parameters ==
    /\ AutoConfig \in BOOLEAN
    /\ MaxRuns \in Nat /\ MaxStops \in Nat /\ MaxUsers \in Nat
    /\ Configs \subseteq [orgs : SUBSET Orgs, users : [Orgs -> SUBSET Users],
                          groups : [Orgs -> SUBSET Groups]]

ASSUME FiniteNames == IsFiniteSet(Orgs) /\ IsFiniteSet(Users) /\ IsFiniteSet(Groups)

Ids      == 1 .. MaxUsers   \* uuids of accounts; a certificate is known by
Accounts == [org : Orgs, name : Users, id : Ids]   \* the account it is for
Members  == Orgs \X Users
Paths    == {<<o>> : o \in Orgs} \cup (Orgs \X Ids) \cup (Orgs \X Groups)
Jobs     == {"cli", "json"}

VARIABLES
    disk,     \* what is stored, see Empty
    job,      \* who called the running or the last invocation
    conf,     \* the declaration it was given (json)
    todo,     \* what it has yet to do
    status,   \* idle, running, done or failed
    added,    \* number of users ever added
    byHand,   \* history: organisations and accounts added by the administrator
    clean,    \* history: no invocation was killed or raised an exception
    runs, stops       \* used up so far

vars == <<disk, job, conf, todo, status, added, byHand, clean, runs, stops>>
used == <<runs, stops>>

Empty == [orgs     |-> {},   \* orgs/<org>
          accounts |-> {},   \* orgs/<org>/users/<id> with a config
          husks    |-> {},   \* <<org, id>>: such a directory without one
          groups   |-> {},   \* <<org, group>>: orgs/<org>/groups/<group>
          marks    |-> {},   \* the paths below orgs with a .imperative file
          keydirs  |-> {},   \* <<org, user>>: keys/<org>/<user>
          private  |-> {},   \* those with a private.key
          cert     |-> [m \in Members |-> 0],   \* public.cert, 0 for none
          crl      |-> {}]   \* server.crl: certificates that were revoked

Init ==
    /\ disk = Empty
    /\ job = "json" /\ todo = <<>> /\ status = "idle"
    /\ conf \in Configs
    /\ added = 0 /\ byHand = {} /\ clean = TRUE
    /\ runs = 0 /\ stops = 0

-----------------------------------------------------------------------------
(* Tasks, and what they read.                                              *)

Task(do, o, n, i)    == [do |-> do, org |-> o, name |-> n, id |-> i]
ForOrg(do, o)        == Task(do, o, o, 0)
For(do, o, n)        == Task(do, o, n, 0)
EachOrg(do, s)       == [k \in DOMAIN s |-> ForOrg(do, s[k])]
EachName(do, o, s)   == [k \in DOMAIN s |-> For(do, o, s[k])]

UserNames(o)  == {a.name : a \in {b \in disk.accounts : b.org = o}}

\* fetch_username opens the config of each user: no user of the organisation
\* can be listed while one of them has none.
Unreadable(o) == \E h \in disk.husks : h[1] = o

GroupNames(o) == {g \in Groups : <<o, g>> \in disk.groups}

\* Mutant of IsImperative: the mark of an organisation counts for no user.
IsImperativeOrg(path) == Len(path) > 1 /\ path \in disk.marks

\* Every directory on the path may hold the mark.
IsImperative(path) ==
    \E n \in 1 .. Len(path) : SubSeq(path, 1, n) \in disk.marks

\* ignore_imperative is set for process-json only.
LeftAlone(path) == job = "json" /\ IsImperative(path)

Doing(do) == status = "running" /\ todo # <<>> /\ Head(todo).do = do

Then(tasks) == /\ todo' = tasks \o Tail(todo)
               /\ UNCHANGED <<job, conf, status, clean, runs, stops>>

Skip == Then(<<>>) /\ UNCHANGED <<disk, added, byHand>>

Ends(result) == /\ todo' = <<>> /\ status' = result
                /\ UNCHANGED <<job, conf, added, runs>>

\* sys.exit with a message: nothing was done.
Refuse == Ends("failed") /\ UNCHANGED <<disk, byHand, clean, stops>>

\* Mutant of Failed: check_call has become call.
FailedUnseen == /\ todo' = Tail(todo)
                /\ UNCHANGED <<job, conf, status, added, byHand, clean, runs>>

\* An exception that nobody handles.
Failed == Ends("failed") /\ clean' = FALSE /\ UNCHANGED byHand

\* Interrupted between two system calls.
Killed == Ends("failed") /\ clean' = FALSE
Raise  == Failed /\ UNCHANGED <<disk, stops>>

-----------------------------------------------------------------------------
(* Invocations.                                                            *)

Begin(who, tasks) ==
    /\ status # "running"
    /\ runs < MaxRuns
    /\ job' = who /\ todo' = tasks /\ status' = "running" /\ runs' = runs + 1
    /\ UNCHANGED <<disk, added, byHand, clean, stops>>

ProcessJson ==
    \E c \in Configs : /\ Begin("json", <<Task("orgs", 0, 0, 0)>>)
                       /\ conf' = c

OrgCommand ==
    \E o \in Orgs, cmd \in {"add_org", "delete_org"} :
        Begin("cli", <<ForOrg(cmd, o)>>) /\ UNCHANGED conf

\* An unknown organisation is refused by OrganisationType.
UserCommand ==
    \E o \in disk.orgs, u \in Users, cmd \in {"add_user", "delete_user"} :
        Begin("cli", <<For(cmd, o, u)>>) /\ UNCHANGED conf

\* group remove ends by calling the module click, which is no function.
GroupCommand ==
    \E o \in disk.orgs, g \in Groups :
        /\ \/ Begin("cli", <<For("add_group", o, g)>>)
           \/ Begin("cli", <<For("delete_group", o, g), For("raise", o, g)>>)
        /\ UNCHANGED conf

-----------------------------------------------------------------------------
(* process-json: differences between what is declared and what there is,   *)
(* removals first, in the order of Python's sets.                          *)

\* Mutant of Surplus: the last element is forgotten.
SurplusLess(old, new) ==
    IF old \ new = {} THEN {} ELSE (old \ new) \ {CHOOSE e \in old \ new : TRUE}

Surplus(old, new) == old \ new
Missing(old, new) == new \ old

DiffOrgs ==
    /\ Doing("orgs")
    /\ \E del \in SetToSeqs(Surplus(disk.orgs, conf.orgs)),
          add \in SetToSeqs(Missing(disk.orgs, conf.orgs)) :
            Then(EachOrg("delete_org", del) \o EachOrg("add_org", add)
                 \o <<Task("members", 0, 0, 0)>>)
    /\ UNCHANGED <<disk, added, byHand>>

\* The organisations of the administrator are passed over.
DiffMembers ==
    /\ Doing("members")
    /\ \E s \in SetToSeqs({o \in disk.orgs : ~IsImperative(<<o>>)}) :
            Then([k \in 1 .. 2 * Len(s) |->
                    ForOrg(IF k % 2 = 1 THEN "users" ELSE "groups", s[(k + 1) \div 2])])
    /\ UNCHANGED <<disk, added, byHand>>

DiffUsers ==
    /\ Doing("users")
    /\ LET o == Head(todo).org IN
       IF Unreadable(o) THEN Raise
       ELSE /\ \E del \in SetToSeqs(Surplus(UserNames(o), conf.users[o])),
                  add \in SetToSeqs(Missing(UserNames(o), conf.users[o])) :
                   Then(EachName("delete_user", o, del) \o EachName("add_user", o, add))
            /\ UNCHANGED <<disk, added, byHand>>

DiffGroups ==
    /\ Doing("groups")
    /\ LET o == Head(todo).org IN
       \E del \in SetToSeqs(Surplus(GroupNames(o), conf.groups[o])),
          add \in SetToSeqs(Missing(GroupNames(o), conf.groups[o])) :
            Then(EachName("delete_group", o, del) \o EachName("add_group", o, add))
    /\ UNCHANGED <<disk, added, byHand>>

-----------------------------------------------------------------------------
(* Organisations and groups.                                               *)

\* The administrator's command marks what it added in a step of its own.
ThenMark(path) ==
    IF job = "cli" THEN <<For("mark", path[1], path)>> ELSE <<>>

AddOrg ==
    /\ Doing("add_org")
    /\ LET o == Head(todo).org IN
       IF o \in disk.orgs THEN Refuse
       ELSE /\ Then(ThenMark(<<o>>))
            /\ disk' = [disk EXCEPT !.orgs = @ \cup {o}]
            /\ byHand' = IF job = "cli" THEN byHand \cup {<<o>>} ELSE byHand
            /\ UNCHANGED added

\* Users and groups first, whatever becomes of them, then the directory.
DelOrg ==
    /\ Doing("delete_org")
    /\ LET o == Head(todo).org IN
       IF o \notin disk.orgs \/ LeftAlone(<<o>>) THEN Skip
       ELSE IF Unreadable(o) THEN Raise
       ELSE /\ \E us \in SetToSeqs(UserNames(o)), gs \in SetToSeqs(GroupNames(o)) :
                   Then(EachName("delete_user", o, us)
                        \o EachName("delete_group", o, gs)
                        \o <<ForOrg("remove_org", o)>>)
            /\ UNCHANGED <<disk, added, byHand>>

\* taskd removes the directory with everything in it.
RemoveOrg ==
    /\ Doing("remove_org")
    /\ LET o == Head(todo).org IN
       /\ disk' = [disk EXCEPT !.orgs = @ \ {o},
                               !.accounts = {a \in @ : a.org # o},
                               !.husks = {h \in @ : h[1] # o},
                               !.groups = {g \in @ : g[1] # o},
                               !.marks = {m \in @ : m[1] # o}]
       /\ byHand' = IF job = "cli" THEN {b \in byHand : b[1] # o} ELSE byHand
       /\ Then(<<>>)
       /\ UNCHANGED added

Mark ==
    /\ Doing("mark")
    /\ disk' = [disk EXCEPT !.marks = @ \cup {Head(todo).name}]
    /\ Then(<<>>)
    /\ UNCHANGED <<added, byHand>>

AddGroup ==
    /\ Doing("add_group")
    /\ LET o == Head(todo).org
           g == Head(todo).name
       IN  IF <<o, g>> \in disk.groups THEN Refuse
           ELSE /\ Then(ThenMark(<<o, g>>))
                /\ disk' = [disk EXCEPT !.groups = @ \cup {<<o, g>>}]
                /\ UNCHANGED <<added, byHand>>

\* Whether the group is to be deleted is looked up among the users.  taskd
\* refuses to remove a group that does not exist.
DelGroup ==
    /\ Doing("delete_group")
    /\ LET o == Head(todo).org
           g == Head(todo).name
       IN  IF Unreadable(o) THEN Raise
           ELSE IF g \notin UserNames(o) \/ LeftAlone(<<o, g>>) THEN Skip
           ELSE IF <<o, g>> \notin disk.groups
                THEN Raise
                ELSE /\ disk' = [disk EXCEPT !.groups = @ \ {<<o, g>>},
                                             !.marks = @ \ {<<o, g>>}]
                     /\ Then(<<>>)
                     /\ UNCHANGED <<added, byHand>>

GroupRemoved == Doing("raise") /\ Raise

-----------------------------------------------------------------------------
(* Users and their keys.                                                   *)

\* Mutant of Taken: the tool no longer looks whether the user exists.
TakenNever(o, u) == FALSE

Taken(o, u) == u \in UserNames(o)

AddUser ==
    /\ Doing("add_user")
    /\ LET o == Head(todo).org
           u == Head(todo).name
           i == added + 1
       IN  IF Unreadable(o) THEN Raise
           ELSE IF Taken(o, u) THEN Refuse
           ELSE /\ added < MaxUsers
                /\ added' = i
                /\ disk' = [disk EXCEPT
                       !.accounts = @ \cup {[org |-> o, name |-> u, id |-> i]}]
                /\ byHand' = IF job = "cli" THEN byHand \cup {<<o, i>>} ELSE byHand
                /\ Then((IF AutoConfig THEN <<Task("key_directory", o, u, i),
                                              Task("private_key", o, u, i),
                                              Task("certificate", o, u, i)>>
                                       ELSE <<>>)
                        \o ThenMark(<<o, i>>))

\* Mutant of HasKeys: makedirs(exist_ok=True) is taken to be enough.
HasKeysNever(m) == FALSE

HasKeys(m) == m \in disk.keydirs

\* What is left by an interrupted run is an error, never overwritten.
MakeKeyDir ==
    /\ Doing("key_directory")
    /\ LET m == <<Head(todo).org, Head(todo).name>> IN
       IF HasKeys(m) THEN Raise
       ELSE /\ disk' = [disk EXCEPT !.keydirs = @ \cup {m}]
            /\ Then(<<>>) /\ UNCHANGED <<added, byHand>>

GenerateKey ==
    /\ Doing("private_key")
    /\ LET m == <<Head(todo).org, Head(todo).name>> IN
       disk' = [disk EXCEPT !.private = @ \cup {m}]
    /\ Then(<<>>) /\ UNCHANGED <<added, byHand>>

IssueCert ==
    /\ Doing("certificate")
    /\ LET t == Head(todo) IN
       disk' = [disk EXCEPT !.cert[<<t.org, t.name>>] = t.id]
    /\ Then(<<>>) /\ UNCHANGED <<added, byHand>>

AfterAccount(o, u) == <<For("revoke", o, u), For("drop_keys", o, u)>>

DelUser ==
    /\ Doing("delete_user")
    /\ LET o == Head(todo).org
           u == Head(todo).name
       IN  \/ Unreadable(o) /\ Raise
           \/ ~Unreadable(o) /\ u \notin UserNames(o) /\ Skip
           \/ \E a \in disk.accounts :
                /\ ~Unreadable(o) /\ a.org = o /\ a.name = u
                /\ IF LeftAlone(<<o, a.id>>) THEN Skip
                   ELSE /\ disk' = [disk EXCEPT !.accounts = @ \ {a},
                                                !.marks = @ \ {<<o, a.id>>}]
                        /\ byHand' = IF job = "cli" THEN byHand \ {<<o, a.id>>}
                                                    ELSE byHand
                        /\ Then(AfterAccount(o, u))
                        /\ UNCHANGED added

\* There is nothing to revoke without a certificate: an error.
Revoke ==
    /\ Doing("revoke")
    /\ LET m == <<Head(todo).org, Head(todo).name>> IN
       IF ~HasKeys(m) \/ disk.cert[m] = 0 THEN Raise
       ELSE /\ disk' = [disk EXCEPT !.crl = @ \cup {disk.cert[m]}]
            /\ Then(<<>>) /\ UNCHANGED <<added, byHand>>

\* Mutant of WithoutKeys: the private key is forgotten.
WithoutKeysPrivate(m) == [disk EXCEPT !.keydirs = @ \ {m}, !.cert[m] = 0]

\* rmtree.
WithoutKeys(m) ==
    [disk EXCEPT !.keydirs = @ \ {m}, !.private = @ \ {m}, !.cert[m] = 0]

DropKeys ==
    /\ Doing("drop_keys")
    /\ disk' = WithoutKeys(<<Head(todo).org, Head(todo).name>>)
    /\ Then(<<>>) /\ UNCHANGED <<added, byHand>>

-----------------------------------------------------------------------------
(* The end of an invocation.                                               *)

Finish == /\ status = "running" /\ todo = <<>>
          /\ status' = "done"
          /\ UNCHANGED <<disk, job, conf, todo, added, byHand, clean, used>>

External == {"add_org", "remove_org", "add_group", "add_user", "private_key",
             "certificate", "revoke"}

\* taskd or certtool fails; generate_key takes the directory with it.
CommandFails ==
    /\ status = "running" /\ todo # <<>> /\ Head(todo).do \in External
    /\ stops < MaxStops /\ stops' = stops + 1
    /\ Failed
    /\ disk' = IF Head(todo).do \in {"private_key", "certificate"}
               THEN WithoutKeys(<<Head(todo).org, Head(todo).name>>)
               ELSE disk

Kill ==
    /\ status = "running"
    /\ stops < MaxStops /\ stops' = stops + 1
    /\ Killed
    /\ UNCHANGED <<disk, byHand>>

\* rmtree removes one file after the other: a kill leaves any of them, and
\* the directory.  (Within the rmtree of generate_key it leaves what it leaves
\* before or after the task private_key.)
KillInDropKeys ==
    /\ Doing("drop_keys")
    /\ stops < MaxStops /\ stops' = stops + 1
    /\ LET m == <<Head(todo).org, Head(todo).name>> IN
       \E key \in SUBSET {m}, cert \in {0, disk.cert[m]} :
           disk' = [disk EXCEPT !.private = @ \ key, !.cert[m] = cert]
    /\ Killed /\ UNCHANGED byHand

KillInDelUser ==
    /\ Doing("delete_user")
    /\ stops < MaxStops /\ stops' = stops + 1
    /\ \E a \in disk.accounts :
          LET path == <<a.org, a.id>> IN
          /\ a.org = Head(todo).org /\ a.name = Head(todo).name
          /\ ~Unreadable(a.org) /\ ~LeftAlone(path)
          /\ \E mark \in SUBSET {path} :
                \/ disk' = [disk EXCEPT !.marks = @ \ mark]
                \/ disk' = [disk EXCEPT !.marks = @ \ mark, !.accounts = @ \ {a},
                                        !.husks = @ \cup {path}]
          /\ byHand' = IF job = "cli" THEN byHand \ {path} ELSE byHand
    /\ Killed

Step == \/ DiffOrgs \/ DiffMembers \/ DiffUsers \/ DiffGroups
        \/ AddOrg \/ DelOrg \/ RemoveOrg \/ Mark
        \/ AddGroup \/ DelGroup \/ GroupRemoved
        \/ AddUser \/ MakeKeyDir \/ GenerateKey \/ IssueCert
        \/ DelUser \/ Revoke \/ DropKeys \/ Finish

Next == \/ ProcessJson \/ OrgCommand \/ UserCommand \/ GroupCommand
        \/ Step \/ CommandFails \/ Kill \/ KillInDropKeys \/ KillInDelUser

Spec == Init /\ [][Next]_vars

-----------------------------------------------------------------------------
(* Properties.                                                             *)

Stored == [orgs : SUBSET Orgs, accounts : SUBSET Accounts,
           husks : SUBSET (Orgs \X Ids), groups : SUBSET (Orgs \X Groups), marks : SUBSET Paths,
           keydirs : SUBSET Members, private : SUBSET Members,
           cert : [Members -> Ids \cup {0}], crl : SUBSET Ids]

\* Every variable keeps its type, no account has an id that is yet to come, and
\* keys and certificates are in directories that exist.
TypeOK ==
    /\ disk \in Stored
    /\ \A a \in disk.accounts : a.id <= added
    /\ disk.private \subseteq disk.keydirs
    /\ \A m \in Members : disk.cert[m] # 0 => m \in disk.keydirs
    /\ job \in Jobs /\ conf \in Configs
    /\ status \in {"idle", "running", "done", "failed"}
    /\ added \in 0 .. MaxUsers /\ clean \in BOOLEAN
    /\ runs \in 0 .. MaxRuns /\ stops \in 0 .. MaxStops

\* Users are found by name, so no organisation may have two of one name,
\* whatever is interrupted and called again (Organisation.users).
OneAccountPerName ==
    \A a, b \in disk.accounts : a.org = b.org /\ a.name = b.name => a = b

\* When process-json succeeds, organisations and users are those declared and
\* those marked, whatever earlier invocations left half done.
SuccessMeansDeclared ==
    status = "done" /\ job = "json" =>
        \A o \in Orgs :
            <<o>> \notin disk.marks =>
                /\ o \in disk.orgs <=> o \in conf.orgs
                /\ o \in conf.orgs => conf.users[o] \subseteq UserNames(o)
                /\ \A a \in disk.accounts :
                       a.org = o /\ <<o, a.id>> \notin disk.marks
                           => a.name \in conf.users[o]

\* getkey finds both keys: user export prints them.
Exportable(m) == m \in disk.private /\ disk.cert[m] # 0

\* Users can always be listed (Organisation.users).
UsersAreListed == \A o \in disk.orgs : ~Unreadable(o)

\* As long as every invocation ended by itself and none raised an exception,
\* each user can be exported with a certificate issued for that very account
\* and not revoked, though keys are filed by name and a removed organisation
\* may have left some behind.
UsersAreCertified ==
    AutoConfig /\ clean /\ status # "running" =>
        \A a \in disk.accounts :
            LET m == <<a.org, a.name>> IN
            Exportable(m) /\ disk.cert[m] = a.id /\ a.id \notin disk.crl

\* No certificate leaves the disk before it is on the revocation list, even
\* if invocations are killed, fail and are repeated: afterwards nobody could
\* revoke it any more.
RevokedBeforeRemoved ==
    [][\A m \in Members :
          disk.cert[m] # 0 /\ disk'.cert[m] # disk.cert[m]
              => disk.cert[m] \in disk'.crl]_vars

\* process-json removes nothing that is marked, unless with an organisation
\* that is itself unmarked and no longer declared.
MarkedSurvive ==
    [][job' = "json" =>
          \A p \in disk.marks :
              p \in disk'.marks \/ (Len(p) > 1 /\ p[1] \notin conf.orgs)]_vars

Exists(b) == IF Len(b) = 1 THEN b[1] \in disk.orgs
             ELSE \E a \in disk.accounts : a.org = b[1] /\ a.id = b[2]

\* default.md, "designed to not interfere if the command is used to manually
\* set up some organisations, users or groups": what the administrator added,
\* only the administrator removes.
ImperativeIsLeftAlone == \A b \in byHand : Exists(b)

\* process_json, "Create and delete users, groups and organisations": after
\* it succeeds, the groups of a declared organisation are those declared and
\* those marked.
GroupsAreTheDeclared ==
    status = "done" /\ job = "json" =>
        \A o \in conf.orgs :
            <<o>> \notin disk.marks =>
                \A g \in GroupNames(o) :
                    g \in conf.groups[o] \/ <<o, g>> \in disk.marks

=============================================================================
