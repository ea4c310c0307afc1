----------------------- MODULE TaskserverAccounts_proofs -----------------------
(***************************************************************************)
(* Theorems about TaskserverAccounts, for any names and declarations, any  *)
(* number of invocations, kills and failing commands.                      *)
(***************************************************************************)
EXTENDS TaskserverAccounts, FiniteSetTheorems, TLAPS

(* Tasks by what they name. *)
PlanTasks  == {"orgs", "members"}
OrgTasks   == {"add_org", "delete_org", "remove_org", "users", "groups"}
UserTasks  == {"add_user", "delete_user", "revoke", "drop_keys"}
KeyTasks   == {"key_directory", "private_key", "certificate"}
GroupTasks == {"add_group", "delete_group", "raise"}

Tasks ==      [do : PlanTasks, org : {0}, name : {0}, id : {0}]
         \cup [do : OrgTasks, org : Orgs, name : Orgs, id : {0}]
         \cup [do : UserTasks, org : Orgs, name : Users, id : {0}]
         \cup [do : KeyTasks, org : Orgs, name : Users, id : Ids]
         \cup [do : GroupTasks, org : Orgs, name : Groups, id : {0}]
         \cup [do : {"mark"}, org : Orgs, name : Paths, id : {0}]

(* Tasks that rely on the one right before them, and these. *)
Dependents == {"drop_keys", "private_key", "certificate"}
Supports   == {"revoke", "key_directory", "private_key"}

Supported(t, before) ==
    /\ before.org = t.org /\ before.name = t.name
    /\ t.do = "drop_keys"   => before.do = "revoke"
    /\ t.do = "private_key" => before.do = "key_directory"
    /\ t.do = "certificate" => before.do = "private_key"

Chained(s) ==
    \A k \in 1 .. Len(s) :
        s[k].do \in Dependents => k = 1 \/ Supported(s[k], s[k - 1])

Fresh(s) == s # <<>> => s[1].do \notin Dependents

(* What the task before has left. *)
Ready(t) ==
    LET m == <<t.org, t.name>> IN
    /\ t.do = "drop_keys"   => disk.cert[m] = 0 \/ disk.cert[m] \in disk.crl
    /\ t.do = "private_key" => m \in disk.keydirs /\ disk.cert[m] = 0
    /\ t.do = "certificate" => m \in disk.private /\ disk.cert[m] = 0

(* process-json marks nothing, and removes no organisation that is declared
   or marked. *)
Lawful(t) ==
    job = "json" =>
        /\ t.do # "mark"
        /\ t.do \in {"delete_org", "remove_org"} => t.org \notin conf.orgs
        /\ t.do = "remove_org" => <<t.org>> \notin disk.marks

QueueInv ==
    /\ todo \in Seq(Tasks)
    /\ Chained(todo)
    /\ todo # <<>> => Ready(Head(todo))
    /\ \A k \in 1 .. Len(todo) : Lawful(todo[k])
    /\ status # "running" => todo = <<>>

IInv == TypeOK /\ QueueInv /\ OneAccountPerName

-----------------------------------------------------------------------------
(* Lists of tasks.                                                         *)

LEMMA PutInFront ==
    ASSUME NEW front \in Seq(Tasks), NEW s \in Seq(Tasks), s # <<>>
    PROVE  /\ front \o Tail(s) \in Seq(Tasks)
           /\ Len(front \o Tail(s)) = Len(front) + Len(s) - 1
           /\ \A k \in 1 .. Len(front) + Len(s) - 1 :
                 (front \o Tail(s))[k] =
                     IF k <= Len(front) THEN front[k] ELSE s[k - Len(front) + 1]
OBVIOUS

LEMMA StaysChained ==
    ASSUME NEW front \in Seq(Tasks), NEW s \in Seq(Tasks), s # <<>>,
           Chained(front), Fresh(front), Chained(s),
           front # <<>> => s[1].do \notin Supports
    PROVE  Chained(front \o Tail(s))
<1> DEFINE l == front \o Tail(s)
<1>1. SUFFICES ASSUME NEW k \in 1 .. Len(l), l[k].do \in Dependents, k # 1
               PROVE  Supported(l[k], l[k - 1])
  BY DEF Chained
<1>2. /\ Len(l) = Len(front) + Len(s) - 1
      /\ \A j \in 1 .. Len(l) :
            l[j] = IF j <= Len(front) THEN front[j] ELSE s[j - Len(front) + 1]
  BY PutInFront
<1>3. Len(front) \in Nat /\ Len(s) \in Nat /\ k - 1 \in 1 .. Len(l)
  BY <1>1, <1>2
<1> HIDE DEF l
<1>4. CASE k <= Len(front)
  <2>1. l[k] = front[k] /\ l[k - 1] = front[k - 1]
    BY <1>2, <1>3, <1>4
  <2> QED
    BY <2>1, <1>1, <1>3, <1>4 DEF Chained
<1>5. CASE k > Len(front)
  <2> DEFINE j == k - Len(front) + 1
  <2>1. j \in 2 .. Len(s) /\ l[k] = s[j]
    BY <1>2, <1>3, <1>5
  <2>2. Supported(s[j], s[j - 1])
    BY <2>1, <1>1, <1>3 DEF Chained
  <2>3. CASE front = <<>> \/ k > Len(front) + 1
    <3>1. l[k - 1] = s[j - 1]
      BY <1>1, <1>2, <1>3, <1>5, <2>3
    <3> QED
      BY <3>1, <2>1, <2>2
  <2>4. CASE front # <<>> /\ k = Len(front) + 1
    <3>1. s[2].do \in Dependents /\ Supported(s[2], s[1])
      BY <1>1, <1>3, <2>1, <2>2, <2>4
    <3>2. s[1].do \in Supports
      BY <3>1 DEF Supported, Supports, Dependents
    <3> QED
      BY <3>2, <2>4
  <2> QED
    BY <2>3, <2>4, <1>3, <1>5
<1> QED
  BY <1>4, <1>5, <1>3

LEMMA Fronts ==
    ASSUME NEW front \in Seq(Tasks), NEW s \in Seq(Tasks), s # <<>>, NEW l, l = front \o Tail(s)
    PROVE  /\ l \in Seq(Tasks)
           /\ front = <<>> => l = Tail(s)
           /\ front # <<>> => /\ l # <<>> /\ Head(l) = Head(front)
                             /\ Head(front) = front[1] /\ 1 \in 1 .. Len(front)
OBVIOUS

LEMMA Tails ==
    ASSUME NEW s \in Seq(Tasks), s # <<>>
    PROVE  /\ Tail(s) \in Seq(Tasks) /\ Head(s) = s[1] /\ 1 \in 1 .. Len(s)
           /\ Tail(s) # <<>> => 2 \in 1 .. Len(s) /\ Head(Tail(s)) = s[2]
           /\ Len(s) > 1 => Tail(s) # <<>>
<1>1. Tail(s) \in Seq(Tasks) /\ Head(s) = s[1] /\ 1 \in 1 .. Len(s)
  OBVIOUS
<1>2. Tail(s) # <<>> => 2 \in 1 .. Len(s) /\ Head(Tail(s)) = s[2]
  OBVIOUS
<1>3. Len(s) > 1 => Tail(s) # <<>>
  OBVIOUS
<1> QED
  BY <1>1, <1>2, <1>3

(* What the first task leaves for one that stands behind it. *)
LEMMA NextTask ==
    ASSUME NEW s \in Seq(Tasks), s # <<>>, Chained(s), Tail(s) # <<>>,
           Head(Tail(s)).do \in Dependents
    PROVE  Supported(Head(Tail(s)), Head(s)) /\ Head(s).do \in Supports
<1>1. Len(s) >= 2 /\ Head(Tail(s)) = s[2] /\ Head(s) = s[1]
  OBVIOUS
<1>2. Supported(s[2], s[1])
  BY <1>1 DEF Chained
<1> QED
  BY <1>1, <1>2 DEF Supported, Supports, Dependents

(* The tasks of a set of names, in any order. *)
LEMMA Listed ==
    ASSUME NEW S, IsFiniteSet(S), NEW s \in SetToSeqs(S)
    PROVE  DOMAIN s = 1 .. Len(s) /\ Len(s) \in Nat /\ \A k \in 1 .. Len(s) : s[k] \in S
<1>1. Cardinality(S) \in Nat
  BY FS_CardinalityType
<1>2. s \in [1 .. Cardinality(S) -> S]
  BY DEF SetToSeqs
<1>3. s \in Seq(S) /\ Len(s) = Cardinality(S)
  BY <1>1, <1>2
<1> QED
  BY <1>1, <1>2, <1>3

LEMMA ListOfTasks ==
    ASSUME NEW n \in Nat, NEW f, f = [k \in 1 .. n |-> f[k]], \A k \in 1 .. n : f[k] \in Tasks
    PROVE  f \in Seq(Tasks) /\ Len(f) = n
<1>1. f \in [1 .. n -> Tasks]
  OBVIOUS
<1> QED
  BY <1>1

-----------------------------------------------------------------------------
(* What an action does to the list.                                        *)

LEMMA ThenQueue ==
    ASSUME IInv, todo # <<>>, NEW tasks \in Seq(Tasks), Then(tasks), tasks # <<>>,
           Chained(tasks), Fresh(tasks), Head(todo).do \notin Supports,
           job = "json" => disk'.marks \subseteq disk.marks,
           \A k \in 1 .. Len(tasks) : Lawful(tasks[k])'
    PROVE  QueueInv'
<1>1. todo \in Seq(Tasks) /\ Chained(todo) /\ status = status' /\ status = "running"
  BY DEF IInv, QueueInv, Then
<1>2. /\ todo' = tasks \o Tail(todo) /\ todo' \in Seq(Tasks)
      /\ Len(todo') = Len(tasks) + Len(todo) - 1
      /\ \A k \in 1 .. Len(todo') :
            todo'[k] = IF k <= Len(tasks) THEN tasks[k] ELSE todo[k - Len(tasks) + 1]
  BY <1>1, PutInFront DEF Then
<1>3. Chained(todo')
  BY <1>1, <1>2, StaysChained
<1>4. Ready(Head(todo))'
  <2>1. Head(todo') = tasks[1]
    BY <1>1, <1>2
  <2> QED
    BY <2>1 DEF Fresh, Ready, Dependents
<1>5. ASSUME NEW k \in 1 .. Len(todo') PROVE Lawful(todo[k])'
  <2>1. CASE k <= Len(tasks)
    BY <2>1, <1>2
  <2>2. CASE k > Len(tasks)
    <3>1. k - Len(tasks) + 1 \in 1 .. Len(todo)
      BY <2>2, <1>1, <1>2
    <3>2. PICK t : t = todo[k - Len(tasks) + 1]
      OBVIOUS
    <3>3. Lawful(t)
      BY <3>1, <3>2 DEF IInv, QueueInv
    <3>4. Lawful(t)'
      BY <3>3 DEF Lawful, Then
    <3>5. t = todo'[k]
      BY <3>2, <2>2, <1>1, <1>2
    <3> QED
      BY <3>4, <3>5 DEF Lawful
  <2> QED
    BY <2>1, <2>2, <1>1
<1> QED
  BY <1>1, <1>2, <1>3, <1>4, <1>5 DEF QueueInv, Chained

LEMMA DoneQueue ==
    ASSUME IInv, todo # <<>>, Then(<<>>),
           job = "json" => disk'.marks \subseteq disk.marks,
           NEW t, t = Head(Tail(todo)),
           Tail(todo) # <<>> /\ t.do \in Dependents => Ready(t)'
    PROVE  QueueInv'
<1>1. todo \in Seq(Tasks) /\ Chained(todo) /\ status = status' /\ status = "running"
  BY DEF IInv, QueueInv, Then
<1>2. /\ todo' = <<>> \o Tail(todo) /\ todo' = Tail(todo) /\ todo' \in Seq(Tasks)
      /\ Len(todo') = Len(todo) - 1
      /\ \A k \in 1 .. Len(todo') : todo'[k] = todo[k + 1]
  BY <1>1 DEF Then
<1>3. Chained(todo')
  <2>1. Chained(<<>>) /\ Fresh(<<>>) /\ <<>> \in Seq(Tasks)
    BY DEF Chained, Fresh
  <2> QED
    BY <2>1, <1>1, <1>2, StaysChained
<1>4. todo' # <<>> => Ready(Head(todo))'
  <2>1. todo' # <<>> => Ready(t)'
    BY <1>2 DEF Ready, Dependents
  <2>2. Head(todo') = t
    BY <1>2
  <2> QED
    BY <2>1, <2>2 DEF Ready
<1>5. ASSUME NEW k \in 1 .. Len(todo') PROVE Lawful(todo[k])'
  <2>1. Lawful(todo[k + 1]) /\ todo'[k] = todo[k + 1]
    BY <1>1, <1>2 DEF IInv, QueueInv
  <2> QED
    BY <2>1 DEF Lawful, Then
<1> QED
  BY <1>1, <1>2, <1>3, <1>4, <1>5 DEF QueueInv, Chained

LEMMA EndsQueue ==
    ASSUME NEW result, Ends(result)
    PROVE  QueueInv'
BY DEF QueueInv, Ends, Chained

LEMMA TaskKinds ==
    /\ \A do \in PlanTasks : Task(do, 0, 0, 0) \in Tasks
    /\ \A do \in OrgTasks, o \in Orgs : ForOrg(do, o) \in Tasks
    /\ \A do \in UserTasks, o \in Orgs, u \in Users : For(do, o, u) \in Tasks
    /\ \A do \in KeyTasks, o \in Orgs, u \in Users, i \in Ids : Task(do, o, u, i) \in Tasks
    /\ \A do \in GroupTasks, o \in Orgs, g \in Groups : For(do, o, g) \in Tasks
    /\ \A o \in Orgs, path \in Paths : For("mark", o, path) \in Tasks
BY DEF Tasks, Task, ForOrg, For

LEMMA TaskNames ==
    ASSUME NEW t \in Tasks
    PROVE  /\ t.do \in OrgTasks => t.org \in Orgs
           /\ t.do \in UserTasks => t.org \in Orgs /\ t.name \in Users
           /\ t.do \in KeyTasks => t.org \in Orgs /\ t.name \in Users /\ t.id \in Ids
           /\ t.do \in GroupTasks => t.org \in Orgs /\ t.name \in Groups
           /\ t.do = "mark" => t.org \in Orgs /\ t.name \in Paths
BY DEF Tasks, PlanTasks, OrgTasks, UserTasks, KeyTasks, GroupTasks

LEMMA HeadTask ==
    ASSUME IInv, todo # <<>>
    PROVE  /\ todo \in Seq(Tasks) /\ Head(todo) \in Tasks
           /\ Ready(Head(todo)) /\ Lawful(Head(todo))
BY DEF IInv, QueueInv

(* Tasks that rely on none and that this invocation may have. *)
Simple(tasks) ==
    /\ tasks \in Seq(Tasks)
    /\ \A k \in 1 .. Len(tasks) : tasks[k].do \notin Dependents /\ Lawful(tasks[k])

LEMMA SimpleOnes ==
    ASSUME NEW t \in Tasks, t.do \notin Dependents, Lawful(t)
    PROVE  Simple(<<t>>)
BY DEF Simple

LEMMA SimpleLists ==
    ASSUME NEW a, NEW b, Simple(a), Simple(b)
    PROVE  Simple(a \o b)
<1>1. a \in Seq(Tasks) /\ b \in Seq(Tasks)
  BY DEF Simple
<1>2. /\ a \o b \in Seq(Tasks) /\ Len(a \o b) = Len(a) + Len(b)
      /\ \A k \in 1 .. Len(a) + Len(b) :
            (a \o b)[k] = IF k <= Len(a) THEN a[k] ELSE b[k - Len(a)]
  BY <1>1
<1>3. ASSUME NEW k \in 1 .. Len(a \o b)
      PROVE  \/ k \in 1 .. Len(a) /\ (a \o b)[k] = a[k]
             \/ k - Len(a) \in 1 .. Len(b) /\ (a \o b)[k] = b[k - Len(a)]
  BY <1>1, <1>2
<1>4. ASSUME NEW k \in 1 .. Len(a \o b)
      PROVE  (a \o b)[k].do \notin Dependents /\ Lawful((a \o b)[k])
  <2>1. CASE k \in 1 .. Len(a) /\ (a \o b)[k] = a[k]
    BY <2>1 DEF Simple
  <2>2. CASE k - Len(a) \in 1 .. Len(b) /\ (a \o b)[k] = b[k - Len(a)]
    BY <2>2 DEF Simple
  <2> QED
    BY <1>3, <2>1, <2>2
<1> QED
  BY <1>2, <1>4 DEF Simple

LEMMA EachNameIs ==
    ASSUME NEW S \in SUBSET Users, NEW s \in SetToSeqs(S), NEW o \in Orgs,
           NEW do \in {"add_user", "delete_user"}
    PROVE  Simple(EachName(do, o, s))
<1>1. IsFiniteSet(S)
  BY FS_Subset, FiniteNames
<1>2. DOMAIN s = 1 .. Len(s) /\ Len(s) \in Nat /\ \A k \in 1 .. Len(s) : s[k] \in S
  BY <1>1, Listed
<1>3. \A k \in 1 .. Len(s) : For(do, o, s[k]) \in Tasks
  BY <1>2, TaskKinds DEF UserTasks
<1>4. EachName(do, o, s) = [k \in 1 .. Len(s) |-> For(do, o, s[k])]
  BY <1>2 DEF EachName
<1>5. EachName(do, o, s) \in Seq(Tasks) /\ Len(EachName(do, o, s)) = Len(s)
  BY <1>2, <1>3, <1>4, ListOfTasks
<1> QED
  BY <1>2, <1>4, <1>5 DEF Simple, EachName, For, Task, Lawful, Dependents

LEMMA EachGroupIs ==
    ASSUME NEW S \in SUBSET Groups, NEW s \in SetToSeqs(S), NEW o \in Orgs,
           NEW do \in {"add_group", "delete_group"}
    PROVE  Simple(EachName(do, o, s))
<1>1. IsFiniteSet(S)
  BY FS_Subset, FiniteNames
<1>2. DOMAIN s = 1 .. Len(s) /\ Len(s) \in Nat /\ \A k \in 1 .. Len(s) : s[k] \in S
  BY <1>1, Listed
<1>3. \A k \in 1 .. Len(s) : For(do, o, s[k]) \in Tasks
  BY <1>2, TaskKinds DEF GroupTasks
<1>4. EachName(do, o, s) = [k \in 1 .. Len(s) |-> For(do, o, s[k])]
  BY <1>2 DEF EachName
<1>5. EachName(do, o, s) \in Seq(Tasks) /\ Len(EachName(do, o, s)) = Len(s)
  BY <1>2, <1>3, <1>4, ListOfTasks
<1> QED
  BY <1>2, <1>4, <1>5 DEF Simple, EachName, For, Task, Lawful, Dependents

LEMMA EachOrgIs ==
    ASSUME NEW S \in SUBSET Orgs, NEW s \in SetToSeqs(S),
           NEW do \in {"add_org", "delete_org"},
           do = "delete_org" => S \cap conf.orgs = {}
    PROVE  Simple(EachOrg(do, s))
<1>1. IsFiniteSet(S)
  BY FS_Subset, FiniteNames
<1>2. DOMAIN s = 1 .. Len(s) /\ Len(s) \in Nat /\ \A k \in 1 .. Len(s) : s[k] \in S
  BY <1>1, Listed
<1>3. \A k \in 1 .. Len(s) : ForOrg(do, s[k]) \in Tasks
  BY <1>2, TaskKinds DEF OrgTasks
<1>4. EachOrg(do, s) = [k \in 1 .. Len(s) |-> ForOrg(do, s[k])]
  BY <1>2 DEF EachOrg
<1>5. EachOrg(do, s) \in Seq(Tasks) /\ Len(EachOrg(do, s)) = Len(s)
  <2>1. PICK f : f = EachOrg(do, s)
    OBVIOUS
  <2>2. f = [k \in 1 .. Len(s) |-> f[k]] /\ \A k \in 1 .. Len(s) : f[k] \in Tasks
    BY <1>3, <1>4, <2>1
  <2> QED
    BY <1>2, <2>1, <2>2, ListOfTasks
<1> QED
  BY <1>2, <1>4, <1>5 DEF Simple, EachOrg, ForOrg, Task, Lawful, Dependents

LEMMA SimpleQueue ==
    ASSUME IInv, todo # <<>>, NEW tasks, Simple(tasks), Then(tasks),
           Head(todo).do \notin Supports,
           job = "json" => disk'.marks \subseteq disk.marks
    PROVE  QueueInv'
<1>1. CASE tasks = <<>>
  <2>1. PICK t : t = Head(Tail(todo))
    OBVIOUS
  <2>2. Tail(todo) # <<>> => t.do \notin Dependents
    BY <2>1, NextTask DEF IInv, QueueInv
  <2> QED
    BY <1>1, <2>1, <2>2, DoneQueue
<1>2. CASE tasks # <<>>
  <2>1. tasks \in Seq(Tasks) /\ Chained(tasks) /\ Fresh(tasks)
    BY DEF Simple, Chained, Fresh
  <2>2. ASSUME NEW k \in 1 .. Len(tasks) PROVE Lawful(tasks[k])'
    <3>1. PICK t : t = tasks[k]
      OBVIOUS
    <3>2. Lawful(t)
      BY <3>1 DEF Simple
    <3>3. Lawful(t)'
      BY <3>2 DEF Lawful, Then
    <3> QED
      BY <3>1, <3>3 DEF Lawful
  <2> QED
    BY <1>2, <2>1, <2>2, ThenQueue
<1> QED
  BY <1>1, <1>2

-----------------------------------------------------------------------------
(* What an action does to what is stored.                                  *)

DiskOK ==
    /\ disk \in Stored
    /\ \A a \in disk.accounts : a.id <= added
    /\ disk.private \subseteq disk.keydirs
    /\ \A m \in Members : disk.cert[m] # 0 => m \in disk.keydirs

LEMMA ThenTypes ==
    ASSUME TypeOK, NEW tasks, Then(tasks), DiskOK', added' \in 0 .. MaxUsers
    PROVE  TypeOK'
BY DEF TypeOK, DiskOK, Then

LEMMA EndsTypes ==
    ASSUME TypeOK, NEW result \in {"failed"}, Ends(result), DiskOK',
           clean' \in BOOLEAN, stops' \in 0 .. MaxStops
    PROVE  TypeOK'
BY DEF TypeOK, DiskOK, Ends

LEMMA SameDisk ==
    ASSUME IInv, UNCHANGED <<disk, added>>
    PROVE  DiskOK' /\ OneAccountPerName' /\ added' \in 0 .. MaxUsers
BY DEF IInv, TypeOK, DiskOK, OneAccountPerName

LEMMA FewerAccounts ==
    ASSUME IInv, disk'.accounts \subseteq disk.accounts
    PROVE  OneAccountPerName'
BY DEF IInv, OneAccountPerName

LEMMA SkipKeeps ==
    ASSUME IInv, todo # <<>>, Head(todo).do \notin Supports, Skip
    PROVE  IInv'
<1>1. Simple(<<>>)
  BY DEF Simple
<1>2. Then(<<>>) /\ UNCHANGED <<disk, added>> /\ disk'.marks = disk.marks
  BY DEF Skip
<1>3. QueueInv'
  BY <1>1, <1>2, SimpleQueue
<1> QED
  BY <1>2, <1>3, SameDisk, ThenTypes DEF IInv

LEMMA RefuseKeeps == ASSUME IInv, Refuse PROVE IInv'
<1>1. UNCHANGED <<disk, added>> /\ clean' \in BOOLEAN /\ stops' \in 0 .. MaxStops /\ Ends("failed")
  BY DEF Refuse, Ends, IInv, TypeOK
<1> QED
  BY <1>1, SameDisk, EndsTypes, EndsQueue DEF IInv

LEMMA RaiseKeeps == ASSUME IInv, Raise PROVE IInv'
<1>1. UNCHANGED <<disk, added>> /\ clean' \in BOOLEAN /\ stops' \in 0 .. MaxStops /\ Ends("failed")
  BY DEF Raise, Failed, Ends, IInv, TypeOK
<1> QED
  BY <1>1, SameDisk, EndsTypes, EndsQueue DEF IInv

LEMMA ImperativeOnes ==
    /\ \A o : <<o>> \in disk.marks => IsImperative(<<o>>)
    /\ \A o, x : <<o, x>> \in disk.marks => IsImperative(<<o, x>>)
<1>1. ASSUME NEW o, <<o>> \in disk.marks PROVE IsImperative(<<o>>)
  <2>1. PICK p : p = <<o>>
    OBVIOUS
  <2>2. p \in Seq({o}) /\ Len(p) = 1 /\ p[1] = o
    BY <2>1
  <2>3. SubSeq(p, 1, 1) = p
    BY <2>2
  <2>4. p \in disk.marks /\ 1 \in 1 .. Len(p)
    BY <1>1, <2>1, <2>2
  <2>5. IsImperative(p)
    BY <2>3, <2>4 DEF IsImperative
  <2> QED
    BY <2>1, <2>5
<1>2. ASSUME NEW o, NEW x, <<o, x>> \in disk.marks PROVE IsImperative(<<o, x>>)
  <2>1. PICK p : p = <<o, x>>
    OBVIOUS
  <2>2. p \in Seq({o, x}) /\ Len(p) = 2 /\ p[1] = o /\ p[2] = x
    BY <2>1
  <2>3. SubSeq(p, 1, 2) = p
    BY <2>2
  <2>4. p \in disk.marks /\ 2 \in 1 .. Len(p)
    BY <1>2, <2>1, <2>2
  <2>5. IsImperative(p)
    BY <2>3, <2>4 DEF IsImperative
  <2> QED
    BY <2>1, <2>5
<1> QED
  BY <1>1, <1>2

-----------------------------------------------------------------------------
(* One lemma per action: it preserves IInv.                                *)

LEMMA InitInv == Init => IInv
<1> SUFFICES ASSUME Init PROVE IInv
  OBVIOUS
<1>1. disk \in Stored
  BY DEF Init, Empty, Stored
<1>2. TypeOK
  BY <1>1, Parameters DEF Init, Empty, TypeOK, Jobs
<1> QED
  BY <1>2 DEF Init, Empty, IInv, QueueInv, Chained, OneAccountPerName

LEMMA BeginKeeps ==
    ASSUME IInv, NEW who \in Jobs, NEW tasks \in Seq(Tasks), Begin(who, tasks),
           conf' \in Configs, Chained(tasks), Fresh(tasks),
           who = "json" => \A k \in 1 .. Len(tasks) : tasks[k].do \in PlanTasks
    PROVE  IInv'
<1>1. DiskOK' /\ OneAccountPerName' /\ added' \in 0 .. MaxUsers
  BY SameDisk DEF Begin
<1>2. runs' \in 0 .. MaxRuns /\ stops' \in 0 .. MaxStops /\ clean' \in BOOLEAN
  BY Parameters DEF Begin, IInv, TypeOK
<1>3. TypeOK'
  BY <1>1, <1>2 DEF Begin, TypeOK, DiskOK
<1>4. todo' # <<>> => Ready(Head(todo))'
  <2>1. tasks # <<>> => Head(tasks).do \notin Dependents
    BY DEF Fresh
  <2> QED
    BY <2>1 DEF Begin, Ready, Dependents
<1>5. ASSUME NEW k \in 1 .. Len(tasks) PROVE Lawful(tasks[k])'
  BY DEF Begin, Lawful, PlanTasks
<1>6. QueueInv'
  BY <1>4, <1>5 DEF QueueInv, Begin
<1> QED
  BY <1>1, <1>3, <1>6 DEF IInv

LEMMA DiffOrgsKeeps == ASSUME IInv, DiffOrgs PROVE IInv'
<1>1. PICK del \in SetToSeqs(Surplus(disk.orgs, conf.orgs)),
           add \in SetToSeqs(Missing(disk.orgs, conf.orgs)) :
          Then(EachOrg("delete_org", del) \o EachOrg("add_org", add)
               \o <<Task("members", 0, 0, 0)>>)
  BY DEF DiffOrgs
<1>2. todo # <<>> /\ Head(todo).do \notin Supports
  BY DEF DiffOrgs, Doing, Supports
<1>3. /\ Surplus(disk.orgs, conf.orgs) \in SUBSET Orgs
      /\ Missing(disk.orgs, conf.orgs) \in SUBSET Orgs
      /\ Surplus(disk.orgs, conf.orgs) \cap conf.orgs = {}
  BY Parameters DEF IInv, TypeOK, Stored, Surplus, Missing
<1>4. Simple(EachOrg("delete_org", del)) /\ Simple(EachOrg("add_org", add))
  BY <1>3, EachOrgIs
<1>5. Simple(<<Task("members", 0, 0, 0)>>)
  <2>1. Task("members", 0, 0, 0) \in Tasks
    BY TaskKinds DEF PlanTasks
  <2> QED
    BY <2>1, SimpleOnes DEF Task, Dependents, Lawful
<1>6. QueueInv'
  BY <1>1, <1>2, <1>4, <1>5, SimpleLists, SimpleQueue DEF DiffOrgs
<1> QED
  BY <1>1, <1>6, SameDisk, ThenTypes DEF IInv, DiffOrgs

LEMMA DiffMembersKeeps == ASSUME IInv, DiffMembers PROVE IInv'
<1> DEFINE S == {o \in disk.orgs : ~IsImperative(<<o>>)}
           tasks(s) == [k \in 1 .. 2 * Len(s) |->
                          ForOrg(IF k % 2 = 1 THEN "users" ELSE "groups", s[(k + 1) \div 2])]
<1>1. PICK s \in SetToSeqs(S) : Then(tasks(s))
  BY DEF DiffMembers
<1>2. todo # <<>> /\ Head(todo).do \notin Supports
  BY DEF DiffMembers, Doing, Supports
<1> HIDE DEF tasks
<1>3. S \in SUBSET Orgs
  BY DEF IInv, TypeOK, Stored
<1>4. IsFiniteSet(S)
  BY <1>3, FiniteNames, FS_Subset
<1> HIDE DEF S
<1>5. Len(s) \in Nat /\ \A k \in 1 .. Len(s) : s[k] \in Orgs
  BY <1>3, <1>4, Listed
<1>6. PICK f : f = tasks(s)
  OBVIOUS
<1>7. ASSUME NEW k \in 1 .. 2 * Len(s)
      PROVE  f[k] \in Tasks /\ f[k].do \in {"users", "groups"}
  <2>1. (k + 1) \div 2 \in 1 .. Len(s)
    BY <1>5
  <2>2. PICK o \in Orgs : o = s[(k + 1) \div 2]
    BY <2>1, <1>5
  <2>3. f[k] = ForOrg("users", o) \/ f[k] = ForOrg("groups", o)
    BY <1>6, <2>2 DEF tasks
  <2>4. f[k] \in Tasks
    BY <2>3, TaskKinds DEF OrgTasks
  <2> QED
    BY <2>3, <2>4 DEF ForOrg, Task
<1>8. f \in Seq(Tasks) /\ Len(f) = 2 * Len(s)
  <2>1. f = [k \in 1 .. 2 * Len(s) |-> f[k]] /\ 2 * Len(s) \in Nat
    BY <1>5, <1>6 DEF tasks
  <2> QED
    BY <2>1, <1>7, ListOfTasks
<1>9. Simple(f)
  BY <1>7, <1>8 DEF Simple, Dependents, Lawful
<1>10. QueueInv'
  BY <1>1, <1>2, <1>6, <1>9, SimpleQueue DEF DiffMembers
<1> QED
  BY <1>1, <1>10, SameDisk, ThenTypes DEF IInv, DiffMembers

LEMMA DiffUsersKeeps == ASSUME IInv, DiffUsers PROVE IInv'
<1> DEFINE o == Head(todo).org
<1> SUFFICES ASSUME ~Raise PROVE IInv'
  BY RaiseKeeps
<1>1. PICK del \in SetToSeqs(Surplus(UserNames(o), conf.users[o])),
           add \in SetToSeqs(Missing(UserNames(o), conf.users[o])) :
          Then(EachName("delete_user", o, del) \o EachName("add_user", o, add))
  BY DEF DiffUsers
<1>2. todo # <<>> /\ Head(todo).do = "users"
  BY DEF DiffUsers, Doing
<1>3. o \in Orgs
  BY <1>2, HeadTask, TaskNames DEF OrgTasks
<1> HIDE DEF o
<1>4. /\ Surplus(UserNames(o), conf.users[o]) \in SUBSET Users
      /\ Missing(UserNames(o), conf.users[o]) \in SUBSET Users
  BY <1>3, Parameters DEF IInv, TypeOK, Stored, Accounts, Surplus, Missing, UserNames
<1>5. Simple(EachName("delete_user", o, del)) /\ Simple(EachName("add_user", o, add))
  BY <1>3, <1>4, EachNameIs
<1>6. QueueInv'
  BY <1>1, <1>2, <1>5, SimpleLists, SimpleQueue DEF DiffUsers, Supports
<1> QED
  BY <1>1, <1>6, SameDisk, ThenTypes DEF IInv, DiffUsers

LEMMA DiffGroupsKeeps == ASSUME IInv, DiffGroups PROVE IInv'
<1> DEFINE o == Head(todo).org
<1>1. PICK del \in SetToSeqs(Surplus(GroupNames(o), conf.groups[o])),
           add \in SetToSeqs(Missing(GroupNames(o), conf.groups[o])) :
          Then(EachName("delete_group", o, del) \o EachName("add_group", o, add))
  BY DEF DiffGroups
<1>2. todo # <<>> /\ Head(todo).do = "groups"
  BY DEF DiffGroups, Doing
<1>3. o \in Orgs
  BY <1>2, HeadTask, TaskNames DEF OrgTasks
<1> HIDE DEF o
<1>4. /\ Surplus(GroupNames(o), conf.groups[o]) \in SUBSET Groups
      /\ Missing(GroupNames(o), conf.groups[o]) \in SUBSET Groups
  BY <1>3, Parameters DEF IInv, TypeOK, Stored, Surplus, Missing, GroupNames
<1>5. Simple(EachName("delete_group", o, del)) /\ Simple(EachName("add_group", o, add))
  BY <1>3, <1>4, EachGroupIs
<1>6. QueueInv'
  BY <1>1, <1>2, <1>5, SimpleLists, SimpleQueue DEF DiffGroups, Supports
<1> QED
  BY <1>1, <1>6, SameDisk, ThenTypes DEF IInv, DiffGroups

LEMMA MarkIsSimple ==
    ASSUME NEW path \in Paths, path[1] \in Orgs
    PROVE  Simple(ThenMark(path))
<1>1. CASE job = "cli"
  <2>1. For("mark", path[1], path) \in Tasks
    BY TaskKinds
  <2>2. Simple(<<For("mark", path[1], path)>>)
    BY <1>1, <2>1, SimpleOnes DEF For, Task, Dependents, Lawful
  <2> QED
    BY <1>1, <2>2 DEF ThenMark
<1>2. CASE job # "cli"
  BY <1>2 DEF ThenMark, Simple
<1> QED
  BY <1>1, <1>2

LEMMA AddOrgKeeps == ASSUME IInv, AddOrg PROVE IInv'
<1> DEFINE o == Head(todo).org
<1>1. todo # <<>> /\ Head(todo).do = "add_org"
  BY DEF AddOrg, Doing
<1>2. o \in Orgs
  BY <1>1, HeadTask, TaskNames DEF OrgTasks
<1>3. CASE o \in disk.orgs
  BY <1>3, RefuseKeeps DEF AddOrg
<1>4. CASE o \notin disk.orgs
  <2>1. Then(ThenMark(<<o>>)) /\ disk' = [disk EXCEPT !.orgs = @ \cup {o}] /\ added' = added
    BY <1>4 DEF AddOrg
  <2> HIDE DEF o
  <2>2. <<o>> \in Paths /\ <<o>>[1] = o
    BY <1>2 DEF Paths
  <2>3. DiskOK' /\ disk'.marks = disk.marks /\ disk'.accounts = disk.accounts
    BY <1>2, <2>1 DEF IInv, TypeOK, DiskOK, Stored
  <2>4. QueueInv'
    BY <1>1, <1>2, <2>1, <2>2, <2>3, MarkIsSimple, SimpleQueue DEF Supports
  <2>5. added' \in 0 .. MaxUsers
    BY <2>1 DEF IInv, TypeOK
  <2> QED
    BY <2>1, <2>3, <2>4, <2>5, FewerAccounts, ThenTypes DEF IInv
<1> QED
  BY <1>3, <1>4

LEMMA DelOrgKeeps == ASSUME IInv, DelOrg PROVE IInv'
<1> DEFINE o == Head(todo).org
<1> SUFFICES ASSUME ~Raise PROVE IInv'
  BY RaiseKeeps
<1>1. todo # <<>> /\ Head(todo).do = "delete_org"
  BY DEF DelOrg, Doing
<1>2. o \in Orgs /\ Lawful(Head(todo))
  BY <1>1, HeadTask, TaskNames DEF OrgTasks
<1>3. CASE o \notin disk.orgs \/ LeftAlone(<<o>>)
  BY <1>1, <1>3, SkipKeeps DEF DelOrg, Supports
<1>4. CASE ~(o \notin disk.orgs \/ LeftAlone(<<o>>))
  <2>1. PICK us \in SetToSeqs(UserNames(o)), gs \in SetToSeqs(GroupNames(o)) :
            Then(EachName("delete_user", o, us) \o EachName("delete_group", o, gs)
                 \o <<ForOrg("remove_org", o)>>)
    BY <1>4 DEF DelOrg
  <2>2. UNCHANGED <<disk, added>>
    BY <1>4 DEF DelOrg
  <2>3. job = "json" => o \notin conf.orgs
    BY <1>1, <1>2 DEF Lawful
  <2> HIDE DEF o
  <2>4. UserNames(o) \in SUBSET Users /\ GroupNames(o) \in SUBSET Groups
    BY DEF IInv, TypeOK, Stored, Accounts, UserNames, GroupNames
  <2>5. Simple(EachName("delete_user", o, us)) /\ Simple(EachName("delete_group", o, gs))
    BY <1>2, <2>4, EachNameIs, EachGroupIs
  <2>6. job = "json" => <<o>> \notin disk.marks
    BY <1>4, ImperativeOnes DEF LeftAlone
  <2>7. Simple(<<ForOrg("remove_org", o)>>)
    <3>1. ForOrg("remove_org", o) \in Tasks
      BY <1>2, TaskKinds DEF OrgTasks
    <3>2. Lawful(ForOrg("remove_org", o))
      BY <2>3, <2>6 DEF Lawful, ForOrg, Task
    <3> QED
      BY <3>1, <3>2, SimpleOnes DEF ForOrg, Task, Dependents
  <2>8. QueueInv'
    BY <1>1, <2>1, <2>2, <2>5, <2>7, SimpleLists, SimpleQueue DEF Supports
  <2> QED
    BY <2>1, <2>2, <2>8, SameDisk, ThenTypes DEF IInv
<1> QED
  BY <1>3, <1>4

LEMMA RemoveOrgKeeps == ASSUME IInv, RemoveOrg PROVE IInv'
<1> DEFINE o == Head(todo).org
<1>1. todo # <<>> /\ Head(todo).do = "remove_org"
  BY DEF RemoveOrg, Doing
<1>2. /\ disk' = [disk EXCEPT !.orgs = @ \ {o},
                              !.accounts = {a \in @ : a.org # o},
                              !.husks = {h \in @ : h[1] # o},
                              !.groups = {g \in @ : g[1] # o},
                              !.marks = {m \in @ : m[1] # o}]
      /\ Then(<<>>) /\ added' = added
  BY DEF RemoveOrg
<1> HIDE DEF o
<1>3. DiskOK' /\ disk'.marks \subseteq disk.marks /\ disk'.accounts \subseteq disk.accounts
  BY <1>2 DEF IInv, TypeOK, DiskOK, Stored
<1>4. Simple(<<>>) /\ added' \in 0 .. MaxUsers
  BY <1>2 DEF Simple, IInv, TypeOK
<1>5. QueueInv'
  BY <1>1, <1>2, <1>3, <1>4, SimpleQueue DEF Supports
<1> QED
  BY <1>2, <1>3, <1>4, <1>5, FewerAccounts, ThenTypes DEF IInv

LEMMA MarkKeeps == ASSUME IInv, Mark PROVE IInv'
<1>1. todo # <<>> /\ Head(todo).do = "mark"
  BY DEF Mark, Doing
<1>2. Head(todo).name \in Paths /\ job # "json"
  BY <1>1, HeadTask, TaskNames DEF Lawful
<1>3. /\ disk' = [disk EXCEPT !.marks = @ \cup {Head(todo).name}]
      /\ Then(<<>>) /\ added' = added
  BY DEF Mark
<1>4. DiskOK' /\ disk'.accounts = disk.accounts
  BY <1>2, <1>3 DEF IInv, TypeOK, DiskOK, Stored
<1>5. Simple(<<>>) /\ added' \in 0 .. MaxUsers
  BY <1>3 DEF Simple, IInv, TypeOK
<1>6. QueueInv'
  BY <1>1, <1>2, <1>3, <1>5, SimpleQueue DEF Supports
<1> QED
  BY <1>3, <1>4, <1>5, <1>6, FewerAccounts, ThenTypes DEF IInv

LEMMA AddGroupKeeps == ASSUME IInv, AddGroup PROVE IInv'
<1> DEFINE o == Head(todo).org
           g == Head(todo).name
<1>1. todo # <<>> /\ Head(todo).do = "add_group"
  BY DEF AddGroup, Doing
<1>2. o \in Orgs /\ g \in Groups
  BY <1>1, HeadTask, TaskNames DEF GroupTasks
<1>3. CASE <<o, g>> \in disk.groups
  BY <1>3, RefuseKeeps DEF AddGroup
<1>4. CASE <<o, g>> \notin disk.groups
  <2>1. /\ Then(ThenMark(<<o, g>>)) /\ added' = added
        /\ disk' = [disk EXCEPT !.groups = @ \cup {<<o, g>>}]
    BY <1>4 DEF AddGroup
  <2> HIDE DEF o, g
  <2>2. <<o, g>> \in Paths /\ <<o, g>>[1] = o
    BY <1>2 DEF Paths
  <2>3. DiskOK' /\ disk'.marks = disk.marks /\ disk'.accounts = disk.accounts
    BY <1>2, <2>1 DEF IInv, TypeOK, DiskOK, Stored
  <2>4. QueueInv'
    BY <1>1, <1>2, <2>1, <2>2, <2>3, MarkIsSimple, SimpleQueue DEF Supports
  <2>5. added' \in 0 .. MaxUsers
    BY <2>1 DEF IInv, TypeOK
  <2> QED
    BY <2>1, <2>3, <2>4, <2>5, FewerAccounts, ThenTypes DEF IInv
<1> QED
  BY <1>3, <1>4

LEMMA DelGroupKeeps == ASSUME IInv, DelGroup PROVE IInv'
<1> DEFINE o == Head(todo).org
           g == Head(todo).name
<1> SUFFICES ASSUME ~Raise PROVE IInv'
  BY RaiseKeeps
<1>1. todo # <<>> /\ Head(todo).do = "delete_group"
  BY DEF DelGroup, Doing
<1>2. CASE g \notin UserNames(o) \/ LeftAlone(<<o, g>>)
  BY <1>1, <1>2, SkipKeeps DEF DelGroup, Supports
<1>3. CASE ~(g \notin UserNames(o) \/ LeftAlone(<<o, g>>)) /\ <<o, g>> \notin disk.groups
  BY <1>3, RaiseKeeps DEF DelGroup
<1>4. CASE ~(g \notin UserNames(o) \/ LeftAlone(<<o, g>>)) /\ <<o, g>> \in disk.groups
  <2>1. /\ disk' = [disk EXCEPT !.groups = @ \ {<<o, g>>}, !.marks = @ \ {<<o, g>>}]
        /\ Then(<<>>) /\ added' = added
    BY <1>4 DEF DelGroup
  <2> HIDE DEF o, g
  <2>2. DiskOK' /\ disk'.marks \subseteq disk.marks /\ disk'.accounts = disk.accounts
    BY <2>1 DEF IInv, TypeOK, DiskOK, Stored
  <2>3. Simple(<<>>) /\ added' \in 0 .. MaxUsers
    BY <2>1 DEF Simple, IInv, TypeOK
  <2>4. QueueInv'
    BY <1>1, <2>1, <2>2, <2>3, SimpleQueue DEF Supports
  <2> QED
    BY <2>1, <2>2, <2>3, <2>4, FewerAccounts, ThenTypes DEF IInv
<1> QED
  BY <1>2, <1>3, <1>4

(* The tasks after a new account, each of which relies on the one before. *)
LEMMA KeyTasksAreChained ==
    ASSUME NEW o \in Orgs, NEW u \in Users, NEW i \in Ids, NEW keys,
           keys = <<Task("key_directory", o, u, i), Task("private_key", o, u, i),
                    Task("certificate", o, u, i)>>
    PROVE  /\ keys \in Seq(Tasks) /\ keys # <<>> /\ Chained(keys) /\ Fresh(keys)
           /\ \A k \in 1 .. Len(keys) : Lawful(keys[k])
<1> DEFINE a == Task("key_directory", o, u, i)
           b == Task("private_key", o, u, i)
           c == Task("certificate", o, u, i)
<1>1. a \in Tasks /\ b \in Tasks /\ c \in Tasks
  BY TaskKinds DEF KeyTasks
<1>2. /\ a.do = "key_directory" /\ b.do = "private_key" /\ c.do = "certificate"
      /\ a.org = b.org /\ a.name = b.name /\ b.org = c.org /\ b.name = c.name
  BY DEF Task
<1>3. keys = <<a, b, c>>
  OBVIOUS
<1> HIDE DEF a, b, c
<1>4. /\ keys \in Seq(Tasks) /\ keys # <<>>
      /\ keys[1] = a /\ keys[2] = b /\ keys[3] = c
      /\ \A k \in 1 .. Len(keys) : k = 1 \/ k = 2 \/ k = 3
  <2>1. keys \in Seq(Tasks)
    BY <1>1, <1>3
  <2>2. Len(keys) = 3
    BY <1>3
  <2>3. keys[1] = a /\ keys[2] = b /\ keys[3] = c
    BY <1>3
  <2>4. keys # <<>>
    BY <1>3
  <2>5. \A k \in 1 .. 3 : k = 1 \/ k = 2 \/ k = 3
    OBVIOUS
  <2> QED
    BY <2>1, <2>2, <2>3, <2>4, <2>5
<1>5. Supported(b, a) /\ Supported(c, b)
  BY <1>2 DEF Supported
<1>6. Chained(keys) /\ Fresh(keys)
  <2>1. ASSUME NEW k \in 1 .. Len(keys)
        PROVE  keys[k].do \in Dependents => k = 1 \/ Supported(keys[k], keys[k - 1])
    <3>1. CASE k = 2
      BY <3>1, <1>4, <1>5
    <3>2. CASE k = 3
      BY <3>2, <1>4, <1>5
    <3> QED
      BY <3>1, <3>2, <1>4
  <2> QED
    BY <1>2, <1>4, <2>1 DEF Chained, Fresh, Dependents
<1>7. Lawful(a) /\ Lawful(b) /\ Lawful(c)
  BY <1>2 DEF Lawful
<1> QED
  BY <1>4, <1>6, <1>7

LEMMA ChainedLists ==
    ASSUME NEW a, a \in Seq(Tasks), a # <<>>, Chained(a), Fresh(a),
           \A k \in 1 .. Len(a) : Lawful(a[k]),
           NEW b, Simple(b)
    PROVE  /\ a \o b \in Seq(Tasks) /\ a \o b # <<>> /\ Chained(a \o b) /\ Fresh(a \o b)
           /\ \A k \in 1 .. Len(a \o b) : Lawful((a \o b)[k])
<1>1. b \in Seq(Tasks)
  BY DEF Simple
<1>2. PICK l : l = a \o b
  OBVIOUS
<1>3. /\ l \in Seq(Tasks) /\ Len(l) = Len(a) + Len(b) /\ l # <<>> /\ l[1] = a[1]
      /\ \A k \in 1 .. Len(l) : \/ k \in 1 .. Len(a) /\ l[k] = a[k]
                                \/ k - Len(a) \in 1 .. Len(b) /\ l[k] = b[k - Len(a)]
      /\ \A k \in 1 .. Len(a) : k # 1 => k - 1 \in 1 .. Len(a) /\ l[k - 1] = a[k - 1]
  BY <1>1, <1>2
<1>4. ASSUME NEW k \in 1 .. Len(l)
      PROVE  Lawful(l[k]) /\ (l[k].do \in Dependents => k = 1 \/ Supported(l[k], l[k - 1]))
  <2>1. CASE k \in 1 .. Len(a) /\ l[k] = a[k]
    BY <2>1, <1>3 DEF Chained
  <2>2. CASE k - Len(a) \in 1 .. Len(b) /\ l[k] = b[k - Len(a)]
    BY <2>2 DEF Simple
  <2> QED
    BY <1>3, <2>1, <2>2
<1>5. Chained(l) /\ Fresh(l)
  BY <1>3, <1>4 DEF Chained, Fresh
<1> QED
  BY <1>2, <1>3, <1>4, <1>5

LEMMA AddUserKeeps == ASSUME IInv, AddUser PROVE IInv'
<1> DEFINE o == Head(todo).org
           u == Head(todo).name
           i == added + 1
<1> SUFFICES ASSUME ~Raise PROVE IInv'
  BY RaiseKeeps
<1>1. todo # <<>> /\ Head(todo).do = "add_user"
  BY DEF AddUser, Doing
<1>2. o \in Orgs /\ u \in Users
  BY <1>1, HeadTask, TaskNames DEF UserTasks
<1>3. CASE Taken(o, u)
  BY <1>3, RefuseKeeps DEF AddUser
<1>4. CASE ~Taken(o, u)
  <2> DEFINE a == [org |-> o, name |-> u, id |-> i]
             keys == <<Task("key_directory", o, u, i), Task("private_key", o, u, i),
                       Task("certificate", o, u, i)>>
  <2>1. /\ added < MaxUsers /\ added' = i
        /\ disk' = [disk EXCEPT !.accounts = @ \cup {a}]
        /\ Then((IF AutoConfig THEN keys ELSE <<>>) \o ThenMark(<<o, i>>))
    BY <1>4 DEF AddUser
  <2> HIDE DEF o, u, a, keys
  <2>2. i \in Ids /\ added' \in 0 .. MaxUsers
    <3>1. added \in Nat /\ added + 1 <= MaxUsers /\ MaxUsers \in Nat
      BY <2>1, Parameters DEF IInv, TypeOK
    <3> QED
      BY <2>1, <3>1 DEF Ids
  <2>3. a \in Accounts /\ a.org = o /\ a.name = u /\ a.id = i
    BY <1>2, <2>2 DEF Accounts, a
  <2>4. \A b \in disk.accounts : ~(b.org = o /\ b.name = u)
    BY <1>4 DEF Taken, UserNames
  <2>5. <<o, i>> \in Paths /\ <<o, i>>[1] = o
    BY <1>2, <2>2 DEF Paths
  <2>6. Simple(ThenMark(<<o, i>>))
    BY <1>2, <2>5, MarkIsSimple
  <2>7. disk'.accounts = disk.accounts \cup {a} /\ disk'.marks = disk.marks
    BY <2>1 DEF IInv, TypeOK, Stored
  <2>8. DiskOK'
    <3>1. disk' \in Stored
      BY <2>1, <2>3 DEF IInv, TypeOK, Stored
    <3>2. \A b \in disk'.accounts : b.id <= added'
      BY <2>1, <2>2, <2>3, <2>7, Parameters DEF IInv, TypeOK, Stored, Accounts, Ids
    <3>3. UNCHANGED <<disk.private, disk.keydirs, disk.cert>>
      BY <2>1 DEF IInv, TypeOK, Stored
    <3> QED
      BY <3>1, <3>2, <3>3 DEF IInv, TypeOK, DiskOK
  <2>9. OneAccountPerName'
    BY <2>3, <2>4, <2>7 DEF IInv, OneAccountPerName
  <2>10. QueueInv'
    <3>1. CASE AutoConfig
      <4>1. PICK tasks : tasks = keys \o ThenMark(<<o, i>>)
        OBVIOUS
      <4>2. /\ tasks \in Seq(Tasks) /\ tasks # <<>> /\ Chained(tasks) /\ Fresh(tasks)
            /\ \A k \in 1 .. Len(tasks) : Lawful(tasks[k])
        <5>1. /\ keys \in Seq(Tasks) /\ keys # <<>> /\ Chained(keys) /\ Fresh(keys)
              /\ \A k \in 1 .. Len(keys) : Lawful(keys[k])
          BY <1>2, <2>2, KeyTasksAreChained DEF keys
        <5> QED
          BY <2>6, <4>1, <5>1, ChainedLists
      <4>3. Then(tasks)
        BY <2>1, <3>1, <4>1
      <4>4. ASSUME NEW k \in 1 .. Len(tasks) PROVE Lawful(tasks[k])'
        <5>1. PICK t : t = tasks[k]
          OBVIOUS
        <5>2. Lawful(t)'
          BY <4>2, <4>3, <5>1, <2>7 DEF Lawful, Then
        <5> QED
          BY <5>1, <5>2 DEF Lawful
      <4> QED
        BY <1>1, <2>7, <4>2, <4>3, <4>4, ThenQueue DEF Supports
    <3>2. CASE ~AutoConfig
      <4>1. Simple(<<>>)
        BY DEF Simple
      <4> QED
        BY <1>1, <2>1, <2>6, <2>7, <3>2, <4>1, SimpleLists, SimpleQueue DEF Supports
    <3> QED
      BY <3>1, <3>2
  <2> QED
    BY <2>1, <2>2, <2>8, <2>9, <2>10, ThenTypes DEF IInv
<1> QED
  BY <1>3, <1>4

(* The task that follows one it relies on. *)
LEMMA Follower ==
    ASSUME IInv, todo # <<>>, NEW t, t = Head(Tail(todo)), Tail(todo) # <<>>,
           t.do \in Dependents
    PROVE  /\ t.org = Head(todo).org /\ t.name = Head(todo).name
           /\ t.do = "drop_keys"   => Head(todo).do = "revoke"
           /\ t.do = "private_key" => Head(todo).do = "key_directory"
           /\ t.do = "certificate" => Head(todo).do = "private_key"
BY NextTask DEF IInv, QueueInv, Supported

LEMMA MakeKeyDirKeeps == ASSUME IInv, MakeKeyDir PROVE IInv'
<1> DEFINE m == <<Head(todo).org, Head(todo).name>>
<1>1. todo # <<>> /\ Head(todo).do = "key_directory"
  BY DEF MakeKeyDir, Doing
<1>2. m \in Members
  BY <1>1, HeadTask, TaskNames DEF KeyTasks, Members
<1>3. CASE HasKeys(m)
  BY <1>3, RaiseKeeps DEF MakeKeyDir
<1>4. CASE ~HasKeys(m)
  <2>1. /\ disk' = [disk EXCEPT !.keydirs = @ \cup {m}]
        /\ Then(<<>>) /\ added' = added
    BY <1>4 DEF MakeKeyDir
  <2>2. /\ DiskOK' /\ disk'.accounts = disk.accounts /\ disk'.marks = disk.marks
        /\ disk'.cert = disk.cert /\ m \in disk'.keydirs /\ disk.cert[m] = 0
    BY <1>2, <1>4, <2>1 DEF IInv, TypeOK, DiskOK, Stored, HasKeys
  <2>3. PICK t : t = Head(Tail(todo))
    OBVIOUS
  <2>4. Tail(todo) # <<>> /\ t.do \in Dependents => Ready(t)'
    BY <1>1, <2>2, <2>3, Follower DEF Ready, Dependents
  <2>5. added' \in 0 .. MaxUsers
    BY <2>1 DEF IInv, TypeOK
  <2> QED
    BY <1>1, <2>1, <2>2, <2>3, <2>4, <2>5, FewerAccounts, ThenTypes, DoneQueue DEF IInv
<1> QED
  BY <1>3, <1>4

LEMMA GenerateKeyKeeps == ASSUME IInv, GenerateKey PROVE IInv'
<1> DEFINE m == <<Head(todo).org, Head(todo).name>>
<1>1. todo # <<>> /\ Head(todo).do = "private_key"
  BY DEF GenerateKey, Doing
<1>2. m \in Members /\ m \in disk.keydirs /\ disk.cert[m] = 0
  BY <1>1, HeadTask, TaskNames DEF KeyTasks, Members, Ready
<1>3. /\ disk' = [disk EXCEPT !.private = @ \cup {m}]
      /\ Then(<<>>) /\ added' = added
  BY DEF GenerateKey
<1>4. /\ DiskOK' /\ disk'.accounts = disk.accounts /\ disk'.marks = disk.marks
      /\ disk'.cert = disk.cert /\ m \in disk'.private
  BY <1>2, <1>3 DEF IInv, TypeOK, DiskOK, Stored
<1>5. PICK t : t = Head(Tail(todo))
  OBVIOUS
<1>6. Tail(todo) # <<>> /\ t.do \in Dependents => Ready(t)'
  BY <1>1, <1>2, <1>4, <1>5, Follower DEF Ready, Dependents
<1>7. added' \in 0 .. MaxUsers
  BY <1>3 DEF IInv, TypeOK
<1> QED
  BY <1>1, <1>3, <1>4, <1>5, <1>6, <1>7, FewerAccounts, ThenTypes, DoneQueue DEF IInv

LEMMA IssueCertKeeps == ASSUME IInv, IssueCert PROVE IInv'
<1> DEFINE m == <<Head(todo).org, Head(todo).name>>
           i == Head(todo).id
<1>1. todo # <<>> /\ Head(todo).do = "certificate"
  BY DEF IssueCert, Doing
<1>2. m \in Members /\ m \in disk.private /\ i \in Ids
  BY <1>1, HeadTask, TaskNames DEF KeyTasks, Members, Ready
<1>3. disk' = [disk EXCEPT !.cert[m] = i] /\ Then(<<>>) /\ added' = added
  BY DEF IssueCert
<1> HIDE DEF m, i
<1>4. DiskOK' /\ disk'.accounts = disk.accounts /\ disk'.marks = disk.marks
  BY <1>2, <1>3 DEF IInv, TypeOK, DiskOK, Stored
<1>5. Simple(<<>>) /\ added' \in 0 .. MaxUsers
  BY <1>3 DEF Simple, IInv, TypeOK
<1>6. QueueInv'
  BY <1>1, <1>3, <1>4, <1>5, SimpleQueue DEF Supports
<1> QED
  BY <1>3, <1>4, <1>5, <1>6, FewerAccounts, ThenTypes DEF IInv

LEMMA AfterAccountIs ==
    ASSUME NEW o \in Orgs, NEW u \in Users
    PROVE  /\ AfterAccount(o, u) \in Seq(Tasks) /\ AfterAccount(o, u) # <<>>
           /\ Chained(AfterAccount(o, u)) /\ Fresh(AfterAccount(o, u))
           /\ \A k \in 1 .. Len(AfterAccount(o, u)) : Lawful(AfterAccount(o, u)[k])
<1> DEFINE a == For("revoke", o, u)
           b == For("drop_keys", o, u)
<1>1. a \in Tasks /\ b \in Tasks
  BY TaskKinds DEF UserTasks
<1>2. a.do = "revoke" /\ b.do = "drop_keys" /\ a.org = b.org /\ a.name = b.name
  BY DEF For, Task
<1>3. PICK l : l = <<a, b>>
  OBVIOUS
<1>4. AfterAccount(o, u) = l
  BY <1>3 DEF AfterAccount
<1> HIDE DEF a, b
<1>5. l \in Seq(Tasks) /\ Len(l) = 2 /\ l[1] = a /\ l[2] = b /\ l # <<>>
  BY <1>1, <1>3
<1>6. Supported(b, a) /\ Lawful(a) /\ Lawful(b)
  BY <1>2 DEF Supported, Lawful
<1>7. \A k \in 1 .. 2 : k = 1 \/ k = 2
  OBVIOUS
<1>8. Chained(l) /\ Fresh(l)
  <2>1. ASSUME NEW k \in 1 .. Len(l)
        PROVE  k = 1 \/ Supported(l[k], l[k - 1])
    <3>1. CASE k = 2
      BY <3>1, <1>5, <1>6
    <3> QED
      BY <3>1, <1>5, <1>7
  <2> QED
    BY <1>2, <1>5, <2>1 DEF Chained, Fresh, Dependents
<1>9. \A k \in 1 .. Len(l) : Lawful(l[k])
  BY <1>5, <1>6, <1>7
<1> QED
  BY <1>4, <1>5, <1>8, <1>9

LEMMA DelUserKeeps == ASSUME IInv, DelUser PROVE IInv'
<1> DEFINE o == Head(todo).org
           u == Head(todo).name
<1> SUFFICES ASSUME ~Raise PROVE IInv'
  BY RaiseKeeps
<1>1. todo # <<>> /\ Head(todo).do = "delete_user"
  BY DEF DelUser, Doing
<1>2. o \in Orgs /\ u \in Users
  BY <1>1, HeadTask, TaskNames DEF UserTasks
<1>3. CASE Skip
  BY <1>1, <1>3, SkipKeeps DEF Supports
<1>4. CASE ~Skip
  <2>1. PICK a \in disk.accounts :
            /\ disk' = [disk EXCEPT !.accounts = @ \ {a}, !.marks = @ \ {<<o, a.id>>}]
            /\ Then(AfterAccount(o, u)) /\ added' = added
    BY <1>4 DEF DelUser
  <2> HIDE DEF o, u
  <2>2. DiskOK' /\ disk'.marks \subseteq disk.marks /\ disk'.accounts \subseteq disk.accounts
    BY <2>1 DEF IInv, TypeOK, DiskOK, Stored
  <2>3. PICK tasks : tasks = AfterAccount(o, u)
    OBVIOUS
  <2>4. /\ tasks \in Seq(Tasks) /\ tasks # <<>> /\ Chained(tasks) /\ Fresh(tasks)
        /\ \A k \in 1 .. Len(tasks) : Lawful(tasks[k])
    BY <1>2, <2>3, AfterAccountIs
  <2>5. ASSUME NEW k \in 1 .. Len(tasks) PROVE Lawful(tasks[k])'
    <3>1. PICK t : t = tasks[k]
      OBVIOUS
    <3>2. Lawful(t)'
      BY <2>1, <2>2, <2>3, <2>4, <3>1 DEF Lawful, Then
    <3> QED
      BY <3>1, <3>2 DEF Lawful
  <2>6. QueueInv'
    BY <1>1, <2>1, <2>2, <2>3, <2>4, <2>5, ThenQueue DEF Supports
  <2>7. added' \in 0 .. MaxUsers
    BY <2>1 DEF IInv, TypeOK
  <2> QED
    BY <2>1, <2>2, <2>6, <2>7, FewerAccounts, ThenTypes DEF IInv
<1> QED
  BY <1>3, <1>4

LEMMA RevokeKeeps == ASSUME IInv, Revoke PROVE IInv'
<1> DEFINE m == <<Head(todo).org, Head(todo).name>>
<1>1. todo # <<>> /\ Head(todo).do = "revoke"
  BY DEF Revoke, Doing
<1>2. m \in Members
  BY <1>1, HeadTask, TaskNames DEF UserTasks, Members
<1>3. CASE ~HasKeys(m) \/ disk.cert[m] = 0
  BY <1>3, RaiseKeeps DEF Revoke
<1>4. CASE ~(~HasKeys(m) \/ disk.cert[m] = 0)
  <2>1. /\ disk' = [disk EXCEPT !.crl = @ \cup {disk.cert[m]}]
        /\ Then(<<>>) /\ added' = added
    BY <1>4 DEF Revoke
  <2>2. /\ DiskOK' /\ disk'.accounts = disk.accounts /\ disk'.marks = disk.marks
        /\ disk'.cert = disk.cert /\ disk'.cert[m] \in disk'.crl
    BY <1>2, <1>4, <2>1 DEF IInv, TypeOK, DiskOK, Stored
  <2>3. PICK t : t = Head(Tail(todo))
    OBVIOUS
  <2>4. Tail(todo) # <<>> /\ t.do \in Dependents => Ready(t)'
    BY <1>1, <2>2, <2>3, Follower DEF Ready, Dependents
  <2>5. added' \in 0 .. MaxUsers
    BY <2>1 DEF IInv, TypeOK
  <2> QED
    BY <1>1, <2>1, <2>2, <2>3, <2>4, <2>5, FewerAccounts, ThenTypes, DoneQueue DEF IInv
<1> QED
  BY <1>3, <1>4

(* Removing the keys of a member leaves the others their certificates. *)
LEMMA WithoutKeysIs ==
    ASSUME IInv, NEW m \in Members, disk' = WithoutKeys(m), added' = added
    PROVE  /\ DiskOK' /\ disk'.accounts = disk.accounts /\ disk'.marks = disk.marks
           /\ \A n \in Members : n # m => disk'.cert[n] = disk.cert[n]
BY DEF IInv, TypeOK, DiskOK, Stored, WithoutKeys

LEMMA DropKeysKeeps == ASSUME IInv, DropKeys PROVE IInv'
<1> DEFINE m == <<Head(todo).org, Head(todo).name>>
<1>1. todo # <<>> /\ Head(todo).do = "drop_keys"
  BY DEF DropKeys, Doing
<1>2. m \in Members
  BY <1>1, HeadTask, TaskNames DEF UserTasks, Members
<1>3. disk' = WithoutKeys(m) /\ Then(<<>>) /\ added' = added
  BY DEF DropKeys
<1> HIDE DEF m
<1>4. DiskOK' /\ disk'.accounts = disk.accounts /\ disk'.marks = disk.marks
  BY <1>2, <1>3, WithoutKeysIs
<1>5. Simple(<<>>) /\ added' \in 0 .. MaxUsers
  BY <1>3 DEF Simple, IInv, TypeOK
<1>6. QueueInv'
  BY <1>1, <1>3, <1>4, <1>5, SimpleQueue DEF Supports
<1> QED
  BY <1>3, <1>4, <1>5, <1>6, FewerAccounts, ThenTypes DEF IInv

LEMMA FinishKeeps == ASSUME IInv, Finish PROVE IInv'
<1>1. DiskOK' /\ OneAccountPerName' /\ added' \in 0 .. MaxUsers
  BY SameDisk DEF Finish
<1>2. TypeOK'
  BY <1>1 DEF IInv, TypeOK, DiskOK, Finish, used
<1>3. QueueInv'
  BY DEF IInv, QueueInv, Chained, Finish
<1> QED
  BY <1>1, <1>2, <1>3 DEF IInv

LEMMA CommandFailsKeeps == ASSUME IInv, CommandFails PROVE IInv'
<1> DEFINE m == <<Head(todo).org, Head(todo).name>>
<1>1. Ends("failed") /\ todo # <<>> /\ added' = added
  BY DEF CommandFails, Failed, Ends
<1>2. clean' \in BOOLEAN /\ stops' \in 0 .. MaxStops
  <2>1. clean' \in BOOLEAN
    BY DEF CommandFails, Failed
  <2>2. stops \in Nat /\ stops < MaxStops /\ stops' = stops + 1 /\ MaxStops \in Nat
    BY Parameters DEF CommandFails, IInv, TypeOK
  <2> QED
    BY <2>1, <2>2
<1>3. DiskOK' /\ disk'.accounts = disk.accounts
  <2>1. CASE Head(todo).do \in {"private_key", "certificate"}
    <3>1. m \in Members
      BY <1>1, <2>1, HeadTask, TaskNames DEF KeyTasks, Members
    <3>2. disk' = WithoutKeys(m)
      BY <2>1 DEF CommandFails
    <3> QED
      BY <1>1, <3>1, <3>2, WithoutKeysIs
  <2>2. CASE Head(todo).do \notin {"private_key", "certificate"}
    <3>1. disk' = disk
      BY <2>2 DEF CommandFails
    <3> QED
      BY <1>1, <3>1, SameDisk
  <2> QED
    BY <2>1, <2>2
<1> QED
  BY <1>1, <1>2, <1>3, FewerAccounts, EndsTypes, EndsQueue DEF IInv

LEMMA KillKeeps == ASSUME IInv, Kill PROVE IInv'
<1>1. Ends("failed") /\ UNCHANGED <<disk, added>>
  BY DEF Kill, Killed, Ends
<1>2. clean' \in BOOLEAN /\ stops' \in 0 .. MaxStops
  <2>1. clean' \in BOOLEAN
    BY DEF Kill, Killed
  <2>2. stops \in Nat /\ stops < MaxStops /\ stops' = stops + 1 /\ MaxStops \in Nat
    BY Parameters DEF Kill, IInv, TypeOK
  <2> QED
    BY <2>1, <2>2
<1> QED
  BY <1>1, <1>2, SameDisk, EndsTypes, EndsQueue DEF IInv

(* A kill within rmtree leaves any of the files. *)
LEMMA KillInDropKeysIs ==
    ASSUME IInv, KillInDropKeys
    PROVE  \E m \in Members :
               /\ disk.cert[m] = 0 \/ disk.cert[m] \in disk.crl
               /\ \A n \in Members : n # m => disk'.cert[n] = disk.cert[n]
               /\ disk'.cert[m] \in {0, disk.cert[m]}
               /\ DiskOK' /\ Killed /\ disk'.crl = disk.crl
               /\ disk'.orgs = disk.orgs /\ disk'.accounts = disk.accounts
               /\ disk'.marks = disk.marks
<1> DEFINE m == <<Head(todo).org, Head(todo).name>>
<1>1. todo # <<>> /\ Head(todo).do = "drop_keys" /\ Killed /\ added' = added
  BY DEF KillInDropKeys, Doing, Killed, Ends
<1>2. m \in Members /\ (disk.cert[m] = 0 \/ disk.cert[m] \in disk.crl)
  BY <1>1, HeadTask, TaskNames DEF UserTasks, Members, Ready
<1>3. PICK key \in SUBSET {m}, cert \in {0, disk.cert[m]} :
          disk' = [disk EXCEPT !.private = @ \ key, !.cert[m] = cert]
  BY DEF KillInDropKeys
<1> HIDE DEF m
<1>4. /\ \A n \in Members : n # m => disk'.cert[n] = disk.cert[n]
      /\ disk'.cert[m] = cert /\ disk'.crl = disk.crl /\ disk'.keydirs = disk.keydirs
      /\ disk'.orgs = disk.orgs /\ disk'.accounts = disk.accounts
      /\ disk'.marks = disk.marks /\ disk'.private \subseteq disk.private
      /\ disk' \in Stored
  BY <1>2, <1>3 DEF IInv, TypeOK, Stored
<1>5. DiskOK'
  BY <1>1, <1>2, <1>4 DEF IInv, TypeOK, DiskOK
<1> QED
  BY <1>1, <1>2, <1>4, <1>5

LEMMA KillInDelUserIs ==
    ASSUME IInv, KillInDelUser
    PROVE  /\ DiskOK' /\ Ends("failed") /\ clean' = FALSE
           /\ disk'.cert = disk.cert /\ disk'.crl = disk.crl
           /\ disk'.orgs = disk.orgs /\ disk'.accounts \subseteq disk.accounts
           /\ job = "json" => disk'.marks = disk.marks
<1>1. PICK a \in disk.accounts :
          /\ ~LeftAlone(<<a.org, a.id>>)
          /\ \E mark \in SUBSET {<<a.org, a.id>>} :
                \/ disk' = [disk EXCEPT !.marks = @ \ mark]
                \/ disk' = [disk EXCEPT !.marks = @ \ mark, !.accounts = @ \ {a},
                                        !.husks = @ \cup {<<a.org, a.id>>}]
  BY DEF KillInDelUser
<1> PICK mark \in SUBSET {<<a.org, a.id>>} :
          \/ disk' = [disk EXCEPT !.marks = @ \ mark]
          \/ disk' = [disk EXCEPT !.marks = @ \ mark, !.accounts = @ \ {a},
                                  !.husks = @ \cup {<<a.org, a.id>>}]
  BY <1>1
<1>2. Ends("failed") /\ clean' = FALSE /\ added' = added
  BY DEF KillInDelUser, Killed, Ends
<1>3. <<a.org, a.id>> \in Orgs \X Ids
  BY DEF IInv, TypeOK, Stored, Accounts
<1>4. /\ disk'.cert = disk.cert /\ disk'.crl = disk.crl /\ disk'.keydirs = disk.keydirs
      /\ disk'.orgs = disk.orgs /\ disk'.accounts \subseteq disk.accounts
      /\ disk'.marks = disk.marks \ mark /\ disk'.private = disk.private
      /\ disk' \in Stored
  <2>1. CASE disk' = [disk EXCEPT !.marks = @ \ mark]
    BY <2>1 DEF IInv, TypeOK, Stored
  <2>2. CASE disk' = [disk EXCEPT !.marks = @ \ mark, !.accounts = @ \ {a},
                                  !.husks = @ \cup {<<a.org, a.id>>}]
    BY <1>3, <2>2 DEF IInv, TypeOK, Stored
  <2> QED
    BY <2>1, <2>2
<1>5. DiskOK'
  BY <1>2, <1>4 DEF IInv, TypeOK, DiskOK
<1>6. job = "json" => <<a.org, a.id>> \notin disk.marks
  BY <1>1, ImperativeOnes DEF LeftAlone
<1> QED
  BY <1>2, <1>4, <1>5, <1>6

LEMMA KillInRmtreeKeeps == ASSUME IInv, KillInDropKeys \/ KillInDelUser PROVE IInv'
<1>1. /\ Ends("failed") /\ DiskOK' /\ disk'.accounts \subseteq disk.accounts
      /\ clean' \in BOOLEAN
  <2>1. CASE KillInDropKeys
    BY <2>1, KillInDropKeysIs DEF Killed
  <2>2. CASE KillInDelUser
    BY <2>2, KillInDelUserIs
  <2> QED
    BY <2>1, <2>2
<1>2. stops' \in 0 .. MaxStops
  <2>1. stops < MaxStops /\ stops' = stops + 1
    BY DEF KillInDropKeys, KillInDelUser
  <2>2. stops \in Nat /\ MaxStops \in Nat
    BY Parameters DEF IInv, TypeOK
  <2> QED
    BY <2>1, <2>2
<1> QED
  BY <1>1, <1>2, FewerAccounts, EndsTypes, EndsQueue DEF IInv

LEMMA OneTaskBegins ==
    ASSUME IInv, NEW who \in Jobs, NEW t \in Tasks, t.do \notin Dependents,
           who = "json" => t.do \in PlanTasks, Begin(who, <<t>>), conf' \in Configs
    PROVE  IInv'
<1>1. PICK tasks : tasks = <<t>>
  OBVIOUS
<1>2. tasks \in Seq(Tasks) /\ Len(tasks) = 1 /\ tasks[1] = t
  BY <1>1
<1>3. Chained(tasks) /\ Fresh(tasks)
  BY <1>2 DEF Chained, Fresh
<1>4. who = "json" => \A k \in 1 .. Len(tasks) : tasks[k].do \in PlanTasks
  <2>1. \A k \in 1 .. Len(tasks) : k = 1
    BY <1>2
  <2> QED
    BY <1>2, <2>1
<1>5. Begin(who, tasks)
  BY <1>1
<1> QED
  BY <1>2, <1>3, <1>4, <1>5, BeginKeeps

LEMMA InvocationKeeps ==
    ASSUME IInv, ProcessJson \/ OrgCommand \/ UserCommand \/ GroupCommand PROVE IInv'
<1>1. CASE ProcessJson
  <2>1. PICK c \in Configs : Begin("json", <<Task("orgs", 0, 0, 0)>>) /\ conf' = c
    BY <1>1 DEF ProcessJson
  <2>2. Task("orgs", 0, 0, 0) \in Tasks
    BY TaskKinds DEF PlanTasks
  <2>3. Task("orgs", 0, 0, 0).do = "orgs"
    BY DEF Task
  <2> QED
    BY <2>1, <2>2, <2>3, OneTaskBegins DEF Jobs, PlanTasks, Dependents
<1>2. CASE OrgCommand
  <2>1. PICK o \in Orgs, cmd \in {"add_org", "delete_org"} :
            Begin("cli", <<ForOrg(cmd, o)>>) /\ conf' = conf
    BY <1>2 DEF OrgCommand
  <2>2. ForOrg(cmd, o) \in Tasks
    BY TaskKinds DEF OrgTasks
  <2>3. ForOrg(cmd, o).do = cmd
    BY DEF ForOrg, Task
  <2> QED
    BY <2>1, <2>2, <2>3, OneTaskBegins DEF Jobs, Dependents, IInv, TypeOK
<1>3. CASE UserCommand
  <2>1. PICK o \in disk.orgs, u \in Users, cmd \in {"add_user", "delete_user"} :
            Begin("cli", <<For(cmd, o, u)>>) /\ conf' = conf
    BY <1>3 DEF UserCommand
  <2>2. o \in Orgs
    BY DEF IInv, TypeOK, Stored
  <2>3. For(cmd, o, u) \in Tasks
    BY <2>2, TaskKinds DEF UserTasks
  <2>4. For(cmd, o, u).do = cmd
    BY DEF For, Task
  <2> QED
    BY <2>1, <2>3, <2>4, OneTaskBegins DEF Jobs, Dependents, IInv, TypeOK
<1>4. CASE GroupCommand
  <2>1. PICK o \in disk.orgs, g \in Groups :
            /\ \/ Begin("cli", <<For("add_group", o, g)>>)
               \/ Begin("cli", <<For("delete_group", o, g), For("raise", o, g)>>)
            /\ conf' = conf
    BY <1>4 DEF GroupCommand
  <2>2. o \in Orgs
    BY DEF IInv, TypeOK, Stored
  <2>3. /\ For("add_group", o, g) \in Tasks /\ For("delete_group", o, g) \in Tasks
        /\ For("raise", o, g) \in Tasks
    BY <2>2, TaskKinds DEF GroupTasks
  <2>4. /\ For("add_group", o, g).do = "add_group"
        /\ For("delete_group", o, g).do = "delete_group"
        /\ For("raise", o, g).do = "raise"
    BY DEF For, Task
  <2>5. CASE Begin("cli", <<For("add_group", o, g)>>)
    BY <2>1, <2>3, <2>4, <2>5, OneTaskBegins DEF Jobs, Dependents, IInv, TypeOK
  <2>6. CASE Begin("cli", <<For("delete_group", o, g), For("raise", o, g)>>)
    <3>1. PICK a, b : a = For("delete_group", o, g) /\ b = For("raise", o, g)
      OBVIOUS
    <3>2. PICK tasks : tasks = <<a, b>>
      OBVIOUS
    <3>3. /\ tasks \in Seq(Tasks) /\ Len(tasks) = 2 /\ tasks[1] = a /\ tasks[2] = b
      BY <2>3, <3>1, <3>2
    <3>4. a.do \notin Dependents /\ b.do \notin Dependents
      BY <2>4, <3>1 DEF Dependents
    <3>5. \A k \in 1 .. 2 : k = 1 \/ k = 2
      OBVIOUS
    <3>6. Chained(tasks) /\ Fresh(tasks)
      BY <3>3, <3>4, <3>5 DEF Chained, Fresh
    <3>7. Begin("cli", tasks) /\ conf' \in Configs /\ "cli" \in Jobs
      BY <2>1, <2>6, <3>1, <3>2 DEF Jobs, IInv, TypeOK
    <3> QED
      BY <3>3, <3>6, <3>7, BeginKeeps
  <2> QED
    BY <2>1, <2>5, <2>6
<1> QED
  BY <1>1, <1>2, <1>3, <1>4

LEMMA NextKeeps == IInv /\ [Next]_vars => IInv'
<1> SUFFICES ASSUME IInv, [Next]_vars PROVE IInv'
  OBVIOUS
<1>1. CASE ProcessJson \/ OrgCommand \/ UserCommand \/ GroupCommand
  BY <1>1, InvocationKeeps
<1>2. CASE Step
  BY <1>2, DiffOrgsKeeps, DiffMembersKeeps, DiffUsersKeeps, DiffGroupsKeeps, AddOrgKeeps,
     DelOrgKeeps, RemoveOrgKeeps, MarkKeeps, AddGroupKeeps, DelGroupKeeps, RaiseKeeps,
     AddUserKeeps, MakeKeyDirKeeps, GenerateKeyKeeps, IssueCertKeeps, DelUserKeeps,
     RevokeKeeps, DropKeysKeeps, FinishKeeps DEF Step, GroupRemoved
<1>3. CASE CommandFails \/ Kill \/ KillInDropKeys \/ KillInDelUser
  BY <1>3, CommandFailsKeeps, KillKeeps, KillInRmtreeKeeps
<1>4. CASE UNCHANGED vars
  BY <1>4 DEF vars, IInv, TypeOK, QueueInv, Ready, Lawful, OneAccountPerName
<1> QED
  BY <1>1, <1>2, <1>3, <1>4 DEF Next

LEMMA Invariance == Spec => []IInv
BY InitInv, NextKeeps, PTL DEF Spec

-----------------------------------------------------------------------------
(* Theorems.                                                               *)

(* Every variable keeps its type, and keys and certificates are in directories
   that exist, wherever rmtree is killed (generate_key, revoke_key). *)
THEOREM TypeCorrect == Spec => []TypeOK
<1>1. IInv => TypeOK
  BY DEF IInv
<1> QED
  BY <1>1, Invariance, PTL

(* No organisation ever has two users of one name, whatever is killed and
   repeated, and whoever calls (Organisation.users, add_user). *)
THEOREM NamesAreUnique == Spec => []OneAccountPerName
<1>1. IInv => OneAccountPerName
  BY DEF IInv
<1> QED
  BY <1>1, Invariance, PTL

(* In every step, a certificate that leaves the disk or is replaced is on the
   revocation list (revoke_key, generate_key). *)
THEOREM NeverUnrevoked == Spec => RevokedBeforeRemoved
<1> DEFINE Kept == \A m \in Members :
                       disk.cert[m] # 0 /\ disk'.cert[m] # disk.cert[m]
                           => disk.cert[m] \in disk'.crl
<1>1. ASSUME IInv, [Next]_vars PROVE Kept
  <2>1. CASE disk' = disk
    BY <2>1
  <2>2. CASE disk' # disk
    <3>1. \/ AddOrg \/ RemoveOrg \/ Mark \/ AddGroup \/ DelGroup \/ AddUser
          \/ MakeKeyDir \/ GenerateKey \/ IssueCert \/ DelUser \/ Revoke \/ DropKeys
          \/ CommandFails \/ KillInDropKeys \/ KillInDelUser
      BY <1>1, <2>2 DEF Next, Step, vars, ProcessJson, OrgCommand, UserCommand,
         GroupCommand, Begin, DiffOrgs, DiffMembers, DiffUsers, DiffGroups, DelOrg, Skip,
         GroupRemoved, Raise, Finish, Kill
    <3>2. CASE \/ AddOrg \/ RemoveOrg \/ Mark \/ AddGroup \/ DelGroup \/ AddUser
               \/ MakeKeyDir \/ GenerateKey \/ DelUser \/ Revoke
      <4>1. disk'.cert = disk.cert
        BY <1>1, <2>2, <3>2 DEF AddOrg, RemoveOrg, Mark, AddGroup, DelGroup, AddUser,
           MakeKeyDir, GenerateKey, DelUser, Revoke, Skip, Refuse, Raise, IInv, TypeOK, Stored
      <4> QED
        BY <4>1
    <3>3. CASE IssueCert
      <4> DEFINE m == <<Head(todo).org, Head(todo).name>>
      <4>1. todo # <<>> /\ Head(todo).do = "certificate"
        BY <3>3 DEF IssueCert, Doing
      <4>2. m \in Members /\ disk.cert[m] = 0
        BY <1>1, <4>1, HeadTask, TaskNames DEF KeyTasks, Members, Ready
      <4>3. disk' = [disk EXCEPT !.cert[m] = Head(todo).id]
        BY <3>3 DEF IssueCert
      <4> HIDE DEF m
      <4>4. \A n \in Members : n # m => disk'.cert[n] = disk.cert[n]
        BY <1>1, <4>2, <4>3 DEF IInv, TypeOK, Stored
      <4> QED
        BY <4>2, <4>4
    <3>4. CASE DropKeys
      <4> DEFINE m == <<Head(todo).org, Head(todo).name>>
      <4>1. todo # <<>> /\ Head(todo).do = "drop_keys"
        BY <3>4 DEF DropKeys, Doing
      <4>2. m \in Members /\ (disk.cert[m] = 0 \/ disk.cert[m] \in disk.crl)
        BY <1>1, <4>1, HeadTask, TaskNames DEF UserTasks, Members, Ready
      <4>3. disk' = WithoutKeys(m) /\ added' = added
        BY <3>4 DEF DropKeys
      <4> HIDE DEF m
      <4>4. /\ \A n \in Members : n # m => disk'.cert[n] = disk.cert[n]
            /\ disk'.crl = disk.crl
        BY <1>1, <4>2, <4>3, WithoutKeysIs DEF WithoutKeys, IInv, TypeOK, Stored
      <4> QED
        BY <4>2, <4>4
    <3>5. CASE CommandFails
      <4> DEFINE m == <<Head(todo).org, Head(todo).name>>
      <4>1. /\ todo # <<>> /\ Head(todo).do \in {"private_key", "certificate"}
            /\ disk' = WithoutKeys(m) /\ added' = added
        BY <2>2, <3>5 DEF CommandFails, Failed, Ends
      <4>2. m \in Members /\ disk.cert[m] = 0
        BY <1>1, <4>1, HeadTask, TaskNames DEF KeyTasks, Members, Ready
      <4> HIDE DEF m
      <4>3. \A n \in Members : n # m => disk'.cert[n] = disk.cert[n]
        BY <1>1, <4>1, <4>2, WithoutKeysIs
      <4> QED
        BY <4>2, <4>3
    <3>6. CASE KillInDropKeys \/ KillInDelUser
      BY <1>1, <3>6, KillInDropKeysIs, KillInDelUserIs
    <3> QED
      BY <3>1, <3>2, <3>3, <3>4, <3>5, <3>6
  <2> QED
    BY <2>1, <2>2
<1>2. IInv /\ [Next]_vars => [Kept]_vars
  BY <1>1
<1> QED
  BY <1>2, Invariance, PTL DEF Spec, RevokedBeforeRemoved

(* In every step of process-json, what is marked stays, unless it belongs to an
   organisation without a mark that is no longer declared (del_org, del_user,
   del_group, is_imperative). *)
THEOREM MarksSurvive == Spec => MarkedSurvive
<1> DEFINE Kept == job' = "json" =>
                      \A p \in disk.marks :
                          p \in disk'.marks \/ (Len(p) > 1 /\ p[1] \notin conf.orgs)
<1>1. ASSUME IInv, [Next]_vars PROVE Kept
  <2>1. CASE disk'.marks = disk.marks
    BY <2>1
  <2>2. CASE disk'.marks # disk.marks
    <3>1. RemoveOrg \/ Mark \/ DelGroup \/ DelUser \/ KillInDelUser
      <4>1. disk' # disk
        BY <2>2
      <4>2. \/ AddOrg \/ RemoveOrg \/ Mark \/ AddGroup \/ DelGroup \/ AddUser
            \/ MakeKeyDir \/ GenerateKey \/ IssueCert \/ DelUser \/ Revoke \/ DropKeys
            \/ CommandFails \/ KillInDropKeys \/ KillInDelUser
        BY <1>1, <4>1 DEF Next, Step, vars, ProcessJson, OrgCommand, UserCommand,
           GroupCommand, Begin, DiffOrgs, DiffMembers, DiffUsers, DiffGroups, DelOrg, Skip,
           GroupRemoved, Raise, Finish, Kill
      <4>3. CASE AddOrg \/ AddGroup \/ AddUser \/ MakeKeyDir \/ GenerateKey \/ IssueCert
        BY <1>1, <2>2, <4>1, <4>3 DEF AddOrg, AddGroup, AddUser, MakeKeyDir, GenerateKey,
           IssueCert, Refuse, Raise, IInv, TypeOK, Stored
      <4>4. CASE Revoke \/ DropKeys \/ CommandFails
        BY <1>1, <2>2, <4>1, <4>4 DEF Revoke, DropKeys, CommandFails, Raise, WithoutKeys, IInv,
           TypeOK, Stored
      <4>5. CASE KillInDropKeys
        BY <1>1, <2>2, <4>5, KillInDropKeysIs
      <4> QED
        BY <4>2, <4>3, <4>4, <4>5
    <3>2. job' = job /\ todo # <<>>
      BY <3>1 DEF RemoveOrg, Mark, DelGroup, DelUser, KillInDelUser, Doing, Then, Skip, Raise, Failed, Killed, Ends
    <3>3. CASE RemoveOrg
      <4> DEFINE o == Head(todo).org
      <4>1. Head(todo).do = "remove_org" /\ disk'.marks = {p \in disk.marks : p[1] # o}
        BY <1>1, <3>3 DEF RemoveOrg, Doing, IInv, TypeOK, Stored
      <4>2. job = "json" => o \notin conf.orgs /\ <<o>> \notin disk.marks
        BY <1>1, <3>2, <4>1, HeadTask DEF Lawful
      <4> HIDE DEF o
      <4>3. ASSUME NEW p \in disk.marks, p[1] = o, p # <<o>> PROVE Len(p) > 1
        <5>1. p \in Paths
          BY <1>1 DEF IInv, TypeOK, Stored
        <5>2. CASE p \in {<<q>> : q \in Orgs}
          BY <4>3, <5>2
        <5>3. CASE p \in (Orgs \X Ids) \cup (Orgs \X Groups)
          <6>1. PICK q, r : p = <<q, r>>
            BY <5>3
          <6>2. p \in Seq({q, r}) /\ Len(p) = 2
            BY <6>1
          <6> QED
            BY <6>1, <6>2
        <5> QED
          BY <5>1, <5>2, <5>3 DEF Paths
      <4> QED
        BY <3>2, <4>1, <4>2, <4>3
    <3>4. CASE Mark
      BY <1>1, <3>4 DEF Mark, IInv, TypeOK, Stored
    <3>5. CASE DelGroup
      <4> DEFINE path == <<Head(todo).org, Head(todo).name>>
      <4>1. ~LeftAlone(path) /\ disk'.marks = disk.marks \ {path}
        BY <1>1, <2>2, <3>5 DEF DelGroup, Skip, Raise, IInv, TypeOK, Stored
      <4>2. job = "json" => path \notin disk.marks
        BY <4>1, ImperativeOnes DEF LeftAlone
      <4> QED
        BY <3>2, <4>1, <4>2
    <3>6. CASE DelUser
      <4>1. PICK a \in disk.accounts :
                /\ ~LeftAlone(<<Head(todo).org, a.id>>)
                /\ disk'.marks = disk.marks \ {<<Head(todo).org, a.id>>}
        BY <1>1, <2>2, <3>6 DEF DelUser, Skip, Raise, IInv, TypeOK, Stored
      <4>2. job = "json" => <<Head(todo).org, a.id>> \notin disk.marks
        BY <4>1, ImperativeOnes DEF LeftAlone
      <4> QED
        BY <3>2, <4>1, <4>2
    <3>7. CASE KillInDelUser
      BY <1>1, <2>2, <3>2, <3>7, KillInDelUserIs
    <3> QED
      BY <3>1, <3>3, <3>4, <3>5, <3>6, <3>7
  <2> QED
    BY <2>1, <2>2
<1>2. IInv /\ [Next]_vars => [Kept]_vars
  BY <1>1
<1> QED
  BY <1>2, Invariance, PTL DEF Spec, MarkedSurvive

-----------------------------------------------------------------------------
(* Whose certificate it is: names may be used again, ids are not.          *)

Names(x) == <<x.org, x.name>>

IdsInv ==
    /\ \A x, y \in disk.accounts : x.id = y.id => x = y
    /\ \A m \in Members : disk.cert[m] <= added
    /\ \A i \in disk.crl : i <= added
    /\ \A m \in Members : \A x \in disk.accounts : disk.cert[m] = x.id => m = Names(x)

(* The task that makes the next of an account's three files. *)
Follows(next, t) ==
    /\ next.org = t.org /\ next.name = t.name /\ next.id = t.id
    /\ t.do = "key_directory" => next.do = "private_key"
    /\ t.do = "private_key"   => next.do = "certificate"

Complete(s) ==
    \A k \in 1 .. Len(s) :
        s[k].do \in {"key_directory", "private_key"} => k < Len(s) /\ Follows(s[k + 1], s[k])

RevokeIsFirst(s) == \A k \in 1 .. Len(s) : s[k].do = "revoke" => k = 1

(* An id is given away once. *)
Known(t) ==
    t.do \in KeyTasks =>
        /\ t.id <= added
        /\ \A x \in disk.accounts : x.id = t.id => x.org = t.org /\ x.name = t.name

AllKnown == \A k \in 1 .. Len(todo) : Known(todo[k])

KeyList == Complete(todo) /\ RevokeIsFirst(todo) /\ AllKnown

(* Keys are taken from nobody. *)
Gone ==
    todo # <<>> /\ Head(todo).do \in {"revoke", "drop_keys"} =>
        \A x \in disk.accounts : ~(x.org = Head(todo).org /\ x.name = Head(todo).name)

Certified(x) ==
    Names(x) \in disk.private /\ disk.cert[Names(x)] = x.id /\ x.id \notin disk.crl

(* The account whose keys are being made. *)
Building(x) ==
    /\ todo # <<>> /\ Head(todo).do \in KeyTasks
    /\ Head(todo).org = x.org /\ Head(todo).name = x.name /\ Head(todo).id = x.id

CertInv ==
    AutoConfig /\ clean =>
        \A x \in disk.accounts : Certified(x) \/ (Building(x) /\ x.id \notin disk.crl)

KeyInv == IdsInv /\ KeyList /\ Gone /\ CertInv

CInv == IInv /\ KeyInv

(* Tasks that concern no keys. *)
Plain(tasks) ==
    /\ tasks \in Seq(Tasks)
    /\ \A k \in 1 .. Len(tasks) : tasks[k].do \notin KeyTasks \cup {"revoke", "drop_keys"}

LEMMA FrontKeys ==
    ASSUME NEW s \in Seq(Tasks), s # <<>>, NEW front \in Seq(Tasks),
           Complete(s), RevokeIsFirst(s), Complete(front), RevokeIsFirst(front)
    PROVE  Complete(front \o Tail(s)) /\ RevokeIsFirst(front \o Tail(s))
<1> DEFINE l == front \o Tail(s)
<1>1. /\ l \in Seq(Tasks) /\ Len(l) = Len(front) + Len(s) - 1
      /\ \A k \in 1 .. Len(l) :
            l[k] = IF k <= Len(front) THEN front[k] ELSE s[k - Len(front) + 1]
  BY PutInFront
<1>2. Len(front) \in Nat /\ Len(s) \in Nat
  OBVIOUS
<1> HIDE DEF l
<1>3. ASSUME NEW k \in 1 .. Len(l)
      PROVE  /\ l[k].do = "revoke" => k = 1
             /\ l[k].do \in {"key_directory", "private_key"}
                   => k < Len(l) /\ Follows(l[k + 1], l[k])
  <2>1. CASE k <= Len(front)
    <3>1. l[k] = front[k] /\ k \in 1 .. Len(front)
      BY <1>1, <1>2, <2>1
    <3>2. k < Len(front) => k < Len(l) /\ k + 1 \in 1 .. Len(l) /\ l[k + 1] = front[k + 1]
      <4>1. k < Len(front) => k < Len(l) /\ k + 1 \in 1 .. Len(l) /\ k + 1 <= Len(front)
        BY <1>1, <1>2
      <4> QED
        BY <4>1, <1>1
    <3> QED
      BY <3>1, <3>2 DEF Complete, RevokeIsFirst
  <2>2. CASE k > Len(front)
    <3> DEFINE j == k - Len(front) + 1
    <3>1. l[k] = s[j] /\ j \in 2 .. Len(s)
      BY <1>1, <1>2, <2>2
    <3>2. j < Len(s) => k < Len(l) /\ k + 1 \in 1 .. Len(l) /\ l[k + 1] = s[j + 1]
      <4>1. j < Len(s) => /\ k < Len(l) /\ k + 1 \in 1 .. Len(l) /\ ~(k + 1 <= Len(front))
                          /\ (k + 1) - Len(front) + 1 = j + 1
        BY <1>1, <1>2, <2>2
      <4> QED
        BY <4>1, <1>1
    <3> HIDE DEF j
    <3> QED
      BY <3>1, <3>2 DEF Complete, RevokeIsFirst
  <2> QED
    BY <2>1, <2>2, <1>2
<1>4. Complete(l) /\ RevokeIsFirst(l)
  BY <1>3 DEF Complete, RevokeIsFirst
<1> QED
  BY <1>4 DEF l

LEMMA FrontKnown ==
    ASSUME CInv, todo # <<>>, NEW tasks \in Seq(Tasks), Then(tasks),
           \A x \in disk'.accounts : x \in disk.accounts \/ x.id > added,
           added' \in Nat, added <= added',
           disk' \in Stored,
           \A k \in 1 .. Len(tasks) : Known(tasks[k])'
    PROVE  AllKnown'
<1>1. todo \in Seq(Tasks)
  BY DEF CInv, IInv, QueueInv
<1>2. /\ todo' = tasks \o Tail(todo) /\ todo' \in Seq(Tasks)
      /\ Len(todo') = Len(tasks) + Len(todo) - 1
      /\ \A k \in 1 .. Len(todo') :
            todo'[k] = IF k <= Len(tasks) THEN tasks[k] ELSE todo[k - Len(tasks) + 1]
  BY <1>1, PutInFront DEF Then
<1>3. Len(tasks) \in Nat /\ Len(todo) \in Nat
  BY <1>1
<1>4. ASSUME NEW k \in 1 .. Len(todo') PROVE Known(todo[k])'
  <2>1. CASE k <= Len(tasks)
    <3>1. todo'[k] = tasks[k] /\ k \in 1 .. Len(tasks)
      BY <2>1, <1>2, <1>3
    <3> QED
      BY <3>1 DEF Known
  <2>2. CASE k > Len(tasks)
    <3>1. k - Len(tasks) + 1 \in 1 .. Len(todo)
      BY <2>2, <1>2, <1>3
    <3>2. PICK t : t = todo[k - Len(tasks) + 1]
      OBVIOUS
    <3>3. Known(t) /\ t \in Tasks
      BY <1>1, <3>1, <3>2 DEF CInv, KeyInv, KeyList, AllKnown
    <3>4. Known(t)'
      <4>1. added \in Nat /\ (t.do \in KeyTasks => t.id \in Nat)
        BY <3>3, TaskNames DEF CInv, IInv, TypeOK, Ids
      <4>2. \A x \in disk'.accounts : x.id \in Nat
        BY DEF Stored, Accounts, Ids
      <4>3. t.do \in KeyTasks => t.id <= added'
        BY <3>3, <4>1 DEF Known
      <4>4. ASSUME t.do \in KeyTasks, NEW x \in disk'.accounts, x.id = t.id
            PROVE  x.org = t.org /\ x.name = t.name
        <5>1. x \in disk.accounts
          BY <3>3, <4>1, <4>2, <4>4 DEF Known
        <5> QED
          BY <3>3, <4>4, <5>1 DEF Known
      <4> QED
        BY <4>3, <4>4 DEF Known
    <3>5. t = todo'[k]
      BY <3>2, <2>2, <1>2, <1>3
    <3> QED
      BY <3>4, <3>5 DEF Known
  <2> QED
    BY <2>1, <2>2, <1>3
<1> QED
  BY <1>4 DEF AllKnown

LEMMA PlainKeys ==
    ASSUME NEW tasks, Plain(tasks)
    PROVE  /\ tasks \in Seq(Tasks) /\ Complete(tasks) /\ RevokeIsFirst(tasks)
           /\ \A k \in 1 .. Len(tasks) : Known(tasks[k])'
BY DEF Plain, Complete, RevokeIsFirst, Known, KeyTasks

LEMMA PlainLists ==
    ASSUME NEW a, NEW b, Plain(a), Plain(b)
    PROVE  Plain(a \o b)
<1>1. a \in Seq(Tasks) /\ b \in Seq(Tasks)
  BY DEF Plain
<1>2. /\ a \o b \in Seq(Tasks) /\ Len(a \o b) = Len(a) + Len(b)
      /\ \A k \in 1 .. Len(a) + Len(b) :
            (a \o b)[k] = IF k <= Len(a) THEN a[k] ELSE b[k - Len(a)]
  BY <1>1
<1>3. ASSUME NEW k \in 1 .. Len(a \o b)
      PROVE  \/ k \in 1 .. Len(a) /\ (a \o b)[k] = a[k]
             \/ k - Len(a) \in 1 .. Len(b) /\ (a \o b)[k] = b[k - Len(a)]
  BY <1>1, <1>2
<1>4. ASSUME NEW k \in 1 .. Len(a \o b)
      PROVE  (a \o b)[k].do \notin KeyTasks \cup {"revoke", "drop_keys"}
  <2>1. CASE k \in 1 .. Len(a) /\ (a \o b)[k] = a[k]
    BY <2>1 DEF Plain
  <2>2. CASE k - Len(a) \in 1 .. Len(b) /\ (a \o b)[k] = b[k - Len(a)]
    BY <2>2 DEF Plain
  <2> QED
    BY <1>3, <2>1, <2>2
<1> QED
  BY <1>2, <1>4 DEF Plain

LEMMA PlainOnes ==
    ASSUME NEW t \in Tasks, t.do \notin KeyTasks \cup {"revoke", "drop_keys"}
    PROVE  Plain(<<t>>)
BY DEF Plain

LEMMA PlainPairs ==
    ASSUME NEW a \in Tasks, a.do \notin KeyTasks \cup {"revoke", "drop_keys"},
           NEW b \in Tasks, b.do \notin KeyTasks \cup {"revoke", "drop_keys"}
    PROVE  Plain(<<a, b>>)
<1>1. PICK tasks : tasks = <<a, b>>
  OBVIOUS
<1>2. tasks \in Seq(Tasks) /\ Len(tasks) = 2 /\ tasks[1] = a /\ tasks[2] = b
  BY <1>1
<1>3. \A k \in 1 .. 2 : k = 1 \/ k = 2
  OBVIOUS
<1> QED
  BY <1>1, <1>2, <1>3 DEF Plain

LEMMA NoneIsPlain == Plain(<<>>)
BY DEF Plain

LEMMA EachNameIsPlain ==
    ASSUME NEW o, NEW s, NEW do, EachName(do, o, s) \in Seq(Tasks),
           do \notin KeyTasks \cup {"revoke", "drop_keys"}
    PROVE  Plain(EachName(do, o, s))
<1>1. \A k \in DOMAIN s : EachName(do, o, s)[k].do = do
  BY DEF EachName, For, Task
<1>2. DOMAIN EachName(do, o, s) = DOMAIN s
  BY DEF EachName
<1>3. DOMAIN EachName(do, o, s) = 1 .. Len(EachName(do, o, s))
  OBVIOUS
<1> QED
  BY <1>1, <1>2, <1>3 DEF Plain

LEMMA EachOrgIsPlain ==
    ASSUME NEW s, NEW do, EachOrg(do, s) \in Seq(Tasks),
           do \notin KeyTasks \cup {"revoke", "drop_keys"}
    PROVE  Plain(EachOrg(do, s))
<1>1. \A k \in DOMAIN s : EachOrg(do, s)[k].do = do
  BY DEF EachOrg, ForOrg, Task
<1>2. DOMAIN EachOrg(do, s) = DOMAIN s
  BY DEF EachOrg
<1>3. DOMAIN EachOrg(do, s) = 1 .. Len(EachOrg(do, s))
  OBVIOUS
<1> QED
  BY <1>1, <1>2, <1>3 DEF Plain

(* Actions that concern no keys. *)
LEMMA CalmKeys ==
    ASSUME CInv, todo # <<>>, Head(todo).do \notin KeyTasks \cup {"revoke", "drop_keys"},
           NEW tasks, Plain(tasks), Then(tasks), disk' \in Stored,
           disk'.accounts \subseteq disk.accounts,
           disk'.cert = disk.cert, disk'.private = disk.private, disk'.crl = disk.crl,
           added' = added
    PROVE  KeyInv'
<1>1. todo \in Seq(Tasks) /\ clean' = clean /\ todo' = tasks \o Tail(todo)
  BY DEF CInv, IInv, QueueInv, Then
<1>2. IdsInv'
  BY DEF CInv, KeyInv, IdsInv, Names
<1>3. KeyList'
  <2>1. /\ tasks \in Seq(Tasks) /\ Complete(tasks) /\ RevokeIsFirst(tasks)
        /\ \A k \in 1 .. Len(tasks) : Known(tasks[k])'
    BY PlainKeys
  <2>2. Complete(todo') /\ RevokeIsFirst(todo')
    BY <1>1, <2>1, FrontKeys DEF CInv, KeyInv, KeyList
  <2>3. added' \in Nat /\ added <= added'
    BY DEF CInv, IInv, TypeOK
  <2>4. AllKnown'
    BY <2>1, <2>3, FrontKnown
  <2> QED
    BY <2>2, <2>4 DEF KeyList, Complete, RevokeIsFirst
<1>4. todo' # <<>> => Head(todo').do \notin {"revoke", "drop_keys"}
  <2>1. CASE tasks = <<>>
    <3>1. todo' = Tail(todo)
      BY <1>1, <2>1
    <3>2. Tail(todo) # <<>> => Head(Tail(todo)).do # "drop_keys"
      <4>1. "drop_keys" \in Dependents
        BY DEF Dependents
      <4>2. Head(todo).do \notin Supports
        BY DEF Supports, KeyTasks
      <4> QED
        BY <4>1, <4>2, <1>1, NextTask DEF CInv, IInv, QueueInv
    <3>3. Tail(todo) # <<>> => Head(Tail(todo)).do # "revoke"
      <4>1. Tail(todo) # <<>> => 2 \in 1 .. Len(todo) /\ Head(Tail(todo)) = todo[2]
        BY <1>1
      <4> QED
        BY <4>1 DEF CInv, KeyInv, KeyList, RevokeIsFirst
    <3> QED
      BY <3>1, <3>2, <3>3
  <2>2. CASE tasks # <<>>
    <3>1. tasks \in Seq(Tasks) /\ Head(todo') = tasks[1] /\ 1 \in 1 .. Len(tasks)
      BY <1>1, <2>2 DEF Plain
    <3> QED
      BY <3>1 DEF Plain
  <2> QED
    BY <2>1, <2>2
<1>5. Gone'
  BY <1>4 DEF Gone
<1>6. CertInv'
  <2>1. AutoConfig /\ clean => \A x \in disk.accounts : Certified(x)
    BY DEF CInv, KeyInv, CertInv, Building
  <2> QED
    BY <1>1, <2>1 DEF CertInv, Certified, Names
<1> QED
  BY <1>2, <1>3, <1>5, <1>6 DEF KeyInv

LEMMA QuietKeys ==
    ASSUME CInv, todo # <<>>, Head(todo).do \notin KeyTasks \cup {"revoke", "drop_keys"},
           NEW tasks, Plain(tasks), Then(tasks), UNCHANGED <<disk, added>>
    PROVE  KeyInv'
BY CalmKeys DEF CInv, IInv, TypeOK

LEMMA SkipKeys ==
    ASSUME CInv, todo # <<>>, Head(todo).do \notin KeyTasks \cup {"revoke", "drop_keys"}, Skip
    PROVE  KeyInv'
BY QuietKeys, NoneIsPlain DEF Skip

LEMMA EndsKeys ==
    ASSUME CInv, NEW result, Ends(result), disk'.accounts \subseteq disk.accounts,
           disk'.crl = disk.crl, disk'.cert \in [Members -> Ids \cup {0}],
           \A m \in Members : disk'.cert[m] = disk.cert[m] \/ disk'.cert[m] = 0,
           clean' => /\ clean /\ disk' = disk
                     /\ todo # <<>> /\ Head(todo).do \notin KeyTasks
    PROVE  KeyInv'
<1>1. todo' = <<>> /\ added' = added
  BY DEF Ends
<1>2. IdsInv'
  <2>1. \A x \in disk.accounts : x.id # 0
    BY DEF CInv, IInv, TypeOK, Stored, Accounts, Ids
  <2>2. added \in Nat
    BY DEF CInv, IInv, TypeOK
  <2> QED
    BY <1>1, <2>1, <2>2 DEF CInv, KeyInv, IdsInv, Names
<1>3. KeyList' /\ Gone'
  BY <1>1 DEF KeyList, Gone, Complete, RevokeIsFirst, AllKnown
<1>4. CertInv'
  <2>1. SUFFICES ASSUME AutoConfig, clean' PROVE \A x \in disk'.accounts : Certified(x)'
    BY DEF CertInv
  <2>2. \A x \in disk.accounts : Certified(x)
    BY <2>1 DEF CInv, KeyInv, CertInv, Building
  <2> QED
    BY <2>1, <2>2 DEF Certified
<1> QED
  BY <1>2, <1>3, <1>4 DEF KeyInv

LEMMA RefuseKeys ==
    ASSUME CInv, todo # <<>>, Head(todo).do \notin KeyTasks, Refuse PROVE KeyInv'
<1>1. disk' = disk /\ clean' = clean /\ Ends("failed")
  BY DEF Refuse
<1> QED
  BY <1>1, EndsKeys DEF CInv, IInv, TypeOK, Stored

LEMMA RaiseKeys == ASSUME CInv, Raise PROVE KeyInv'
<1>1. disk' = disk /\ ~clean' /\ Ends("failed")
  BY DEF Raise, Failed
<1> QED
  BY <1>1, EndsKeys DEF CInv, IInv, TypeOK, Stored

LEMMA InitKeys == Init => KeyInv
<1> SUFFICES ASSUME Init PROVE KeyInv
  OBVIOUS
<1>1. disk = Empty /\ todo = <<>> /\ added = 0
  BY DEF Init
<1>2. IdsInv
  BY <1>1 DEF IdsInv, Empty
<1> QED
  BY <1>1, <1>2 DEF KeyInv, KeyList, Complete, RevokeIsFirst, AllKnown, Gone, CertInv, Empty

LEMMA BeginKeys ==
    ASSUME CInv, NEW who, NEW tasks, Plain(tasks), Begin(who, tasks)
    PROVE  KeyInv'
<1>1. todo = <<>> /\ todo' = tasks /\ UNCHANGED <<disk, added, clean>>
  BY DEF CInv, IInv, QueueInv, Begin
<1>2. IdsInv'
  BY <1>1 DEF CInv, KeyInv, IdsInv, Names
<1>3. KeyList'
  <2>1. Complete(tasks) /\ RevokeIsFirst(tasks) /\ \A k \in 1 .. Len(tasks) : Known(tasks[k])'
    BY PlainKeys
  <2>2. Complete(todo') /\ RevokeIsFirst(todo')
    BY <1>1, <2>1
  <2>3. AllKnown'
    BY <1>1, <2>1 DEF AllKnown, Known
  <2> QED
    BY <2>2, <2>3 DEF KeyList, Complete, RevokeIsFirst
<1>4. Gone'
  <2>1. tasks # <<>> => Head(tasks).do \notin {"revoke", "drop_keys"}
    BY DEF Plain
  <2> QED
    BY <1>1, <2>1 DEF Gone
<1>5. CertInv'
  BY <1>1 DEF CInv, KeyInv, CertInv, Certified, Names, Building
<1> QED
  BY <1>2, <1>3, <1>4, <1>5 DEF KeyInv

LEMMA DiffOrgsKeys == ASSUME CInv, DiffOrgs PROVE KeyInv'
<1>1. PICK del \in SetToSeqs(Surplus(disk.orgs, conf.orgs)),
           add \in SetToSeqs(Missing(disk.orgs, conf.orgs)) :
          Then(EachOrg("delete_org", del) \o EachOrg("add_org", add)
               \o <<Task("members", 0, 0, 0)>>)
  BY DEF DiffOrgs
<1>2. todo # <<>> /\ Head(todo).do = "orgs" /\ UNCHANGED <<disk, added>>
  BY DEF DiffOrgs, Doing
<1>3. /\ Surplus(disk.orgs, conf.orgs) \in SUBSET Orgs
      /\ Missing(disk.orgs, conf.orgs) \in SUBSET Orgs
      /\ Surplus(disk.orgs, conf.orgs) \cap conf.orgs = {}
  BY Parameters DEF CInv, IInv, TypeOK, Stored, Surplus, Missing
<1>4. Simple(EachOrg("delete_org", del)) /\ Simple(EachOrg("add_org", add))
  BY <1>3, EachOrgIs
<1>5. Plain(EachOrg("delete_org", del)) /\ Plain(EachOrg("add_org", add))
  BY <1>4, EachOrgIsPlain DEF Simple, KeyTasks
<1>6. Plain(<<Task("members", 0, 0, 0)>>)
  <2>1. Task("members", 0, 0, 0) \in Tasks
    BY TaskKinds DEF PlanTasks
  <2> QED
    BY <2>1, PlainOnes DEF Task, KeyTasks
<1> QED
  BY <1>1, <1>2, <1>5, <1>6, PlainLists, QuietKeys DEF KeyTasks

LEMMA DiffMembersKeys == ASSUME CInv, DiffMembers PROVE KeyInv'
<1> DEFINE S == {o \in disk.orgs : ~IsImperative(<<o>>)}
           tasks(s) == [k \in 1 .. 2 * Len(s) |->
                          ForOrg(IF k % 2 = 1 THEN "users" ELSE "groups", s[(k + 1) \div 2])]
<1>1. PICK s \in SetToSeqs(S) : Then(tasks(s))
  BY DEF DiffMembers
<1>2. todo # <<>> /\ Head(todo).do = "members" /\ UNCHANGED <<disk, added>>
  BY DEF DiffMembers, Doing
<1> HIDE DEF tasks
<1>3. S \in SUBSET Orgs
  BY DEF CInv, IInv, TypeOK, Stored
<1>4. IsFiniteSet(S)
  BY <1>3, FiniteNames, FS_Subset
<1> HIDE DEF S
<1>5. Len(s) \in Nat /\ \A k \in 1 .. Len(s) : s[k] \in Orgs
  BY <1>3, <1>4, Listed
<1>6. PICK f : f = tasks(s)
  OBVIOUS
<1>7. ASSUME NEW k \in 1 .. 2 * Len(s)
      PROVE  f[k] \in Tasks /\ f[k].do \in {"users", "groups"}
  <2>1. (k + 1) \div 2 \in 1 .. Len(s)
    BY <1>5
  <2>2. PICK o \in Orgs : o = s[(k + 1) \div 2]
    BY <2>1, <1>5
  <2>3. f[k] = ForOrg("users", o) \/ f[k] = ForOrg("groups", o)
    BY <1>6, <2>2 DEF tasks
  <2>4. f[k] \in Tasks
    BY <2>3, TaskKinds DEF OrgTasks
  <2> QED
    BY <2>3, <2>4 DEF ForOrg, Task
<1>8. f \in Seq(Tasks) /\ Len(f) = 2 * Len(s)
  <2>1. f = [k \in 1 .. 2 * Len(s) |-> f[k]] /\ 2 * Len(s) \in Nat
    BY <1>5, <1>6 DEF tasks
  <2> QED
    BY <2>1, <1>7, ListOfTasks
<1>9. Plain(f)
  BY <1>7, <1>8 DEF Plain, KeyTasks
<1> QED
  BY <1>1, <1>2, <1>6, <1>9, QuietKeys DEF KeyTasks

LEMMA DiffUsersKeys == ASSUME CInv, DiffUsers PROVE KeyInv'
<1> DEFINE o == Head(todo).org
<1> SUFFICES ASSUME ~Raise PROVE KeyInv'
  BY RaiseKeys
<1>1. PICK del \in SetToSeqs(Surplus(UserNames(o), conf.users[o])),
           add \in SetToSeqs(Missing(UserNames(o), conf.users[o])) :
          Then(EachName("delete_user", o, del) \o EachName("add_user", o, add))
  BY DEF DiffUsers
<1>2. todo # <<>> /\ Head(todo).do = "users" /\ UNCHANGED <<disk, added>>
  BY DEF DiffUsers, Doing
<1>3. o \in Orgs
  BY <1>2, HeadTask, TaskNames DEF CInv, OrgTasks
<1> HIDE DEF o
<1>4. /\ Surplus(UserNames(o), conf.users[o]) \in SUBSET Users
      /\ Missing(UserNames(o), conf.users[o]) \in SUBSET Users
  BY <1>3, Parameters DEF CInv, IInv, TypeOK, Stored, Accounts, Surplus, Missing, UserNames
<1>5. Simple(EachName("delete_user", o, del)) /\ Simple(EachName("add_user", o, add))
  BY <1>3, <1>4, EachNameIs
<1>6. Plain(EachName("delete_user", o, del)) /\ Plain(EachName("add_user", o, add))
  BY <1>5, EachNameIsPlain DEF Simple, KeyTasks
<1> QED
  BY <1>1, <1>2, <1>6, PlainLists, QuietKeys DEF KeyTasks

LEMMA DiffGroupsKeys == ASSUME CInv, DiffGroups PROVE KeyInv'
<1> DEFINE o == Head(todo).org
<1>1. PICK del \in SetToSeqs(Surplus(GroupNames(o), conf.groups[o])),
           add \in SetToSeqs(Missing(GroupNames(o), conf.groups[o])) :
          Then(EachName("delete_group", o, del) \o EachName("add_group", o, add))
  BY DEF DiffGroups
<1>2. todo # <<>> /\ Head(todo).do = "groups" /\ UNCHANGED <<disk, added>>
  BY DEF DiffGroups, Doing
<1>3. o \in Orgs
  BY <1>2, HeadTask, TaskNames DEF CInv, OrgTasks
<1> HIDE DEF o
<1>4. /\ Surplus(GroupNames(o), conf.groups[o]) \in SUBSET Groups
      /\ Missing(GroupNames(o), conf.groups[o]) \in SUBSET Groups
  BY <1>3, Parameters DEF CInv, IInv, TypeOK, Stored, Surplus, Missing, GroupNames
<1>5. Simple(EachName("delete_group", o, del)) /\ Simple(EachName("add_group", o, add))
  BY <1>3, <1>4, EachGroupIs
<1>6. Plain(EachName("delete_group", o, del)) /\ Plain(EachName("add_group", o, add))
  BY <1>5, EachNameIsPlain DEF Simple, KeyTasks
<1> QED
  BY <1>1, <1>2, <1>6, PlainLists, QuietKeys DEF KeyTasks

LEMMA MarkIsPlain ==
    ASSUME NEW path \in Paths, path[1] \in Orgs
    PROVE  Plain(ThenMark(path))
<1>1. CASE job = "cli"
  <2>1. For("mark", path[1], path) \in Tasks
    BY TaskKinds
  <2>2. Plain(<<For("mark", path[1], path)>>)
    BY <2>1, PlainOnes DEF For, Task, KeyTasks
  <2> QED
    BY <1>1, <2>2 DEF ThenMark
<1>2. CASE job # "cli"
  BY <1>2, NoneIsPlain DEF ThenMark
<1> QED
  BY <1>1, <1>2

LEMMA AddOrgKeys == ASSUME CInv, AddOrg PROVE KeyInv'
<1> DEFINE o == Head(todo).org
<1>1. todo # <<>> /\ Head(todo).do = "add_org"
  BY DEF AddOrg, Doing
<1>2. o \in Orgs
  BY <1>1, HeadTask, TaskNames DEF CInv, OrgTasks
<1>3. CASE o \in disk.orgs
  BY <1>1, <1>3, RefuseKeys DEF AddOrg, KeyTasks
<1>4. CASE o \notin disk.orgs
  <2>1. Then(ThenMark(<<o>>)) /\ disk' = [disk EXCEPT !.orgs = @ \cup {o}] /\ added' = added
    BY <1>4 DEF AddOrg
  <2> HIDE DEF o
  <2>2. <<o>> \in Paths /\ <<o>>[1] = o
    BY <1>2 DEF Paths
  <2>3. /\ disk' \in Stored /\ disk'.accounts = disk.accounts /\ disk'.cert = disk.cert
        /\ disk'.private = disk.private /\ disk'.crl = disk.crl
    BY <1>2, <2>1 DEF CInv, IInv, TypeOK, Stored
  <2>4. Plain(ThenMark(<<o>>))
    BY <1>2, <2>2, MarkIsPlain
  <2> QED
    BY <1>1, <2>1, <2>3, <2>4, CalmKeys DEF KeyTasks
<1> QED
  BY <1>3, <1>4

LEMMA DelOrgKeys == ASSUME CInv, DelOrg PROVE KeyInv'
<1> DEFINE o == Head(todo).org
<1> SUFFICES ASSUME ~Raise PROVE KeyInv'
  BY RaiseKeys
<1>1. todo # <<>> /\ Head(todo).do = "delete_org"
  BY DEF DelOrg, Doing
<1>2. o \in Orgs
  BY <1>1, HeadTask, TaskNames DEF CInv, OrgTasks
<1>3. CASE o \notin disk.orgs \/ LeftAlone(<<o>>)
  BY <1>1, <1>3, SkipKeys DEF DelOrg, KeyTasks
<1>4. CASE ~(o \notin disk.orgs \/ LeftAlone(<<o>>))
  <2>1. PICK us \in SetToSeqs(UserNames(o)), gs \in SetToSeqs(GroupNames(o)) :
            Then(EachName("delete_user", o, us) \o EachName("delete_group", o, gs)
                 \o <<ForOrg("remove_org", o)>>)
    BY <1>4 DEF DelOrg
  <2>2. UNCHANGED <<disk, added>>
    BY <1>4 DEF DelOrg
  <2> HIDE DEF o
  <2>3. UserNames(o) \in SUBSET Users /\ GroupNames(o) \in SUBSET Groups
    BY DEF CInv, IInv, TypeOK, Stored, Accounts, UserNames, GroupNames
  <2>4. Simple(EachName("delete_user", o, us)) /\ Simple(EachName("delete_group", o, gs))
    BY <1>2, <2>3, EachNameIs, EachGroupIs
  <2>5. Plain(EachName("delete_user", o, us)) /\ Plain(EachName("delete_group", o, gs))
    BY <2>4, EachNameIsPlain DEF Simple, KeyTasks
  <2>6. Plain(<<ForOrg("remove_org", o)>>)
    <3>1. ForOrg("remove_org", o) \in Tasks
      BY <1>2, TaskKinds DEF OrgTasks
    <3> QED
      BY <3>1, PlainOnes DEF ForOrg, Task, KeyTasks
  <2> QED
    BY <1>1, <2>1, <2>2, <2>5, <2>6, PlainLists, QuietKeys DEF KeyTasks
<1> QED
  BY <1>3, <1>4

LEMMA RemoveOrgKeys == ASSUME CInv, RemoveOrg PROVE KeyInv'
<1> DEFINE o == Head(todo).org
<1>1. todo # <<>> /\ Head(todo).do = "remove_org"
  BY DEF RemoveOrg, Doing
<1>2. /\ disk' = [disk EXCEPT !.orgs = @ \ {o},
                              !.accounts = {a \in @ : a.org # o},
                              !.husks = {h \in @ : h[1] # o},
                              !.groups = {g \in @ : g[1] # o},
                              !.marks = {m \in @ : m[1] # o}]
      /\ Then(<<>>) /\ added' = added
  BY DEF RemoveOrg
<1> HIDE DEF o
<1>3. /\ disk' \in Stored /\ disk'.accounts \subseteq disk.accounts /\ disk'.cert = disk.cert
      /\ disk'.private = disk.private /\ disk'.crl = disk.crl
  BY <1>2 DEF CInv, IInv, TypeOK, Stored
<1> QED
  BY <1>1, <1>2, <1>3, CalmKeys, NoneIsPlain DEF KeyTasks

LEMMA MarkKeys == ASSUME CInv, Mark PROVE KeyInv'
<1>1. todo # <<>> /\ Head(todo).do = "mark"
  BY DEF Mark, Doing
<1>2. Head(todo).name \in Paths
  BY <1>1, HeadTask, TaskNames DEF CInv
<1>3. /\ disk' = [disk EXCEPT !.marks = @ \cup {Head(todo).name}]
      /\ Then(<<>>) /\ added' = added
  BY DEF Mark
<1>4. /\ disk' \in Stored /\ disk'.accounts = disk.accounts /\ disk'.cert = disk.cert
      /\ disk'.private = disk.private /\ disk'.crl = disk.crl
  BY <1>2, <1>3 DEF CInv, IInv, TypeOK, Stored
<1> QED
  BY <1>1, <1>3, <1>4, CalmKeys, NoneIsPlain DEF KeyTasks

LEMMA AddGroupKeys == ASSUME CInv, AddGroup PROVE KeyInv'
<1> DEFINE o == Head(todo).org
           g == Head(todo).name
<1>1. todo # <<>> /\ Head(todo).do = "add_group"
  BY DEF AddGroup, Doing
<1>2. o \in Orgs /\ g \in Groups
  BY <1>1, HeadTask, TaskNames DEF CInv, GroupTasks
<1>3. CASE <<o, g>> \in disk.groups
  BY <1>1, <1>3, RefuseKeys DEF AddGroup, KeyTasks
<1>4. CASE <<o, g>> \notin disk.groups
  <2>1. /\ Then(ThenMark(<<o, g>>)) /\ added' = added
        /\ disk' = [disk EXCEPT !.groups = @ \cup {<<o, g>>}]
    BY <1>4 DEF AddGroup
  <2> HIDE DEF o, g
  <2>2. <<o, g>> \in Paths /\ <<o, g>>[1] = o
    BY <1>2 DEF Paths
  <2>3. /\ disk' \in Stored /\ disk'.accounts = disk.accounts /\ disk'.cert = disk.cert
        /\ disk'.private = disk.private /\ disk'.crl = disk.crl
    BY <1>2, <2>1 DEF CInv, IInv, TypeOK, Stored
  <2>4. Plain(ThenMark(<<o, g>>))
    BY <1>2, <2>2, MarkIsPlain
  <2> QED
    BY <1>1, <2>1, <2>3, <2>4, CalmKeys DEF KeyTasks
<1> QED
  BY <1>3, <1>4

LEMMA DelGroupKeys == ASSUME CInv, DelGroup PROVE KeyInv'
<1> DEFINE o == Head(todo).org
           g == Head(todo).name
<1> SUFFICES ASSUME ~Raise PROVE KeyInv'
  BY RaiseKeys
<1>1. todo # <<>> /\ Head(todo).do = "delete_group"
  BY DEF DelGroup, Doing
<1>2. CASE g \notin UserNames(o) \/ LeftAlone(<<o, g>>)
  BY <1>1, <1>2, SkipKeys DEF DelGroup, KeyTasks
<1>3. CASE ~(g \notin UserNames(o) \/ LeftAlone(<<o, g>>)) /\ <<o, g>> \notin disk.groups
  BY <1>3, RaiseKeys DEF DelGroup
<1>4. CASE ~(g \notin UserNames(o) \/ LeftAlone(<<o, g>>)) /\ <<o, g>> \in disk.groups
  <2>1. /\ disk' = [disk EXCEPT !.groups = @ \ {<<o, g>>}, !.marks = @ \ {<<o, g>>}]
        /\ Then(<<>>) /\ added' = added
    BY <1>4 DEF DelGroup
  <2> HIDE DEF o, g
  <2>2. /\ disk' \in Stored /\ disk'.accounts = disk.accounts /\ disk'.cert = disk.cert
        /\ disk'.private = disk.private /\ disk'.crl = disk.crl
    BY <2>1 DEF CInv, IInv, TypeOK, Stored
  <2> QED
    BY <1>1, <2>1, <2>2, CalmKeys, NoneIsPlain DEF KeyTasks
<1> QED
  BY <1>2, <1>3, <1>4

ThreeKeys(o, u, i) == <<Task("key_directory", o, u, i), Task("private_key", o, u, i),
                        Task("certificate", o, u, i)>>

(* The tasks after a new account make its keys in turn. *)
KeysFirst(l, o, u, i) ==
    /\ l \in Seq(Tasks) /\ l # <<>> /\ Complete(l) /\ RevokeIsFirst(l)
    /\ Head(l).do = "key_directory"
    /\ Head(l).org = o /\ Head(l).name = u /\ Head(l).id = i
    /\ \A k \in 1 .. Len(l) :
          l[k].do \in KeyTasks => l[k].org = o /\ l[k].name = u /\ l[k].id = i

LEMMA KeyTasksAreComplete ==
    ASSUME NEW o \in Orgs, NEW u \in Users, NEW i \in Ids, NEW b, Plain(b),
           NEW l, l = ThreeKeys(o, u, i) \o b
    PROVE  KeysFirst(l, o, u, i)
<1> DEFINE x == Task("key_directory", o, u, i)
           y == Task("private_key", o, u, i)
           z == Task("certificate", o, u, i)
<1>1. x \in Tasks /\ y \in Tasks /\ z \in Tasks
  BY TaskKinds DEF KeyTasks
<1>2. /\ x.do = "key_directory" /\ y.do = "private_key" /\ z.do = "certificate"
      /\ x.org = o /\ x.name = u /\ x.id = i /\ y.org = o /\ y.name = u /\ y.id = i
      /\ z.org = o /\ z.name = u /\ z.id = i
  BY DEF Task
<1>3. PICK keys : keys = <<x, y, z>> /\ l = keys \o b
  BY DEF ThreeKeys
<1> HIDE DEF x, y, z
<1>4. b \in Seq(Tasks) /\ Len(b) \in Nat
  BY DEF Plain
<1>5. /\ keys \in Seq(Tasks) /\ Len(keys) = 3
      /\ keys[1] = x /\ keys[2] = y /\ keys[3] = z
  <2>1. keys \in Seq(Tasks)
    BY <1>1, <1>3
  <2>2. Len(keys) = 3
    BY <1>3
  <2>3. keys[1] = x /\ keys[2] = y /\ keys[3] = z
    BY <1>3
  <2> QED
    BY <2>1, <2>2, <2>3
<1>6. /\ l \in Seq(Tasks) /\ Len(l) = 3 + Len(b)
      /\ l[1] = x /\ l[2] = y /\ l[3] = z
      /\ \A k \in 4 .. Len(l) : k - 3 \in 1 .. Len(b) /\ l[k] = b[k - 3]
  <2>1. l \in Seq(Tasks) /\ Len(l) = Len(keys) + Len(b)
    BY <1>3, <1>4, <1>5
  <2>2. \A k \in 1 .. Len(keys) + Len(b) :
            l[k] = IF k <= Len(keys) THEN keys[k] ELSE b[k - Len(keys)]
    BY <1>3, <1>4, <1>5
  <2> QED
    BY <2>1, <2>2, <1>4, <1>5
<1>7. l # <<>> /\ Head(l) = x
  BY <1>6, <1>4
<1>8. \A k \in 1 .. Len(l) : k = 1 \/ k = 2 \/ k = 3 \/ k \in 4 .. Len(l)
  BY <1>4, <1>6
<1>9. \A k \in 4 .. Len(l) : l[k].do \notin KeyTasks \cup {"revoke"}
  BY <1>6 DEF Plain
<1>10. Complete(l)
  <2>1. Follows(l[2], l[1]) /\ Follows(l[3], l[2]) /\ 3 <= Len(l)
    BY <1>2, <1>4, <1>6 DEF Follows
  <2>2. ASSUME NEW k \in 1 .. Len(l), l[k].do \in {"key_directory", "private_key"}
        PROVE  k < Len(l) /\ Follows(l[k + 1], l[k])
    <3>1. k = 1 \/ k = 2
      BY <1>2, <1>6, <1>8, <1>9, <2>2 DEF KeyTasks
    <3>2. CASE k = 1
      BY <2>1, <3>2, <1>4, <1>6
    <3>3. CASE k = 2
      BY <2>1, <3>3, <1>4, <1>6
    <3> QED
      BY <3>1, <3>2, <3>3
  <2> QED
    BY <2>2 DEF Complete
<1>11. RevokeIsFirst(l)
  BY <1>2, <1>6, <1>8, <1>9 DEF RevokeIsFirst
<1>12. \A k \in 1 .. Len(l) : l[k].do \in KeyTasks => l[k].org = o /\ l[k].name = u /\ l[k].id = i
  BY <1>2, <1>6, <1>8, <1>9
<1> QED
  BY <1>2, <1>6, <1>7, <1>10, <1>11, <1>12 DEF KeysFirst

LEMMA AddUserKeys == ASSUME CInv, AddUser PROVE KeyInv'
<1> SUFFICES ASSUME ~Raise PROVE KeyInv'
  BY RaiseKeys
<1>1. todo # <<>> /\ Head(todo).do = "add_user"
  BY DEF AddUser, Doing
<1> PICK o, u, i : o = Head(todo).org /\ u = Head(todo).name /\ i = added + 1
  OBVIOUS
<1>2. o \in Orgs /\ u \in Users
  BY <1>1, HeadTask, TaskNames DEF CInv, UserTasks
<1>3. CASE Taken(o, u)
  BY <1>1, <1>3, RefuseKeys DEF AddUser, KeyTasks
<1>4. CASE ~Taken(o, u)
  <2> DEFINE a == [org |-> o, name |-> u, id |-> i]
             keys == <<Task("key_directory", o, u, i), Task("private_key", o, u, i),
                       Task("certificate", o, u, i)>>
  <2> PICK tasks : tasks = (IF AutoConfig THEN keys ELSE <<>>) \o ThenMark(<<o, i>>)
    OBVIOUS
  <2>1. /\ added < MaxUsers /\ added' = i
        /\ disk' = [disk EXCEPT !.accounts = @ \cup {a}]
        /\ Then(tasks)
    BY <1>4 DEF AddUser
  <2> HIDE DEF a, keys
  <2>2. i \in Ids /\ added \in Nat /\ added' \in Nat /\ added <= added'
    <3>1. added \in Nat /\ added + 1 <= MaxUsers /\ MaxUsers \in Nat
      BY <2>1, Parameters DEF CInv, IInv, TypeOK
    <3> QED
      BY <2>1, <3>1 DEF Ids
  <2>3. a \in Accounts /\ a.org = o /\ a.name = u /\ a.id = i
    BY <1>2, <2>2 DEF Accounts, a
  <2>4. /\ disk' \in Stored /\ disk'.accounts = disk.accounts \cup {a} /\ disk'.cert = disk.cert
        /\ disk'.private = disk.private /\ disk'.crl = disk.crl
    BY <2>1, <2>3 DEF CInv, IInv, TypeOK, Stored
  <2>5. /\ \A x \in disk.accounts : x.id \in Nat /\ x.id < i
        /\ \A m \in Members : disk.cert[m] \in Nat /\ disk.cert[m] < i
        /\ \A j \in disk.crl : j \in Nat /\ j < i
    <3>1. \A x \in disk.accounts : x.id \in Nat /\ x.id <= added
      BY DEF CInv, IInv, TypeOK, Stored, Accounts, Ids
    <3>2. \A m \in Members : disk.cert[m] \in Nat /\ disk.cert[m] <= added
      BY DEF CInv, IInv, TypeOK, Stored, KeyInv, IdsInv, Ids
    <3>3. \A j \in disk.crl : j \in Nat /\ j <= added
      BY DEF CInv, IInv, TypeOK, Stored, KeyInv, IdsInv, Ids
    <3> QED
      BY <3>1, <3>2, <3>3, <2>2
  <2>6. todo \in Seq(Tasks) /\ clean' = clean /\ todo' = tasks \o Tail(todo)
    BY <2>1 DEF CInv, IInv, QueueInv, Then
  <2>7. IdsInv'
    <3>1. \A x, y \in disk'.accounts : x.id = y.id => x = y
      <4>1. \A x, y \in disk.accounts : x.id = y.id => x = y
        BY DEF CInv, KeyInv, IdsInv
      <4>2. \A x \in disk.accounts : x.id # a.id
        BY <2>2, <2>3, <2>5
      <4> QED
        BY <2>4, <4>1, <4>2
    <3>2. \A m \in Members : disk'.cert[m] <= added'
      BY <2>1, <2>2, <2>4, <2>5
    <3>3. \A j \in disk'.crl : j <= added'
      BY <2>1, <2>2, <2>4, <2>5
    <3>4. \A m \in Members : \A x \in disk'.accounts : disk'.cert[m] = x.id => m = Names(x)
      <4>1. \A m \in Members : disk.cert[m] # a.id
        BY <2>2, <2>3, <2>5
      <4>2. \A m \in Members : \A x \in disk.accounts : disk.cert[m] = x.id => m = Names(x)
        BY DEF CInv, KeyInv, IdsInv
      <4> QED
        BY <2>4, <4>1, <4>2
    <3> QED
      BY <3>1, <3>2, <3>3, <3>4 DEF IdsInv, Names
  <2>8. Plain(ThenMark(<<o, i>>))
    <3>1. <<o, i>> \in Paths /\ <<o, i>>[1] = o
      BY <1>2, <2>2 DEF Paths
    <3> QED
      BY <1>2, <3>1, MarkIsPlain
  <2>9. /\ tasks \in Seq(Tasks) /\ Complete(tasks) /\ RevokeIsFirst(tasks)
        /\ \A k \in 1 .. Len(tasks) :
              tasks[k].do \in KeyTasks => tasks[k].org = o /\ tasks[k].name = u /\ tasks[k].id = i
        /\ AutoConfig => /\ tasks # <<>> /\ Head(tasks).do = "key_directory"
                         /\ Head(tasks).org = o /\ Head(tasks).name = u /\ Head(tasks).id = i
        /\ ~AutoConfig => Plain(tasks)
    <3>1. CASE AutoConfig
      <4>1. PICK b : b = ThenMark(<<o, i>>)
        OBVIOUS
      <4>2. keys = ThreeKeys(o, u, i)
        BY DEF keys, ThreeKeys
      <4>3. Plain(b) /\ tasks = ThreeKeys(o, u, i) \o b
        BY <2>8, <3>1, <4>1, <4>2
      <4>4. o \in Orgs /\ u \in Users /\ i \in Ids
        BY <1>2, <2>2
      <4>5. KeysFirst(tasks, o, u, i)
        BY ONLY <4>3, <4>4, KeyTasksAreComplete
      <4> QED
        BY <3>1, <4>5 DEF KeysFirst
    <3>2. CASE ~AutoConfig
      <4>1. Plain(tasks)
        BY <2>8, <3>2, NoneIsPlain, PlainLists
      <4> QED
        BY <3>2, <4>1, PlainKeys DEF Plain
    <3> QED
      BY <3>1, <3>2
  <2>10. KeyList'
    <3>1. Complete(todo') /\ RevokeIsFirst(todo')
      BY <1>1, <2>6, <2>9, FrontKeys DEF CInv, KeyInv, KeyList
    <3>2. ASSUME NEW k \in 1 .. Len(tasks) PROVE Known(tasks[k])'
      <4>1. PICK t : t = tasks[k]
        OBVIOUS
      <4>2. t.do \in KeyTasks => t.org = o /\ t.name = u /\ t.id = i
        BY <2>9, <4>1
      <4>3. \A x \in disk'.accounts : x.id = i => x.org = o /\ x.name = u
        BY <2>2, <2>3, <2>4, <2>5
      <4>4. Known(t)'
        BY <2>1, <2>2, <4>2, <4>3 DEF Known
      <4> QED
        BY <4>1, <4>4 DEF Known
    <3>3. \A x \in disk'.accounts : x \in disk.accounts \/ x.id > added
      BY <2>2, <2>3, <2>4
    <3>4. AllKnown'
      BY <1>1, <2>1, <2>2, <2>4, <2>9, <3>2, <3>3, FrontKnown
    <3> QED
      BY <3>1, <3>4 DEF KeyList, Complete, RevokeIsFirst
  <2>11. /\ todo' # <<>> => Head(todo').do \notin {"revoke", "drop_keys"}
         /\ AutoConfig => /\ todo' # <<>> /\ Head(todo').do = "key_directory"
                          /\ Head(todo').org = o /\ Head(todo').name = u /\ Head(todo').id = i
    <3>1. CASE tasks = <<>>
      <4>1. todo' = Tail(todo) /\ ~AutoConfig
        BY <1>1, <2>6, <2>9, <3>1, Fronts
      <4>2. Tail(todo) # <<>> => Head(Tail(todo)).do # "drop_keys"
        <5>1. "drop_keys" \in Dependents /\ Head(todo).do \notin Supports
          BY <1>1 DEF Dependents, Supports
        <5> QED
          BY <5>1, <1>1, <2>6, NextTask DEF CInv, IInv, QueueInv
      <4>3. Tail(todo) # <<>> => Head(Tail(todo)).do # "revoke"
        <5>1. Tail(todo) # <<>> => 2 \in 1 .. Len(todo) /\ Head(Tail(todo)) = todo[2]
          BY <2>6
        <5> QED
          BY <5>1 DEF CInv, KeyInv, KeyList, RevokeIsFirst
      <4> QED
        BY <4>1, <4>2, <4>3
    <3>2. CASE tasks # <<>>
      <4>1. todo' # <<>> /\ Head(todo') = Head(tasks) /\ Head(tasks) = tasks[1] /\ 1 \in 1 .. Len(tasks)
        BY <1>1, <2>6, <2>9, <3>2, Fronts
      <4>2. ~AutoConfig => Head(tasks).do \notin {"revoke", "drop_keys"}
        BY <2>9, <4>1 DEF Plain
      <4> QED
        BY <2>9, <4>1, <4>2
    <3> QED
      BY <3>1, <3>2
  <2>12. Gone'
    BY <2>11 DEF Gone
  <2>13. CertInv'
    <3>1. SUFFICES ASSUME AutoConfig, clean', NEW x \in disk'.accounts
                   PROVE  Certified(x)' \/ (Building(x)' /\ x.id \notin disk'.crl)
      BY DEF CertInv
    <3>2. CASE x \in disk.accounts
      <4>1. Certified(x)
        BY <1>1, <2>6, <3>1, <3>2 DEF CInv, KeyInv, CertInv, Building, KeyTasks
      <4> QED
        BY <4>1, <2>4 DEF Certified
    <3>3. CASE x = a
      <4>1. x.id \notin disk'.crl
        BY <2>2, <2>3, <2>4, <2>5, <3>3
      <4>2. Building(x)'
        BY <2>3, <2>11, <3>1, <3>3 DEF Building, KeyTasks
      <4> QED
        BY <4>1, <4>2
    <3> QED
      BY <2>4, <3>2, <3>3
  <2> QED
    BY <2>7, <2>10, <2>12, <2>13 DEF KeyInv
<1> QED
  BY <1>3, <1>4

(* A task that is done gives way to the next one. *)
LEMMA DoneKeys ==
    ASSUME CInv, todo # <<>>, Then(<<>>), disk'.accounts \subseteq disk.accounts,
           disk' \in Stored, added' = added
    PROVE  /\ KeyList' /\ todo \in Seq(Tasks) /\ todo' = Tail(todo)
           /\ todo' # <<>> => Head(todo').do # "revoke" /\ Head(todo') = todo[2]
           /\ todo' # <<>> /\ Head(todo').do = "drop_keys" =>
                 /\ Head(todo).do = "revoke"
                 /\ Head(todo').org = Head(todo).org /\ Head(todo').name = Head(todo).name
           /\ Head(todo).do \in {"key_directory", "private_key"} =>
                 todo' # <<>> /\ Follows(Head(todo'), Head(todo))
<1>1. todo \in Seq(Tasks) /\ todo' = <<>> \o Tail(todo) /\ todo' = Tail(todo)
  BY DEF CInv, IInv, QueueInv, Then
<1>2. PICK none : none = <<>>
  OBVIOUS
<1>3. /\ none \in Seq(Tasks) /\ Complete(none) /\ RevokeIsFirst(none)
      /\ \A k \in 1 .. Len(none) : Known(none[k])'
  BY <1>2, NoneIsPlain, PlainKeys
<1>4. KeyList'
  <2>1. Complete(todo') /\ RevokeIsFirst(todo')
    BY <1>1, <1>2, <1>3, FrontKeys DEF CInv, KeyInv, KeyList
  <2>2. added' \in Nat /\ added <= added' /\ Then(none)
    BY <1>2 DEF CInv, IInv, TypeOK
  <2>3. AllKnown'
    BY <1>3, <2>2, FrontKnown
  <2> QED
    BY <2>1, <2>3 DEF KeyList, Complete, RevokeIsFirst
<1>5. /\ Head(todo) = todo[1] /\ 1 \in 1 .. Len(todo)
      /\ Len(todo) > 1 => todo' # <<>>
  BY <1>1, Tails
<1>6. todo' # <<>> => 2 \in 1 .. Len(todo) /\ Head(todo') = todo[2]
  BY <1>1
<1>7. todo' # <<>> => Head(todo').do # "revoke"
  BY <1>6 DEF CInv, KeyInv, KeyList, RevokeIsFirst
<1>8. todo' # <<>> /\ Head(todo').do = "drop_keys" =>
         /\ Head(todo).do = "revoke"
         /\ Head(todo').org = Head(todo).org /\ Head(todo').name = Head(todo).name
  BY <1>1, Follower DEF CInv, Dependents
<1>9. ASSUME Head(todo).do \in {"key_directory", "private_key"}
      PROVE  todo' # <<>> /\ Follows(Head(todo'), Head(todo))
  <2>1. 1 < Len(todo) /\ Follows(todo[1 + 1], todo[1])
    BY <1>5, <1>9 DEF CInv, KeyInv, KeyList, Complete
  <2> QED
    BY <2>1, <1>5, <1>6
<1> QED
  BY <1>1, <1>4, <1>6, <1>7, <1>8, <1>9

(* One of an account's keys is made, and another is still to come. *)
LEMMA KeyMadeKeys ==
    ASSUME CInv, todo # <<>>, Head(todo).do \in {"key_directory", "private_key"}, Then(<<>>),
           disk' \in Stored, disk'.accounts = disk.accounts, disk'.cert = disk.cert,
           disk.private \subseteq disk'.private, disk'.crl = disk.crl, added' = added
    PROVE  KeyInv'
<1>1. /\ KeyList' /\ todo' # <<>> /\ Follows(Head(todo'), Head(todo))
      /\ Head(todo').do # "revoke" /\ Head(todo').do # "drop_keys"
  BY DoneKeys
<1>2. IdsInv'
  BY DEF CInv, KeyInv, IdsInv, Names
<1>3. Gone'
  BY <1>1 DEF Gone
<1>4. CertInv'
  <2>1. clean' = clean
    BY DEF Then
  <2>2. ASSUME NEW x, Certified(x) PROVE Certified(x)'
    BY <2>2 DEF Certified
  <2>3. ASSUME NEW x, Building(x) PROVE Building(x)'
    BY <1>1, <2>3 DEF Building, Follows, KeyTasks
  <2> QED
    BY <2>1, <2>2, <2>3 DEF CInv, KeyInv, CertInv
<1> QED
  BY <1>1, <1>2, <1>3, <1>4 DEF KeyInv

LEMMA MakeKeyDirKeys == ASSUME CInv, MakeKeyDir PROVE KeyInv'
<1> DEFINE m == <<Head(todo).org, Head(todo).name>>
<1>1. todo # <<>> /\ Head(todo).do = "key_directory"
  BY DEF MakeKeyDir, Doing
<1>2. m \in Members
  BY <1>1, HeadTask, TaskNames DEF CInv, KeyTasks, Members
<1>3. CASE HasKeys(m)
  BY <1>3, RaiseKeys DEF MakeKeyDir
<1>4. CASE ~HasKeys(m)
  <2>1. /\ disk' = [disk EXCEPT !.keydirs = @ \cup {m}]
        /\ Then(<<>>) /\ added' = added
    BY <1>4 DEF MakeKeyDir
  <2> HIDE DEF m
  <2>2. /\ disk' \in Stored /\ disk'.accounts = disk.accounts /\ disk'.cert = disk.cert
        /\ disk'.private = disk.private /\ disk'.crl = disk.crl
    BY <1>2, <2>1 DEF CInv, IInv, TypeOK, Stored
  <2> QED
    BY <1>1, <2>1, <2>2, KeyMadeKeys
<1> QED
  BY <1>3, <1>4

LEMMA GenerateKeyKeys == ASSUME CInv, GenerateKey PROVE KeyInv'
<1> DEFINE m == <<Head(todo).org, Head(todo).name>>
<1>1. todo # <<>> /\ Head(todo).do = "private_key"
  BY DEF GenerateKey, Doing
<1>2. m \in Members
  BY <1>1, HeadTask, TaskNames DEF CInv, KeyTasks, Members
<1>3. /\ disk' = [disk EXCEPT !.private = @ \cup {m}]
      /\ Then(<<>>) /\ added' = added
  BY DEF GenerateKey
<1> HIDE DEF m
<1>4. /\ disk' \in Stored /\ disk'.accounts = disk.accounts /\ disk'.cert = disk.cert
      /\ disk.private \subseteq disk'.private /\ disk'.crl = disk.crl
  BY <1>2, <1>3 DEF CInv, IInv, TypeOK, Stored
<1> QED
  BY <1>1, <1>3, <1>4, KeyMadeKeys

LEMMA IssueCertKeys == ASSUME CInv, IssueCert PROVE KeyInv'
<1> DEFINE t == Head(todo)
           m == <<t.org, t.name>>
<1>1. todo # <<>> /\ t.do = "certificate"
  BY DEF IssueCert, Doing
<1>2. m \in Members /\ t.id \in Ids /\ m \in disk.private /\ disk.cert[m] = 0
  BY <1>1, HeadTask, TaskNames DEF CInv, KeyTasks, Members, Ready
<1>3. disk' = [disk EXCEPT !.cert[m] = t.id] /\ Then(<<>>) /\ added' = added
  BY DEF IssueCert
<1>4. Known(t)
  <2>1. t = todo[1] /\ 1 \in 1 .. Len(todo)
    BY <1>1 DEF CInv, IInv, QueueInv
  <2> QED
    BY <2>1 DEF CInv, KeyInv, KeyList, AllKnown
<1> HIDE DEF m
<1>5. /\ disk' \in Stored /\ disk'.accounts = disk.accounts
      /\ disk'.private = disk.private /\ disk'.crl = disk.crl
      /\ disk'.cert[m] = t.id /\ \A n \in Members : n # m => disk'.cert[n] = disk.cert[n]
  BY <1>2, <1>3 DEF CInv, IInv, TypeOK, Stored
<1>6. /\ KeyList'
      /\ todo' # <<>> => Head(todo').do # "revoke" /\ Head(todo').do # "drop_keys"
  BY <1>1, <1>3, <1>5, DoneKeys
<1>7. t.id <= added /\ \A x \in disk.accounts : x.id = t.id => Names(x) = m
  BY <1>1, <1>4 DEF Known, KeyTasks, Names, m
<1>8. IdsInv'
  BY <1>3, <1>5, <1>7 DEF CInv, KeyInv, IdsInv, Names
<1>9. Gone'
  BY <1>6 DEF Gone
<1>10. CertInv'
  <2>1. SUFFICES ASSUME AutoConfig, clean', NEW x \in disk'.accounts PROVE Certified(x)'
    BY DEF CertInv
  <2>2. x \in disk.accounts /\ x.id # 0 /\ Names(x) \in Members
    BY <1>5 DEF CInv, IInv, TypeOK, Stored, Accounts, Ids, Names, Members
  <2>3. Certified(x) \/ (Building(x) /\ x.id \notin disk.crl)
    BY <1>3, <2>1, <2>2 DEF CInv, KeyInv, CertInv, Then
  <2>4. CASE Certified(x)
    <3>1. Names(x) # m
      BY <1>2, <2>2, <2>4 DEF Certified
    <3> QED
      BY <1>5, <2>2, <2>4, <3>1 DEF Certified
  <2>5. CASE Building(x) /\ x.id \notin disk.crl
    <3>1. Names(x) = m /\ x.id = t.id
      BY <2>5 DEF Building, Names, m
    <3> QED
      BY <1>2, <1>5, <2>5, <3>1 DEF Certified
  <2> QED
    BY <2>3, <2>4, <2>5
<1> QED
  BY <1>6, <1>8, <1>9, <1>10 DEF KeyInv

(* The tasks after an account that is removed. *)
LEMMA AfterAccountKeys ==
    ASSUME NEW o \in Orgs, NEW u \in Users
    PROVE  /\ AfterAccount(o, u) \in Seq(Tasks) /\ Complete(AfterAccount(o, u))
           /\ RevokeIsFirst(AfterAccount(o, u)) /\ AfterAccount(o, u) # <<>>
           /\ Head(AfterAccount(o, u)).org = o /\ Head(AfterAccount(o, u)).name = u
           /\ Head(AfterAccount(o, u)).do = "revoke"
           /\ \A k \in 1 .. Len(AfterAccount(o, u)) : AfterAccount(o, u)[k].do \notin KeyTasks
<1> DEFINE a == For("revoke", o, u)
           b == For("drop_keys", o, u)
<1>1. a \in Tasks /\ b \in Tasks
  BY TaskKinds DEF UserTasks
<1>2. a.do = "revoke" /\ b.do = "drop_keys" /\ a.org = o /\ a.name = u
  BY DEF For, Task
<1>3. PICK l : l = <<a, b>>
  OBVIOUS
<1>4. AfterAccount(o, u) = l
  BY <1>3 DEF AfterAccount
<1> HIDE DEF a, b
<1>5. l \in Seq(Tasks) /\ Len(l) = 2 /\ l[1] = a /\ l[2] = b /\ l # <<>> /\ Head(l) = a
  BY <1>1, <1>3
<1>6. \A k \in 1 .. 2 : k = 1 \/ k = 2
  OBVIOUS
<1>7. \A k \in 1 .. Len(l) : l[k].do \notin KeyTasks /\ (l[k].do = "revoke" => k = 1)
  BY <1>2, <1>5, <1>6 DEF KeyTasks
<1> QED
  BY <1>2, <1>4, <1>5, <1>7 DEF Complete, RevokeIsFirst, KeyTasks

LEMMA DelUserKeys == ASSUME CInv, DelUser PROVE KeyInv'
<1> DEFINE o == Head(todo).org
           u == Head(todo).name
<1> SUFFICES ASSUME ~Raise PROVE KeyInv'
  BY RaiseKeys
<1>1. todo # <<>> /\ Head(todo).do = "delete_user"
  BY DEF DelUser, Doing
<1>2. o \in Orgs /\ u \in Users
  BY <1>1, HeadTask, TaskNames DEF CInv, UserTasks
<1>3. CASE Skip
  BY <1>1, <1>3, SkipKeys DEF KeyTasks
<1>4. CASE ~Skip
  <2>1. PICK a \in disk.accounts :
            /\ a.org = o /\ a.name = u
            /\ disk' = [disk EXCEPT !.accounts = @ \ {a}, !.marks = @ \ {<<o, a.id>>}]
            /\ Then(AfterAccount(o, u)) /\ added' = added
    BY <1>4 DEF DelUser
  <2> HIDE DEF o, u
  <2>2. /\ disk' \in Stored /\ disk'.accounts = disk.accounts \ {a} /\ disk'.cert = disk.cert
        /\ disk'.private = disk.private /\ disk'.crl = disk.crl
    BY <2>1 DEF CInv, IInv, TypeOK, Stored
  <2>3. PICK tasks : tasks = AfterAccount(o, u)
    OBVIOUS
  <2>4. /\ tasks \in Seq(Tasks) /\ Complete(tasks) /\ RevokeIsFirst(tasks) /\ tasks # <<>>
        /\ Head(tasks).org = o /\ Head(tasks).name = u
        /\ \A k \in 1 .. Len(tasks) : tasks[k].do \notin KeyTasks
    BY <1>2, <2>3, AfterAccountKeys
  <2>5. todo \in Seq(Tasks) /\ todo' = tasks \o Tail(todo) /\ clean' = clean
    BY <2>1, <2>3 DEF CInv, IInv, QueueInv, Then
  <2>6. todo' # <<>> /\ Head(todo') = Head(tasks)
    BY <2>4, <2>5
  <2>7. IdsInv'
    BY <2>1, <2>2 DEF CInv, KeyInv, IdsInv, Names
  <2>8. KeyList'
    <3>1. Complete(todo') /\ RevokeIsFirst(todo')
      BY <1>1, <2>4, <2>5, FrontKeys DEF CInv, KeyInv, KeyList
    <3>2. \A k \in 1 .. Len(tasks) : Known(tasks[k])'
      BY <2>4 DEF Known
    <3>3. AllKnown'
      BY <1>1, <2>1, <2>2, <2>3, <2>4, <3>2, FrontKnown DEF CInv, IInv, TypeOK
    <3> QED
      BY <3>1, <3>3 DEF KeyList, Complete, RevokeIsFirst
  <2>9. Gone'
    <3>1. \A x \in disk'.accounts : ~(x.org = o /\ x.name = u)
      BY <2>1, <2>2 DEF CInv, IInv, OneAccountPerName
    <3> QED
      BY <2>4, <2>6, <3>1 DEF Gone
  <2>10. CertInv'
    <3>1. AutoConfig /\ clean => \A x \in disk.accounts : Certified(x)
      BY <1>1 DEF CInv, KeyInv, CertInv, Building, KeyTasks
    <3> QED
      BY <2>2, <2>5, <3>1 DEF CertInv, Certified, Names
  <2> QED
    BY <2>7, <2>8, <2>9, <2>10 DEF KeyInv
<1> QED
  BY <1>3, <1>4

LEMMA RevokeKeys == ASSUME CInv, Revoke PROVE KeyInv'
<1> DEFINE m == <<Head(todo).org, Head(todo).name>>
<1>1. todo # <<>> /\ Head(todo).do = "revoke"
  BY DEF Revoke, Doing
<1>2. m \in Members
  BY <1>1, HeadTask, TaskNames DEF CInv, UserTasks, Members
<1>3. CASE ~HasKeys(m) \/ disk.cert[m] = 0
  BY <1>3, RaiseKeys DEF Revoke
<1>4. CASE ~(~HasKeys(m) \/ disk.cert[m] = 0)
  <2>1. /\ disk' = [disk EXCEPT !.crl = @ \cup {disk.cert[m]}]
        /\ Then(<<>>) /\ added' = added
    BY <1>4 DEF Revoke
  <2>2. \A x \in disk.accounts : Names(x) # m
    BY <1>1 DEF CInv, KeyInv, Gone, Names
  <2> HIDE DEF m
  <2>3. /\ disk' \in Stored /\ disk'.accounts = disk.accounts /\ disk'.cert = disk.cert
        /\ disk'.private = disk.private /\ disk'.crl = disk.crl \cup {disk.cert[m]}
    BY <1>2, <1>4, <2>1 DEF CInv, IInv, TypeOK, Stored
  <2>4. /\ KeyList' /\ clean' = clean
        /\ todo' # <<>> => Head(todo').do # "revoke"
        /\ todo' # <<>> /\ Head(todo').do = "drop_keys" =>
              Head(todo').org = Head(todo).org /\ Head(todo').name = Head(todo).name
    BY <1>1, <2>1, <2>3, DoneKeys DEF Then
  <2>5. IdsInv'
    BY <1>2, <2>1, <2>3 DEF CInv, KeyInv, IdsInv, Names
  <2>6. Gone'
    BY <1>1, <2>3, <2>4 DEF CInv, KeyInv, Gone
  <2>7. CertInv'
    <3>1. SUFFICES ASSUME AutoConfig, clean', NEW x \in disk'.accounts PROVE Certified(x)'
      BY DEF CertInv
    <3>2. x \in disk.accounts /\ Certified(x)
      BY <1>1, <2>3, <2>4, <3>1 DEF CInv, KeyInv, CertInv, Building, KeyTasks
    <3>3. x.id # disk.cert[m]
      BY <1>2, <2>2, <3>2 DEF CInv, KeyInv, IdsInv
    <3> QED
      BY <2>3, <3>2, <3>3 DEF Certified
  <2> QED
    BY <2>4, <2>5, <2>6, <2>7 DEF KeyInv
<1> QED
  BY <1>3, <1>4

LEMMA DropKeysKeys == ASSUME CInv, DropKeys PROVE KeyInv'
<1> DEFINE m == <<Head(todo).org, Head(todo).name>>
<1>1. todo # <<>> /\ Head(todo).do = "drop_keys"
  BY DEF DropKeys, Doing
<1>2. m \in Members
  BY <1>1, HeadTask, TaskNames DEF CInv, UserTasks, Members
<1>3. disk' = WithoutKeys(m) /\ Then(<<>>) /\ added' = added
  BY DEF DropKeys
<1>4. \A x \in disk.accounts : Names(x) # m
  BY <1>1 DEF CInv, KeyInv, Gone, Names
<1> HIDE DEF m
<1>5. /\ disk' \in Stored /\ disk'.accounts = disk.accounts
      /\ disk'.private = disk.private \ {m} /\ disk'.crl = disk.crl
      /\ disk'.cert[m] = 0 /\ \A n \in Members : n # m => disk'.cert[n] = disk.cert[n]
  BY <1>2, <1>3 DEF CInv, IInv, TypeOK, Stored, WithoutKeys
<1>6. /\ KeyList' /\ clean' = clean
      /\ todo' # <<>> => Head(todo').do # "revoke" /\ Head(todo').do # "drop_keys"
  BY <1>1, <1>3, <1>5, DoneKeys DEF Then
<1>7. IdsInv'
  <2>1. added \in Nat /\ \A x \in disk.accounts : x.id # 0
    BY DEF CInv, IInv, TypeOK, Stored, Accounts, Ids
  <2> QED
    BY <2>1, <1>3, <1>5 DEF CInv, KeyInv, IdsInv, Names
<1>8. Gone'
  BY <1>6 DEF Gone
<1>9. CertInv'
  <2>1. SUFFICES ASSUME AutoConfig, clean', NEW x \in disk'.accounts PROVE Certified(x)'
    BY DEF CertInv
  <2>2. x \in disk.accounts /\ Certified(x) /\ Names(x) \in Members
    BY <1>1, <1>5, <1>6, <2>1 DEF CInv, KeyInv, CertInv, Building, KeyTasks,
       IInv, TypeOK, Stored, Accounts, Names, Members
  <2> QED
    BY <1>4, <1>5, <2>2 DEF Certified
<1> QED
  BY <1>6, <1>7, <1>8, <1>9 DEF KeyInv

LEMMA FinishKeys == ASSUME CInv, Finish PROVE KeyInv'
<1>1. todo = <<>> /\ UNCHANGED <<disk, todo, added, clean>>
  BY DEF Finish
<1> QED
  BY <1>1 DEF CInv, KeyInv, IdsInv, KeyList, Complete, RevokeIsFirst, AllKnown, Gone, CertInv,
     Certified, Building, Names

LEMMA CommandFailsKeys == ASSUME CInv, CommandFails PROVE KeyInv'
<1> DEFINE m == <<Head(todo).org, Head(todo).name>>
<1>1. Ends("failed") /\ todo # <<>> /\ ~clean'
  BY DEF CommandFails, Failed
<1>2. CASE Head(todo).do \in {"private_key", "certificate"}
  <2>1. m \in Members
    BY <1>1, <1>2, HeadTask, TaskNames DEF CInv, KeyTasks, Members
  <2>2. disk' = WithoutKeys(m)
    BY <1>2 DEF CommandFails
  <2> HIDE DEF m
  <2>3. /\ disk' \in Stored /\ disk'.accounts = disk.accounts /\ disk'.crl = disk.crl
        /\ disk'.cert[m] = 0 /\ \A n \in Members : n # m => disk'.cert[n] = disk.cert[n]
    BY <2>1, <2>2 DEF CInv, IInv, TypeOK, Stored, WithoutKeys
  <2> QED
    BY <1>1, <2>3, EndsKeys DEF Stored
<1>3. CASE Head(todo).do \notin {"private_key", "certificate"}
  <2>1. disk' = disk
    BY <1>3 DEF CommandFails
  <2> QED
    BY <1>1, <2>1, EndsKeys DEF CInv, IInv, TypeOK, Stored
<1> QED
  BY <1>2, <1>3

LEMMA KillKeys == ASSUME CInv, Kill PROVE KeyInv'
<1>1. disk' = disk /\ ~clean' /\ Ends("failed")
  BY DEF Kill, Killed
<1> QED
  BY <1>1, EndsKeys DEF CInv, IInv, TypeOK, Stored

LEMMA KillInRmtreeKeys == ASSUME CInv, KillInDropKeys \/ KillInDelUser PROVE KeyInv'
<1>1. /\ Ends("failed") /\ ~clean' /\ disk'.accounts \subseteq disk.accounts
      /\ disk' \in Stored /\ disk'.crl = disk.crl
      /\ \A m \in Members : disk'.cert[m] = disk.cert[m] \/ disk'.cert[m] = 0
  <2>1. CASE KillInDropKeys
    BY <2>1, KillInDropKeysIs DEF CInv, Killed, DiskOK
  <2>2. CASE KillInDelUser
    BY <2>2, KillInDelUserIs DEF CInv, DiskOK
  <2> QED
    BY <2>1, <2>2
<1> QED
  BY <1>1, EndsKeys DEF Stored

LEMMA InvocationKeys ==
    ASSUME CInv, ProcessJson \/ OrgCommand \/ UserCommand \/ GroupCommand PROVE KeyInv'
<1>1. CASE ProcessJson
  <2>1. Begin("json", <<Task("orgs", 0, 0, 0)>>)
    BY <1>1 DEF ProcessJson
  <2>2. Task("orgs", 0, 0, 0) \in Tasks
    BY TaskKinds DEF PlanTasks
  <2>3. Plain(<<Task("orgs", 0, 0, 0)>>)
    BY <2>2, PlainOnes DEF Task, KeyTasks
  <2> QED
    BY <2>1, <2>3, BeginKeys
<1>2. CASE OrgCommand
  <2>1. PICK o \in Orgs, cmd \in {"add_org", "delete_org"} : Begin("cli", <<ForOrg(cmd, o)>>)
    BY <1>2 DEF OrgCommand
  <2>2. ForOrg(cmd, o) \in Tasks
    BY TaskKinds DEF OrgTasks
  <2>3. Plain(<<ForOrg(cmd, o)>>)
    BY <2>2, PlainOnes DEF ForOrg, Task, KeyTasks
  <2> QED
    BY <2>1, <2>3, BeginKeys
<1>3. CASE UserCommand
  <2>1. PICK o \in disk.orgs, u \in Users, cmd \in {"add_user", "delete_user"} :
            Begin("cli", <<For(cmd, o, u)>>)
    BY <1>3 DEF UserCommand
  <2>2. o \in Orgs
    BY DEF CInv, IInv, TypeOK, Stored
  <2>3. For(cmd, o, u) \in Tasks
    BY <2>2, TaskKinds DEF UserTasks
  <2>4. Plain(<<For(cmd, o, u)>>)
    BY <2>3, PlainOnes DEF For, Task, KeyTasks
  <2> QED
    BY <2>1, <2>4, BeginKeys
<1>4. CASE GroupCommand
  <2>1. PICK o \in disk.orgs, g \in Groups :
            \/ Begin("cli", <<For("add_group", o, g)>>)
            \/ Begin("cli", <<For("delete_group", o, g), For("raise", o, g)>>)
    BY <1>4 DEF GroupCommand
  <2>2. o \in Orgs
    BY DEF CInv, IInv, TypeOK, Stored
  <2>3. \A do \in GroupTasks :
            For(do, o, g) \in Tasks /\ For(do, o, g).do \notin KeyTasks \cup {"revoke", "drop_keys"}
    BY <2>2, TaskKinds DEF For, Task, GroupTasks, KeyTasks
  <2>4. CASE Begin("cli", <<For("add_group", o, g)>>)
    BY <2>3, <2>4, PlainOnes, BeginKeys DEF GroupTasks
  <2>5. CASE Begin("cli", <<For("delete_group", o, g), For("raise", o, g)>>)
    BY <2>3, <2>5, PlainPairs, BeginKeys DEF GroupTasks
  <2> QED
    BY <2>1, <2>4, <2>5
<1> QED
  BY <1>1, <1>2, <1>3, <1>4

LEMMA NextKeepsKeys == CInv /\ [Next]_vars => KeyInv'
<1> SUFFICES ASSUME CInv, [Next]_vars PROVE KeyInv'
  OBVIOUS
<1>1. CASE ProcessJson \/ OrgCommand \/ UserCommand \/ GroupCommand
  BY <1>1, InvocationKeys
<1>2. CASE Step
  BY <1>2, DiffOrgsKeys, DiffMembersKeys, DiffUsersKeys, DiffGroupsKeys, AddOrgKeys,
     DelOrgKeys, RemoveOrgKeys, MarkKeys, AddGroupKeys, DelGroupKeys, RaiseKeys,
     AddUserKeys, MakeKeyDirKeys, GenerateKeyKeys, IssueCertKeys, DelUserKeys,
     RevokeKeys, DropKeysKeys, FinishKeys DEF Step, GroupRemoved
<1>3. CASE CommandFails \/ Kill \/ KillInDropKeys \/ KillInDelUser
  BY <1>3, CommandFailsKeys, KillKeys, KillInRmtreeKeys
<1>4. CASE UNCHANGED vars
  BY <1>4 DEF vars, CInv, KeyInv, IdsInv, KeyList, Complete, RevokeIsFirst, AllKnown, Known,
     Gone, CertInv, Certified, Building, Names, Follows
<1> QED
  BY <1>1, <1>2, <1>3, <1>4 DEF Next

LEMMA KeyInvariance == Spec => []CInv
<1>1. Init => CInv
  BY InitInv, InitKeys DEF CInv
<1>2. CInv /\ [Next]_vars => CInv'
  BY NextKeeps, NextKeepsKeys DEF CInv
<1> QED
  BY <1>1, <1>2, PTL DEF Spec

(* As long as every invocation ended by itself and none raised an exception,
   each user has a certificate that was issued for that very account and is not
   revoked, though keys are filed by name: an id is given away once, a
   certificate is revoked only when the account it is for is gone, and add_user
   makes all three files before another task begins (add_user, del_user,
   generate_key, revoke_key). *)
THEOREM CertificatesAreTheirs == Spec => []UsersAreCertified
<1>1. CInv => UsersAreCertified
  <2>1. SUFFICES ASSUME CInv, AutoConfig, clean, status # "running", NEW a \in disk.accounts
                 PROVE  Certified(a) /\ a.id # 0
    BY DEF UsersAreCertified, Certified, Exportable, Names
  <2>2. todo = <<>> /\ a.id # 0
    BY <2>1 DEF CInv, IInv, QueueInv, TypeOK, Stored, Accounts, Ids
  <2> QED
    BY <2>1, <2>2 DEF CInv, KeyInv, CertInv, Building
<1> QED
  BY <1>1, KeyInvariance, PTL

-----------------------------------------------------------------------------
(* What process-json still has to do, and what it will then have done.     *)

Pending(s) == {s[k] : k \in 1 .. Len(s)}

Orgwide == {"delete_org", "remove_org"}
Joins   == {"users", "add_user"}

(* The two lists of the declaration come last, and the first one alone. *)
PlanIsLast ==
    \A k \in 1 .. Len(todo) :
        /\ todo[k].do \in PlanTasks => k = Len(todo)
        /\ todo[k].do = "orgs"      => Len(todo) = 1

(* No account is outside an organisation, and none will be. *)
Belonging ==
    /\ \A x \in disk.accounts : x.org \in disk.orgs
    /\ \A t \in Pending(todo) : t.do \in Joins =>
          t.org \in disk.orgs /\ \A r \in Pending(todo) : r.do \notin Orgwide

(* No task goes against the declaration. *)
Aimed(t) ==
    job = "json" =>
        /\ t.do = "add_org"     => t.org \in conf.orgs
        /\ t.do = "add_user"    => t.name \in conf.users[t.org]
        /\ t.do = "delete_user" => t.org \notin conf.orgs \/ t.name \notin conf.users[t.org]

AllAimed == \A t \in Pending(todo) : Aimed(t)

Planned == \E t \in Pending(todo) : t.do \in PlanTasks

Unmarked(p) == p \notin disk.marks

OrgsPending ==
    \A o \in Orgs : Unmarked(<<o>>) =>
        /\ o \in disk.orgs \ conf.orgs =>
               \/ ForOrg("delete_org", o) \in Pending(todo)
               \/ ForOrg("remove_org", o) \in Pending(todo)
        /\ o \in conf.orgs \ disk.orgs => ForOrg("add_org", o) \in Pending(todo)

OrgsSettled == \A o \in Orgs : Unmarked(<<o>>) => (o \in disk.orgs <=> o \in conf.orgs)

UsersPending(o) ==
    \/ ForOrg("users", o) \in Pending(todo)
    \/ /\ \A u \in conf.users[o] \ UserNames(o) : For("add_user", o, u) \in Pending(todo)
       /\ \A x \in disk.accounts :
             x.org = o /\ Unmarked(<<o, x.id>>) /\ x.name \notin conf.users[o]
                 => For("delete_user", o, x.name) \in Pending(todo)

Declared ==
    job = "json" /\ status \in {"running", "done"} =>
        /\ Planned => OrgsPending \/ \E t \in Pending(todo) : t.do = "orgs"
        /\ ~Planned => /\ OrgsSettled
                       /\ \A o \in conf.orgs : Unmarked(<<o>>) => UsersPending(o)

PlanInv == PlanIsLast /\ Belonging /\ AllAimed /\ Declared

DInv == CInv /\ PlanInv

(* A list of a set has each of its elements. *)
LEMMA ListedAll ==
    ASSUME NEW S, IsFiniteSet(S), NEW s \in SetToSeqs(S), NEW x \in S
    PROVE  \E k \in 1 .. Len(s) : s[k] = x
<1> DEFINE n == Cardinality(S)
           D == 1 .. n
<1>1. n \in Nat
  BY FS_CardinalityType
<1>2. s \in [D -> S] /\ \A i, j \in D : i # j => s[i] # s[j]
  BY DEF SetToSeqs
<1>3. s \in Seq(S) /\ Len(s) = n
  BY <1>1, <1>2
<1>4. SUFFICES ASSUME \A k \in D : s[k] # x PROVE FALSE
  BY <1>3
<1>5. IsFiniteSet(D) /\ Cardinality(D) = n
  <2>1. 1 \in Int /\ n \in Int
    BY <1>1
  <2> QED
    BY <1>1, <2>1, FS_Interval
<1>6. IsFiniteSet(S \ {x}) /\ Cardinality(S \ {x}) = n - 1
  BY FS_RemoveElement
<1>7. s \in [D -> S \ {x}]
  BY <1>2, <1>4
<1>8. Cardinality(S \ {x}) < Cardinality(D)
  BY <1>1, <1>5, <1>6
<1> HIDE DEF D, n
<1>9. \E i, j \in D : i # j /\ s[i] = s[j]
  BY <1>5, <1>6, <1>7, <1>8, FS_PigeonHole
<1> QED
  BY <1>2, <1>9

LEMMA PendingList ==
    ASSUME NEW s \in Seq(Tasks)
    PROVE  /\ Pending(s) \subseteq Tasks
           /\ \A k \in 1 .. Len(s) : s[k] \in Pending(s)
           /\ s # <<>> => /\ Head(s) \in Pending(s) /\ Pending(Tail(s)) \subseteq Pending(s)
                          /\ \A t \in Pending(s) : t = Head(s) \/ t \in Pending(Tail(s))
<1>1. /\ Pending(s) \subseteq Tasks
      /\ \A k \in 1 .. Len(s) : s[k] \in Pending(s)
  BY DEF Pending
<1>2. ASSUME s # <<>>
      PROVE  /\ Head(s) \in Pending(s) /\ Pending(Tail(s)) \subseteq Pending(s)
             /\ \A t \in Pending(s) : t = Head(s) \/ t \in Pending(Tail(s))
  <2>1. Head(s) \in Pending(s)
    BY <1>1, <1>2, Tails
  <2>2. Len(s) \in Nat /\ Len(Tail(s)) = Len(s) - 1
    BY <1>2
  <2>3. \A k \in 1 .. Len(s) - 1 : Tail(s)[k] = s[k + 1]
    BY <1>2
  <2>4. Pending(Tail(s)) \subseteq Pending(s)
    <3>1. ASSUME NEW k \in 1 .. Len(Tail(s)) PROVE Tail(s)[k] \in Pending(s)
      BY <1>1, <2>2, <2>3
    <3> QED
      BY <3>1 DEF Pending
  <2>5. ASSUME NEW k \in 1 .. Len(s) PROVE s[k] = Head(s) \/ s[k] \in Pending(Tail(s))
    <3>1. CASE k = 1
      BY <1>2, <3>1, Tails
    <3>2. CASE k # 1
      <4>1. k - 1 \in 1 .. Len(Tail(s)) /\ Tail(s)[k - 1] = s[k]
        BY <2>2, <2>3, <3>2
      <4> QED
        BY <4>1 DEF Pending
    <3> QED
      BY <3>1, <3>2
  <2>6. \A t \in Pending(s) : t = Head(s) \/ t \in Pending(Tail(s))
    BY <2>5 DEF Pending
  <2> QED
    BY <2>1, <2>4, <2>6
<1> QED
  BY <1>1, <1>2

LEMMA PendingLists ==
    ASSUME NEW a \in Seq(Tasks), NEW b \in Seq(Tasks)
    PROVE  Pending(a \o b) = Pending(a) \cup Pending(b)
<1>1. PICK l : l = a \o b
  OBVIOUS
<1>2. /\ Len(a) \in Nat /\ Len(b) \in Nat /\ Len(l) = Len(a) + Len(b)
      /\ \A k \in 1 .. Len(a) + Len(b) : l[k] = IF k <= Len(a) THEN a[k] ELSE b[k - Len(a)]
  BY <1>1
<1>3. ASSUME NEW k \in 1 .. Len(l) PROVE l[k] \in Pending(a) \cup Pending(b)
  <2>1. CASE k <= Len(a)
    <3>1. k \in 1 .. Len(a) /\ l[k] = a[k]
      BY <1>2, <2>1
    <3> QED
      BY <3>1 DEF Pending
  <2>2. CASE k > Len(a)
    <3>1. k - Len(a) \in 1 .. Len(b) /\ l[k] = b[k - Len(a)]
      BY <1>2, <2>2
    <3> QED
      BY <3>1 DEF Pending
  <2> QED
    BY <1>2, <2>1, <2>2
<1>4. ASSUME NEW k \in 1 .. Len(a) PROVE a[k] \in Pending(l)
  <2>1. k \in 1 .. Len(l) /\ l[k] = a[k]
    BY <1>2
  <2> QED
    BY <2>1 DEF Pending
<1>5. ASSUME NEW k \in 1 .. Len(b) PROVE b[k] \in Pending(l)
  <2>1. Len(a) + k \in 1 .. Len(l) /\ l[Len(a) + k] = b[k]
    BY <1>2
  <2> QED
    BY <2>1 DEF Pending
<1>6. Pending(l) = Pending(a) \cup Pending(b)
  BY <1>3, <1>4, <1>5 DEF Pending
<1> QED
  BY <1>1, <1>6

LEMMA PendingNone == Pending(<<>>) = {}
BY DEF Pending

LEMMA PendingOne == ASSUME NEW t PROVE Pending(<<t>>) = {t}
<1>1. PICK s : s = <<t>>
  OBVIOUS
<1>2. Len(s) = 1 /\ s[1] = t
  BY <1>1
<1>3. \A k \in 1 .. 1 : k = 1
  OBVIOUS
<1>4. Pending(s) = {t}
  BY <1>2, <1>3 DEF Pending
<1> QED
  BY <1>1, <1>4

LEMMA PendingNames ==
    ASSUME NEW S \in SUBSET Users, NEW s \in SetToSeqs(S), NEW o \in Orgs,
           NEW do \in {"add_user", "delete_user"}
    PROVE  /\ EachName(do, o, s) \in Seq(Tasks)
           /\ Pending(EachName(do, o, s)) = {For(do, o, u) : u \in S}
<1>1. EachName(do, o, s) \in Seq(Tasks)
  BY EachNameIs DEF Simple
<1>2. PICK l : l = EachName(do, o, s)
  OBVIOUS
<1>3. IsFiniteSet(S)
  BY FS_Subset, FiniteNames
<1>4. DOMAIN s = 1 .. Len(s) /\ Len(s) \in Nat /\ \A k \in 1 .. Len(s) : s[k] \in S
  BY <1>3, Listed
<1>5. \A u \in S : \E k \in 1 .. Len(s) : s[k] = u
  BY <1>3, ListedAll
<1>6. DOMAIN l = 1 .. Len(s) /\ \A k \in 1 .. Len(s) : l[k] = For(do, o, s[k])
  BY <1>2, <1>4 DEF EachName
<1>7. Len(l) = Len(s)
  BY <1>1, <1>2, <1>4, <1>6
<1>8. Pending(l) = {For(do, o, u) : u \in S}
  BY <1>4, <1>5, <1>6, <1>7 DEF Pending
<1> QED
  BY <1>1, <1>2, <1>8

LEMMA PendingGroups ==
    ASSUME NEW S \in SUBSET Groups, NEW s \in SetToSeqs(S), NEW o \in Orgs,
           NEW do \in {"add_group", "delete_group"}
    PROVE  /\ EachName(do, o, s) \in Seq(Tasks)
           /\ \A t \in Pending(EachName(do, o, s)) : t.do = do
<1>1. EachName(do, o, s) \in Seq(Tasks)
  BY EachGroupIs DEF Simple
<1>2. PICK l : l = EachName(do, o, s)
  OBVIOUS
<1>3. \A k \in DOMAIN l : l[k].do = do
  BY <1>2 DEF EachName, For, Task
<1>4. DOMAIN l = 1 .. Len(l)
  BY <1>1, <1>2
<1> QED
  BY <1>1, <1>2, <1>3, <1>4 DEF Pending

LEMMA PendingOrgs ==
    ASSUME NEW S \in SUBSET Orgs, NEW s \in SetToSeqs(S),
           NEW do \in {"add_org", "delete_org"}
    PROVE  /\ EachOrg(do, s) \in Seq(Tasks)
           /\ Pending(EachOrg(do, s)) = {ForOrg(do, o) : o \in S}
<1>1. PICK l : l = EachOrg(do, s)
  OBVIOUS
<1>2. IsFiniteSet(S)
  BY FS_Subset, FiniteNames
<1>3. DOMAIN s = 1 .. Len(s) /\ Len(s) \in Nat /\ \A k \in 1 .. Len(s) : s[k] \in S
  BY <1>2, Listed
<1>4. \A o \in S : \E k \in 1 .. Len(s) : s[k] = o
  BY <1>2, ListedAll
<1>5. l = [k \in 1 .. Len(s) |-> ForOrg(do, s[k])]
  BY <1>1, <1>3 DEF EachOrg
<1>6. DOMAIN l = 1 .. Len(s) /\ \A k \in 1 .. Len(s) : l[k] = ForOrg(do, s[k])
  BY <1>5
<1>7. \A k \in 1 .. Len(s) : l[k] \in Tasks
  BY <1>3, <1>6, TaskKinds DEF OrgTasks
<1>8. l \in Seq(Tasks) /\ Len(l) = Len(s)
  <2>1. l = [k \in 1 .. Len(s) |-> l[k]]
    BY <1>5, <1>6
  <2> QED
    BY <1>3, <1>7, <2>1, ListOfTasks
<1>9. Pending(l) = {ForOrg(do, o) : o \in S}
  BY <1>3, <1>4, <1>6, <1>8 DEF Pending
<1> QED
  BY <1>1, <1>8, <1>9

LEMMA ThenPending ==
    ASSUME DInv, todo # <<>>, NEW tasks \in Seq(Tasks), Then(tasks)
    PROVE  /\ todo \in Seq(Tasks) /\ status = "running" /\ Head(todo) \in Pending(todo)
           /\ UNCHANGED <<job, conf, status>>
           /\ todo' = tasks \o Tail(todo)
           /\ Pending(todo') \subseteq Pending(tasks) \cup Pending(todo)
           /\ Pending(tasks) \subseteq Pending(todo')
           /\ \A t \in Pending(todo) : t = Head(todo) \/ t \in Pending(todo')
<1>1. /\ todo \in Seq(Tasks) /\ status = "running" /\ UNCHANGED <<job, conf, status>>
      /\ todo' = tasks \o Tail(todo)
  BY DEF DInv, CInv, IInv, QueueInv, Then
<1>2. /\ Head(todo) \in Pending(todo) /\ Pending(Tail(todo)) \subseteq Pending(todo)
      /\ \A t \in Pending(todo) : t = Head(todo) \/ t \in Pending(Tail(todo))
  BY <1>1, PendingList
<1>3. Pending(todo') = Pending(tasks) \cup Pending(Tail(todo))
  <2>1. Tail(todo) \in Seq(Tasks)
    BY <1>1, Tails
  <2> QED
    BY <1>1, <2>1, PendingLists
<1> QED
  BY <1>1, <1>2, <1>3

LEMMA ThenOrder ==
    ASSUME DInv, todo # <<>>, NEW tasks \in Seq(Tasks), Then(tasks),
           Head(todo).do \notin PlanTasks,
           \A t \in Pending(tasks) : t.do \notin PlanTasks
    PROVE  /\ PlanIsLast' /\ (Planned' <=> Planned)
           /\ (\E t \in Pending(todo) : t.do = "orgs")
                  => \E t \in Pending(todo') : t.do = "orgs"
<1>1. /\ todo \in Seq(Tasks) /\ todo' = tasks \o Tail(todo)
      /\ Pending(todo') \subseteq Pending(tasks) \cup Pending(todo)
      /\ \A t \in Pending(todo) : t = Head(todo) \/ t \in Pending(todo')
  BY ThenPending
<1>2. Planned' <=> Planned
  BY <1>1 DEF Planned
<1>3. (\E t \in Pending(todo) : t.do = "orgs") => \E t \in Pending(todo') : t.do = "orgs"
  BY <1>1 DEF PlanTasks
<1>4. /\ todo' \in Seq(Tasks) /\ Len(todo') = Len(tasks) + Len(todo) - 1
      /\ \A k \in 1 .. Len(todo') :
            todo'[k] = IF k <= Len(tasks) THEN tasks[k] ELSE todo[k - Len(tasks) + 1]
  BY <1>1, PutInFront
<1>5. Len(tasks) \in Nat /\ Len(todo) \in Nat
  BY <1>1
<1>6. ASSUME NEW k \in 1 .. Len(todo')
      PROVE  /\ todo'[k].do \in PlanTasks => k = Len(todo')
             /\ todo'[k].do = "orgs"      => Len(todo') = 1
  <2>1. CASE k <= Len(tasks)
    <3>1. k \in 1 .. Len(tasks) /\ todo'[k] = tasks[k]
      BY <1>4, <1>5, <2>1
    <3>2. tasks[k] \in Pending(tasks)
      BY <3>1, PendingList
    <3> QED
      BY <3>1, <3>2 DEF PlanTasks
  <2>2. CASE k > Len(tasks)
    <3>1. /\ k - Len(tasks) + 1 \in 2 .. Len(todo)
          /\ todo'[k] = todo[k - Len(tasks) + 1]
      BY <1>4, <1>5, <2>2
    <3>2. /\ todo'[k].do \in PlanTasks => k - Len(tasks) + 1 = Len(todo)
          /\ todo'[k].do # "orgs"
      BY <1>5, <3>1 DEF DInv, PlanInv, PlanIsLast
    <3> QED
      BY <1>4, <1>5, <3>2
  <2> QED
    BY <1>5, <2>1, <2>2
<1>7. PlanIsLast'
  BY <1>6 DEF PlanIsLast
<1> QED
  BY <1>2, <1>3, <1>7

(* Tasks that change neither organisations nor accounts. *)
Minor(t) == t.do \notin PlanTasks \cup Joins \cup Orgwide \cup {"add_org", "delete_user"}

LEMMA MinorPlan ==
    ASSUME DInv, todo # <<>>, Minor(Head(todo)), NEW tasks \in Seq(Tasks), Then(tasks),
           \A t \in Pending(tasks) : Minor(t),
           disk'.orgs = disk.orgs, disk'.accounts = disk.accounts,
           job = "json" => disk'.marks = disk.marks
    PROVE  PlanInv'
<1>1. /\ status = "running" /\ UNCHANGED <<job, conf, status>>
      /\ Pending(todo') \subseteq Pending(tasks) \cup Pending(todo)
      /\ \A t \in Pending(todo) : t = Head(todo) \/ t \in Pending(todo')
  BY ThenPending
<1>2. /\ PlanIsLast' /\ (Planned' <=> Planned)
      /\ (\E t \in Pending(todo) : t.do = "orgs") => \E t \in Pending(todo') : t.do = "orgs"
  BY ThenOrder DEF Minor
<1>3. Belonging'
  BY <1>1 DEF DInv, PlanInv, Belonging, Minor
<1>4. AllAimed'
  BY <1>1 DEF DInv, PlanInv, AllAimed, Aimed, Minor, Joins
<1>5. Declared'
  <2>1. SUFFICES ASSUME job' = "json"
                 PROVE  /\ Planned' => OrgsPending' \/ \E t \in Pending(todo') : t.do = "orgs"
                        /\ ~Planned' => /\ OrgsSettled'
                                        /\ \A o \in conf'.orgs : Unmarked(<<o>>)' => UsersPending(o)'
    BY DEF Declared
  <2>2. disk'.marks = disk.marks /\ job = "json" /\ status \in {"running", "done"}
    BY <1>1, <2>1
  <2>3. \A o : /\ ForOrg("delete_org", o) \in Pending(todo) => ForOrg("delete_org", o) \in Pending(todo')
               /\ ForOrg("remove_org", o) \in Pending(todo) => ForOrg("remove_org", o) \in Pending(todo')
               /\ ForOrg("add_org", o) \in Pending(todo) => ForOrg("add_org", o) \in Pending(todo')
               /\ ForOrg("users", o) \in Pending(todo) => ForOrg("users", o) \in Pending(todo')
    BY <1>1 DEF Minor, Orgwide, Joins, ForOrg, Task
  <2>4. \A o, u :
           /\ For("add_user", o, u) \in Pending(todo) => For("add_user", o, u) \in Pending(todo')
           /\ For("delete_user", o, u) \in Pending(todo) => For("delete_user", o, u) \in Pending(todo')
    BY <1>1 DEF Minor, Joins, For, Task
  <2>5. OrgsPending => OrgsPending'
    BY <1>1, <2>2, <2>3 DEF OrgsPending, Unmarked
  <2>6. OrgsSettled => OrgsSettled'
    BY <1>1, <2>2 DEF OrgsSettled, Unmarked
  <2>7. ASSUME NEW o, UsersPending(o) PROVE UsersPending(o)'
    BY <1>1, <2>2, <2>3, <2>4, <2>7 DEF UsersPending, UserNames, Unmarked
  <2> QED
    BY <1>1, <1>2, <2>2, <2>5, <2>6, <2>7 DEF DInv, PlanInv, Declared, Unmarked
<1> QED
  BY <1>2, <1>3, <1>4, <1>5 DEF PlanInv

LEMMA EndsPlan ==
    ASSUME DInv, Ends("failed"), disk'.orgs = disk.orgs, disk'.accounts \subseteq disk.accounts
    PROVE  PlanInv'
<1>1. todo' = <<>> /\ status' = "failed"
  BY DEF Ends
<1>2. Pending(todo') = {}
  BY <1>1, PendingNone
<1>3. PlanIsLast'
  BY <1>1 DEF PlanIsLast
<1> QED
  BY <1>1, <1>2, <1>3 DEF DInv, PlanInv, Belonging, AllAimed, Declared

LEMMA RefusePlan == ASSUME DInv, Refuse PROVE PlanInv'
BY EndsPlan DEF Refuse

LEMMA RaisePlan == ASSUME DInv, Raise PROVE PlanInv'
BY EndsPlan DEF Raise, Failed

LEMMA InitPlan == Init => PlanInv
<1> SUFFICES ASSUME Init PROVE PlanInv
  OBVIOUS
<1>1. todo = <<>> /\ Pending(todo) = {} /\ disk.accounts = {} /\ status = "idle"
  BY PendingNone DEF Init, Empty
<1>2. PlanIsLast
  BY <1>1 DEF PlanIsLast
<1> QED
  BY <1>1, <1>2 DEF PlanInv, Belonging, AllAimed, Declared

LEMMA BeginPlan ==
    ASSUME DInv, NEW who, NEW tasks \in Seq(Tasks), Begin(who, tasks),
           \A k \in 1 .. Len(tasks) : tasks[k].do \in PlanTasks => Len(tasks) = 1,
           who = "json" => tasks = <<Task("orgs", 0, 0, 0)>>,
           \A t \in Pending(tasks) : t.do \in Joins =>
               t.org \in disk.orgs /\ \A r \in Pending(tasks) : r.do \notin Orgwide
    PROVE  PlanInv'
<1>1. todo' = tasks /\ job' = who /\ disk' = disk
  BY DEF Begin
<1>2. PlanIsLast'
  <2>1. \A k \in 1 .. 1 : k = 1
    OBVIOUS
  <2> QED
    BY <1>1, <2>1 DEF PlanIsLast, PlanTasks
<1>3. Belonging'
  BY <1>1 DEF DInv, PlanInv, Belonging
<1>4. who = "json" => Pending(tasks) = {Task("orgs", 0, 0, 0)}
  BY PendingOne
<1>5. AllAimed'
  BY <1>1, <1>4 DEF AllAimed, Aimed, Task
<1>6. Declared'
  BY <1>1, <1>4 DEF Declared, Planned, PlanTasks, Task
<1> QED
  BY <1>2, <1>3, <1>5, <1>6 DEF PlanInv

LEMMA OnlyImperativeOnes ==
    /\ \A o : IsImperative(<<o>>) => <<o>> \in disk.marks
    /\ \A o, x : IsImperative(<<o, x>>) => <<o>> \in disk.marks \/ <<o, x>> \in disk.marks
<1>1. ASSUME NEW o, IsImperative(<<o>>) PROVE <<o>> \in disk.marks
  <2>1. PICK p : p = <<o>>
    OBVIOUS
  <2>2. p \in Seq({o}) /\ Len(p) = 1
    BY <2>1
  <2>3. SubSeq(p, 1, 1) = p
    BY <2>2
  <2>4. \A n \in 1 .. 1 : n = 1
    OBVIOUS
  <2> QED
    BY <1>1, <2>1, <2>2, <2>3, <2>4 DEF IsImperative
<1>2. ASSUME NEW o, NEW x, IsImperative(<<o, x>>)
      PROVE  <<o>> \in disk.marks \/ <<o, x>> \in disk.marks
  <2>1. PICK p : p = <<o, x>>
    OBVIOUS
  <2>2. p \in Seq({o, x}) /\ Len(p) = 2 /\ p[1] = o
    BY <2>1
  <2>3. SubSeq(p, 1, 2) = p
    BY <2>2
  <2>4. SubSeq(p, 1, 1) = <<o>>
    <3>1. PICK q : q = SubSeq(p, 1, 1)
      OBVIOUS
    <3>2. Len(q) = 1 /\ q[1] = o /\ q \in Seq({o, x})
      BY <2>2, <3>1
    <3>3. q = <<q[1]>>
      BY <3>2
    <3> QED
      BY <3>1, <3>2, <3>3
  <2>5. \A n \in 1 .. 2 : n = 1 \/ n = 2
    OBVIOUS
  <2> QED
    BY <1>2, <2>1, <2>2, <2>3, <2>4, <2>5 DEF IsImperative
<1> QED
  BY <1>1, <1>2

(* When the first list of the declaration is read, nothing else is pending;
   when the second one is, what the first one asked for is done. *)
LEMMA PlanAlone ==
    ASSUME DInv, todo # <<>>, Head(todo).do \in PlanTasks, NEW tasks \in Seq(Tasks), Then(tasks)
    PROVE  /\ Pending(todo) = {Head(todo)} /\ todo' = tasks
<1>1. todo \in Seq(Tasks) /\ todo' = tasks \o Tail(todo)
  BY ThenPending
<1>2. Head(todo) = todo[1] /\ 1 \in 1 .. Len(todo)
  BY <1>1, Tails
<1>3. 1 = Len(todo)
  BY <1>2 DEF DInv, PlanInv, PlanIsLast
<1>4. Tail(todo) = <<>>
  <2>1. 2 \notin 1 .. Len(todo)
    BY <1>3
  <2> QED
    BY <1>1, <2>1, Tails
<1>5. todo' = tasks
  <2>1. tasks \o <<>> = tasks
    OBVIOUS
  <2> QED
    BY <1>1, <1>4, <2>1
<1>6. \A k \in 1 .. 1 : k = 1
  OBVIOUS
<1>7. Pending(todo) = {Head(todo)}
  BY <1>2, <1>3, <1>6 DEF Pending
<1> QED
  BY <1>5, <1>7

LEMMA DiffOrgsPlan == ASSUME DInv, DiffOrgs PROVE PlanInv'
<1> DEFINE D(del) == EachOrg("delete_org", del)
           A(add) == EachOrg("add_org", add)
           m == Task("members", 0, 0, 0)
<1>1. PICK del \in SetToSeqs(Surplus(disk.orgs, conf.orgs)),
           add \in SetToSeqs(Missing(disk.orgs, conf.orgs)) :
          Then(D(del) \o A(add) \o <<m>>)
  BY DEF DiffOrgs
<1>2. todo # <<>> /\ Head(todo).do = "orgs" /\ disk' = disk
  BY DEF DiffOrgs, Doing
<1>3. /\ Surplus(disk.orgs, conf.orgs) \in SUBSET Orgs
      /\ Missing(disk.orgs, conf.orgs) \in SUBSET Orgs
  BY Parameters DEF DInv, CInv, IInv, TypeOK, Stored, Surplus, Missing
<1>4. PICK d, e : d = D(del) /\ e = A(add)
  OBVIOUS
<1>5. /\ d \in Seq(Tasks) /\ Pending(d) = {ForOrg("delete_org", o) : o \in Surplus(disk.orgs, conf.orgs)}
      /\ e \in Seq(Tasks) /\ Pending(e) = {ForOrg("add_org", o) : o \in Missing(disk.orgs, conf.orgs)}
  BY <1>3, <1>4, PendingOrgs
<1>6. m \in Tasks /\ m.do = "members"
  BY TaskKinds DEF PlanTasks, Task
<1> HIDE DEF D, A, m
<1>7. PICK c : c = d \o e
  OBVIOUS
<1>8. c \in Seq(Tasks) /\ Pending(c) = Pending(d) \cup Pending(e)
  BY <1>5, <1>7, PendingLists
<1>9. PICK l : l = c \o <<m>>
  OBVIOUS
<1>10. /\ l \in Seq(Tasks) /\ Len(l) = Len(c) + 1 /\ Len(c) \in Nat
       /\ l[Len(l)] = m /\ \A k \in 1 .. Len(c) : l[k] = c[k]
  BY <1>6, <1>8, <1>9
<1>11. Pending(l) = Pending(c) \cup {m}
  <2>1. PICK u : u = <<m>>
    OBVIOUS
  <2>2. u \in Seq(Tasks) /\ l = c \o u
    BY <1>6, <1>9, <2>1
  <2>3. Pending(u) = {m}
    BY <2>1, PendingOne
  <2> QED
    BY <1>8, <2>2, <2>3, PendingLists
<1>12. todo' = l /\ UNCHANGED <<job, conf, status>>
  <2>1. Then(l)
    BY <1>1, <1>4, <1>7, <1>9
  <2> QED
    BY <1>2, <1>10, <2>1, PlanAlone DEF PlanTasks, Then
<1>13. \A t \in Pending(c) : t.do \in {"delete_org", "add_org"}
  BY <1>5, <1>8 DEF ForOrg, Task
<1>14. PlanIsLast'
  <2>1. ASSUME NEW k \in 1 .. Len(l) PROVE (l[k].do \in PlanTasks => k = Len(l)) /\ l[k].do # "orgs"
    <3>1. CASE k \in 1 .. Len(c)
      <4>1. l[k] \in Pending(c)
        BY <1>8, <1>10, <3>1, PendingList
      <4> QED
        BY <1>13, <4>1 DEF PlanTasks
    <3>2. CASE k \notin 1 .. Len(c)
      <4>1. k = Len(l)
        BY <1>10, <3>2
      <4> QED
        BY <1>6, <1>10, <4>1
    <3> QED
      BY <3>1, <3>2
  <2> QED
    BY <1>12, <2>1 DEF PlanIsLast
<1>15. Belonging'
  BY <1>2, <1>6, <1>11, <1>12, <1>13 DEF DInv, PlanInv, Belonging, Joins
<1>16. AllAimed'
  <2>1. \A o \in Missing(disk.orgs, conf.orgs) : o \in conf.orgs
    BY DEF Missing
  <2> QED
    BY <1>5, <1>6, <1>8, <1>11, <1>12, <2>1 DEF AllAimed, Aimed, ForOrg, Task
<1>17. Declared'
  <2>1. Planned'
    BY <1>6, <1>11, <1>12 DEF Planned, PlanTasks
  <2>2. OrgsPending'
    BY <1>2, <1>5, <1>8, <1>11, <1>12 DEF OrgsPending, Surplus, Missing
  <2> QED
    BY <2>1, <2>2 DEF Declared
<1> QED
  BY <1>14, <1>15, <1>16, <1>17 DEF PlanInv

LEMMA DiffMembersPlan == ASSUME DInv, DiffMembers PROVE PlanInv'
<1> DEFINE tasks(s) == [k \in 1 .. 2 * Len(s) |->
                          ForOrg(IF k % 2 = 1 THEN "users" ELSE "groups", s[(k + 1) \div 2])]
<1> PICK S : S = {o \in disk.orgs : ~IsImperative(<<o>>)}
  OBVIOUS
<1>1. PICK s \in SetToSeqs(S) : Then(tasks(s))
  BY DEF DiffMembers
<1>2. todo # <<>> /\ Head(todo).do = "members" /\ disk' = disk
  BY DEF DiffMembers, Doing
<1> HIDE DEF tasks
<1>3. S \in SUBSET Orgs /\ S \subseteq disk.orgs
  BY DEF DInv, CInv, IInv, TypeOK, Stored
<1>4. IsFiniteSet(S)
  BY <1>3, FiniteNames, FS_Subset
<1>5. Len(s) \in Nat /\ \A k \in 1 .. Len(s) : s[k] \in S
  BY <1>4, Listed
<1>6. PICK f : f = tasks(s)
  OBVIOUS
<1>7. ASSUME NEW k \in 1 .. 2 * Len(s)
      PROVE  f[k] \in Tasks /\ f[k].do \in {"users", "groups"} /\ f[k].org \in S
  <2>1. (k + 1) \div 2 \in 1 .. Len(s)
    BY <1>5
  <2>2. PICK o \in S : o = s[(k + 1) \div 2]
    BY <2>1, <1>5
  <2>3. f[k] = ForOrg("users", o) \/ f[k] = ForOrg("groups", o)
    BY <1>6, <2>2 DEF tasks
  <2>4. f[k] \in Tasks
    BY <1>3, <2>3, TaskKinds DEF OrgTasks
  <2> QED
    BY <2>3, <2>4 DEF ForOrg, Task
<1>8. f \in Seq(Tasks) /\ Len(f) = 2 * Len(s)
  <2>1. f = [k \in 1 .. 2 * Len(s) |-> f[k]] /\ 2 * Len(s) \in Nat
    BY <1>5, <1>6 DEF tasks
  <2> QED
    BY <2>1, <1>7, ListOfTasks
<1>9. \A t \in Pending(f) : t.do \in {"users", "groups"} /\ t.org \in S
  BY <1>7, <1>8 DEF Pending
<1>10. ASSUME NEW o \in S PROVE ForOrg("users", o) \in Pending(f)
  <2>1. PICK j \in 1 .. Len(s) : s[j] = o
    BY <1>4, ListedAll
  <2>2. PICK k : k = 2 * j - 1
    OBVIOUS
  <2>3. k \in 1 .. 2 * Len(s) /\ k % 2 = 1 /\ (k + 1) \div 2 = j
    BY <1>5, <2>2
  <2>4. f[k] = ForOrg("users", o)
    BY <1>6, <2>1, <2>3 DEF tasks
  <2> QED
    BY <1>8, <2>3, <2>4 DEF Pending
<1>11. Pending(todo) = {Head(todo)} /\ todo' = f /\ UNCHANGED <<job, conf, status>>
  BY <1>1, <1>2, <1>6, <1>8, PlanAlone DEF PlanTasks, Then
<1>12. PlanIsLast'
  BY <1>7, <1>8, <1>11 DEF PlanIsLast, PlanTasks
<1>13. Belonging'
  BY <1>2, <1>3, <1>9, <1>11 DEF DInv, PlanInv, Belonging, Joins, Orgwide
<1>14. AllAimed'
  BY <1>9, <1>11 DEF AllAimed, Aimed
<1>15. Declared'
  <2>1. ~Planned'
    BY <1>9, <1>11 DEF Planned, PlanTasks
  <2>2. SUFFICES ASSUME job = "json", status \in {"running", "done"}
                 PROVE  OrgsSettled' /\ \A o \in conf.orgs : Unmarked(<<o>>)' => UsersPending(o)'
    BY <1>11, <2>1 DEF Declared
  <2>3. OrgsPending
    BY <1>2, <1>11, <2>2 DEF DInv, PlanInv, Declared, Planned, PlanTasks
  <2>4. OrgsSettled
    <3>1. \A o : /\ ForOrg("delete_org", o) \notin Pending(todo)
                 /\ ForOrg("remove_org", o) \notin Pending(todo)
                 /\ ForOrg("add_org", o) \notin Pending(todo)
      BY <1>2, <1>11 DEF ForOrg, Task
    <3>2. conf.orgs \subseteq Orgs
      BY Parameters DEF DInv, CInv, IInv, TypeOK
    <3> QED
      BY <2>3, <3>1, <3>2 DEF OrgsPending, OrgsSettled
  <2>5. OrgsSettled'
    BY <1>2, <1>11, <2>4 DEF OrgsSettled, Unmarked
  <2>6. ASSUME NEW o \in conf.orgs, Unmarked(<<o>>)' PROVE UsersPending(o)'
    <3>1. Unmarked(<<o>>) /\ o \in Orgs
      BY <1>2, <2>6, Parameters DEF Unmarked, DInv, CInv, IInv, TypeOK
    <3>2. o \in disk.orgs
      BY <2>4, <2>6, <3>1 DEF OrgsSettled
    <3>3. o \in S
      BY <3>1, <3>2, OnlyImperativeOnes DEF Unmarked
    <3> QED
      BY <1>10, <1>11, <3>3 DEF UsersPending
  <2> QED
    BY <2>5, <2>6
<1> QED
  BY <1>12, <1>13, <1>14, <1>15 DEF PlanInv

LEMMA DiffUsersPlan == ASSUME DInv, DiffUsers PROVE PlanInv'
<1> PICK o : o = Head(todo).org
  OBVIOUS
<1> SUFFICES ASSUME ~Raise PROVE PlanInv'
  BY RaisePlan
<1>1. PICK del \in SetToSeqs(Surplus(UserNames(o), conf.users[o])),
           add \in SetToSeqs(Missing(UserNames(o), conf.users[o])) :
          Then(EachName("delete_user", o, del) \o EachName("add_user", o, add))
  BY DEF DiffUsers
<1>2. todo # <<>> /\ Head(todo).do = "users" /\ disk' = disk
  BY DEF DiffUsers, Doing
<1>3. o \in Orgs
  BY <1>2, HeadTask, TaskNames DEF DInv, CInv, OrgTasks
<1>4. PICK sur, mis : /\ sur = Surplus(UserNames(o), conf.users[o])
                      /\ mis = Missing(UserNames(o), conf.users[o])
  OBVIOUS
<1>5. sur \in SUBSET Users /\ mis \in SUBSET Users
  BY <1>3, <1>4, Parameters DEF DInv, CInv, IInv, TypeOK, Stored, Accounts, Surplus, Missing,
     UserNames
<1>6. PICK d, e : d = EachName("delete_user", o, del) /\ e = EachName("add_user", o, add)
  OBVIOUS
<1>7. /\ d \in Seq(Tasks) /\ Pending(d) = {For("delete_user", o, u) : u \in sur}
      /\ e \in Seq(Tasks) /\ Pending(e) = {For("add_user", o, u) : u \in mis}
  BY <1>1, <1>3, <1>4, <1>5, <1>6, PendingNames
<1>8. PICK l : l = d \o e
  OBVIOUS
<1>9. l \in Seq(Tasks) /\ Pending(l) = Pending(d) \cup Pending(e) /\ Then(l)
  BY <1>1, <1>6, <1>7, <1>8, PendingLists
<1>10. /\ status = "running" /\ UNCHANGED <<job, conf, status>> /\ Head(todo) \in Pending(todo)
       /\ Pending(todo') \subseteq Pending(l) \cup Pending(todo)
       /\ Pending(l) \subseteq Pending(todo')
       /\ \A t \in Pending(todo) : t = Head(todo) \/ t \in Pending(todo')
  BY <1>2, <1>9, ThenPending
<1>11. \A t \in Pending(l) : t.do \in {"delete_user", "add_user"} /\ t.org = o
  BY <1>7, <1>9 DEF For, Task
<1>12. /\ PlanIsLast' /\ (Planned' <=> Planned)
       /\ (\E t \in Pending(todo) : t.do = "orgs") => \E t \in Pending(todo') : t.do = "orgs"
  <2>1. Head(todo).do \notin PlanTasks /\ \A t \in Pending(l) : t.do \notin PlanTasks
    BY <1>2, <1>11 DEF PlanTasks
  <2> QED
    BY <1>2, <1>9, <2>1, ThenOrder
<1>13. Belonging'
  <2>1. o \in disk.orgs /\ \A r \in Pending(todo) : r.do \notin Orgwide
    BY <1>2, <1>10 DEF DInv, PlanInv, Belonging, Joins
  <2>2. \A r \in Pending(todo') : r.do \notin Orgwide
    BY <1>10, <1>11, <2>1 DEF Orgwide
  <2>3. \A t \in Pending(todo') : t.do \in Joins => t.org \in disk.orgs
    BY <1>10, <1>11, <2>1 DEF DInv, PlanInv, Belonging
  <2> QED
    BY <1>2, <2>2, <2>3 DEF DInv, PlanInv, Belonging
<1>14. AllAimed'
  <2>1. ASSUME NEW t \in Pending(l) PROVE Aimed(t)'
    BY <1>4, <1>7, <1>9, <1>10 DEF Aimed, Surplus, Missing, For, Task
  <2>2. ASSUME NEW t \in Pending(todo) PROVE Aimed(t)'
    BY <1>10 DEF DInv, PlanInv, AllAimed, Aimed
  <2> QED
    BY <1>10, <2>1, <2>2 DEF AllAimed
<1>15. Declared'
  <2>1. /\ OrgsSettled => OrgsSettled' /\ \A p : Unmarked(p)' <=> Unmarked(p)
    BY <1>2, <1>10 DEF OrgsSettled, Unmarked
  <2>2. OrgsPending => OrgsPending'
    <3>1. \A p : /\ ForOrg("delete_org", p) \in Pending(todo) => ForOrg("delete_org", p) \in Pending(todo')
                 /\ ForOrg("remove_org", p) \in Pending(todo) => ForOrg("remove_org", p) \in Pending(todo')
                 /\ ForOrg("add_org", p) \in Pending(todo) => ForOrg("add_org", p) \in Pending(todo')
      BY <1>2, <1>10 DEF ForOrg, Task
    <3> QED
      BY <1>2, <1>10, <3>1 DEF OrgsPending, Unmarked
  <2>3. UsersPending(o)'
    <3>1. \A u \in conf.users[o] \ UserNames(o) : For("add_user", o, u) \in Pending(l)
      BY <1>4, <1>7, <1>9 DEF Missing
    <3>2. \A x \in disk.accounts :
              x.org = o /\ x.name \notin conf.users[o] => For("delete_user", o, x.name) \in Pending(l)
      BY <1>4, <1>7, <1>9 DEF Surplus, UserNames
    <3> QED
      BY <1>2, <1>10, <3>1, <3>2 DEF UsersPending, UserNames
  <2>4. ASSUME NEW p, p # o, UsersPending(p) PROVE UsersPending(p)'
    <3>1. ForOrg("users", p) \in Pending(todo) => ForOrg("users", p) \in Pending(todo')
      BY <1>10, <2>4 DEF ForOrg, Task
    <3>2. \A u : /\ For("add_user", p, u) \in Pending(todo) => For("add_user", p, u) \in Pending(todo')
                 /\ For("delete_user", p, u) \in Pending(todo) => For("delete_user", p, u) \in Pending(todo')
      BY <1>2, <1>10 DEF For, Task
    <3> QED
      BY <1>2, <1>10, <2>4, <3>1, <3>2 DEF UsersPending, UserNames, Unmarked
  <2> QED
    BY <1>10, <1>12, <2>1, <2>2, <2>3, <2>4 DEF DInv, PlanInv, Declared
<1> QED
  BY <1>12, <1>13, <1>14, <1>15 DEF PlanInv

LEMMA DiffGroupsPlan == ASSUME DInv, DiffGroups PROVE PlanInv'
<1> PICK o : o = Head(todo).org
  OBVIOUS
<1>1. PICK del \in SetToSeqs(Surplus(GroupNames(o), conf.groups[o])),
           add \in SetToSeqs(Missing(GroupNames(o), conf.groups[o])) :
          Then(EachName("delete_group", o, del) \o EachName("add_group", o, add))
  BY DEF DiffGroups
<1>2. todo # <<>> /\ Head(todo).do = "groups" /\ disk' = disk
  BY DEF DiffGroups, Doing
<1>3. o \in Orgs
  BY <1>2, HeadTask, TaskNames DEF DInv, CInv, OrgTasks
<1>4. /\ Surplus(GroupNames(o), conf.groups[o]) \in SUBSET Groups
      /\ Missing(GroupNames(o), conf.groups[o]) \in SUBSET Groups
  BY <1>3, Parameters DEF DInv, CInv, IInv, TypeOK, Stored, Surplus, Missing, GroupNames
<1>5. PICK d, e : d = EachName("delete_group", o, del) /\ e = EachName("add_group", o, add)
  OBVIOUS
<1>6. /\ d \in Seq(Tasks) /\ \A t \in Pending(d) : t.do = "delete_group"
      /\ e \in Seq(Tasks) /\ \A t \in Pending(e) : t.do = "add_group"
  BY <1>1, <1>3, <1>4, <1>5, PendingGroups
<1>7. PICK l : l = d \o e
  OBVIOUS
<1>8. l \in Seq(Tasks) /\ Pending(l) = Pending(d) \cup Pending(e) /\ Then(l)
  BY <1>1, <1>5, <1>6, <1>7, PendingLists
<1>9. Minor(Head(todo)) /\ \A t \in Pending(l) : Minor(t)
  BY <1>2, <1>6, <1>8 DEF Minor, PlanTasks, Joins, Orgwide
<1> QED
  BY <1>2, <1>8, <1>9, MinorPlan

LEMMA PendingMark ==
    ASSUME NEW path \in Paths, path[1] \in Orgs
    PROVE  ThenMark(path) \in Seq(Tasks) /\ \A t \in Pending(ThenMark(path)) : Minor(t)
<1>1. ThenMark(path) \in Seq(Tasks)
  BY MarkIsSimple DEF Simple
<1>2. CASE job = "cli"
  <2>1. Pending(ThenMark(path)) = {For("mark", path[1], path)}
    BY <1>2, PendingOne DEF ThenMark
  <2> QED
    BY <1>1, <2>1 DEF For, Task, Minor, PlanTasks, Joins, Orgwide
<1>3. CASE job # "cli"
  BY <1>1, <1>3, PendingNone DEF ThenMark
<1> QED
  BY <1>2, <1>3

LEMMA AddOrgPlan == ASSUME DInv, AddOrg PROVE PlanInv'
<1> PICK o : o = Head(todo).org
  OBVIOUS
<1>1. todo # <<>> /\ Head(todo).do = "add_org"
  BY DEF AddOrg, Doing
<1>2. o \in Orgs
  BY <1>1, HeadTask, TaskNames DEF DInv, CInv, OrgTasks
<1>3. CASE o \in disk.orgs
  BY <1>3, RefusePlan DEF AddOrg
<1>4. CASE o \notin disk.orgs
  <2>1. Then(ThenMark(<<o>>)) /\ disk' = [disk EXCEPT !.orgs = @ \cup {o}]
    BY <1>4 DEF AddOrg
  <2>2. disk'.orgs = disk.orgs \cup {o} /\ disk'.accounts = disk.accounts /\ disk'.marks = disk.marks
    BY <2>1 DEF DInv, CInv, IInv, TypeOK, Stored
  <2>3. PICK l : l = ThenMark(<<o>>)
    OBVIOUS
  <2>4. l \in Seq(Tasks) /\ Then(l) /\ \A t \in Pending(l) : Minor(t)
    <3>1. <<o>> \in Paths /\ <<o>>[1] = o
      BY <1>2 DEF Paths
    <3> QED
      BY <1>2, <2>1, <2>3, <3>1, PendingMark
  <2>5. /\ status = "running" /\ UNCHANGED <<job, conf, status>> /\ Head(todo) \in Pending(todo)
        /\ Pending(todo') \subseteq Pending(l) \cup Pending(todo)
        /\ \A t \in Pending(todo) : t = Head(todo) \/ t \in Pending(todo')
    BY <1>1, <2>4, ThenPending
  <2>6. /\ PlanIsLast' /\ (Planned' <=> Planned)
        /\ (\E t \in Pending(todo) : t.do = "orgs") => \E t \in Pending(todo') : t.do = "orgs"
    <3>1. Head(todo).do \notin PlanTasks /\ \A t \in Pending(l) : t.do \notin PlanTasks
      BY <1>1, <2>4 DEF Minor, PlanTasks
    <3> QED
      BY <1>1, <2>4, <3>1, ThenOrder
  <2>7. Belonging'
    BY <2>2, <2>4, <2>5 DEF DInv, PlanInv, Belonging, Minor
  <2>8. AllAimed'
    BY <2>4, <2>5 DEF DInv, PlanInv, AllAimed, Aimed, Minor, Joins
  <2>9. Declared'
    <3>1. SUFFICES ASSUME job = "json"
                   PROVE  /\ Planned' => OrgsPending' \/ \E t \in Pending(todo') : t.do = "orgs"
                          /\ ~Planned' => /\ OrgsSettled'
                                          /\ \A p \in conf.orgs : Unmarked(<<p>>)' => UsersPending(p)'
      BY <2>5 DEF Declared
    <3>2. o \in conf.orgs
      BY <1>1, <2>5, <3>1 DEF DInv, PlanInv, AllAimed, Aimed
    <3>3. OrgsSettled => OrgsSettled'
      BY <2>2, <2>5, <3>2 DEF OrgsSettled, Unmarked
    <3>4. OrgsPending => OrgsPending'
      <4>1. \A p : ForOrg("add_org", p) \in Pending(todo) /\ p # o => ForOrg("add_org", p) \in Pending(todo')
        BY <2>5 DEF ForOrg, Task
      <4>2. \A p : /\ ForOrg("delete_org", p) \in Pending(todo) => ForOrg("delete_org", p) \in Pending(todo')
                   /\ ForOrg("remove_org", p) \in Pending(todo) => ForOrg("remove_org", p) \in Pending(todo')
        BY <1>1, <2>5 DEF ForOrg, Task
      <4> QED
        BY <2>2, <2>5, <3>2, <4>1, <4>2 DEF OrgsPending, Unmarked
    <3>5. ASSUME NEW p, UsersPending(p) PROVE UsersPending(p)'
      <4>1. ForOrg("users", p) \in Pending(todo) => ForOrg("users", p) \in Pending(todo')
        BY <1>1, <2>5 DEF ForOrg, Task
      <4>2. \A u : /\ For("add_user", p, u) \in Pending(todo) => For("add_user", p, u) \in Pending(todo')
                   /\ For("delete_user", p, u) \in Pending(todo) => For("delete_user", p, u) \in Pending(todo')
        BY <1>1, <2>5 DEF For, Task
      <4> QED
        BY <2>2, <2>5, <3>5, <4>1, <4>2 DEF UsersPending, UserNames, Unmarked
    <3> QED
      BY <2>2, <2>5, <2>6, <3>1, <3>3, <3>4, <3>5 DEF DInv, PlanInv, Declared, Unmarked
  <2> QED
    BY <2>6, <2>7, <2>8, <2>9 DEF PlanInv
<1> QED
  BY <1>3, <1>4

LEMMA DelOrgPlan == ASSUME DInv, DelOrg PROVE PlanInv'
<1> PICK o : o = Head(todo).org
  OBVIOUS
<1> SUFFICES ASSUME ~Raise PROVE PlanInv'
  BY RaisePlan
<1>1. todo # <<>> /\ Head(todo).do = "delete_org"
  BY DEF DelOrg, Doing
<1>2. o \in Orgs /\ Lawful(Head(todo))
  BY <1>1, HeadTask, TaskNames DEF DInv, CInv, OrgTasks
<1>3. disk' = disk
  BY DEF DelOrg, Skip
(* The list of what follows, whether the organisation is left alone or not. *)
<1>4. PICK l \in Seq(Tasks) :
          /\ Then(l)
          /\ \A t \in Pending(l) : \/ Minor(t)
                                   \/ t.do = "delete_user" /\ t.org = o
                                   \/ t = ForOrg("remove_org", o)
          /\ o \in disk.orgs /\ ~LeftAlone(<<o>>) => ForOrg("remove_org", o) \in Pending(l)
  <2>1. CASE o \notin disk.orgs \/ LeftAlone(<<o>>)
    <3>1. PICK none : none = <<>>
      OBVIOUS
    <3>2. none \in Seq(Tasks) /\ Then(none) /\ Pending(none) = {}
      BY <2>1, <3>1, PendingNone DEF DelOrg, Skip
    <3> QED
      BY <2>1, <3>2
  <2>2. CASE ~(o \notin disk.orgs \/ LeftAlone(<<o>>))
    <3>1. PICK us \in SetToSeqs(UserNames(o)), gs \in SetToSeqs(GroupNames(o)) :
              Then(EachName("delete_user", o, us) \o EachName("delete_group", o, gs)
                   \o <<ForOrg("remove_org", o)>>)
      BY <2>2 DEF DelOrg
    <3>2. PICK d, e, r, u : /\ d = EachName("delete_user", o, us) /\ e = EachName("delete_group", o, gs)
                            /\ r = ForOrg("remove_org", o) /\ u = <<r>>
      OBVIOUS
    <3>3. UserNames(o) \in SUBSET Users /\ GroupNames(o) \in SUBSET Groups
      BY DEF DInv, CInv, IInv, TypeOK, Stored, Accounts, UserNames, GroupNames
    <3>4. PICK un, gn : un = UserNames(o) /\ gn = GroupNames(o)
      OBVIOUS
    <3>5. /\ d \in Seq(Tasks) /\ Pending(d) = {For("delete_user", o, n) : n \in un}
          /\ e \in Seq(Tasks) /\ \A t \in Pending(e) : t.do = "delete_group"
      BY <1>2, <3>1, <3>2, <3>3, <3>4, PendingNames, PendingGroups
    <3>6. r \in Tasks /\ u \in Seq(Tasks)
      <4>1. r \in Tasks
        BY <1>2, <3>2, TaskKinds DEF OrgTasks
      <4> QED
        BY <3>2, <4>1
    <3>7. Pending(u) = {r}
      BY <3>2, PendingOne
    <3>8. PICK c, l : c = d \o e /\ l = c \o u
      OBVIOUS
    <3>9. c \in Seq(Tasks) /\ l \in Seq(Tasks) /\ Pending(l) = Pending(d) \cup Pending(e) \cup {r}
      <4>1. c \in Seq(Tasks) /\ Pending(c) = Pending(d) \cup Pending(e)
        BY <3>5, <3>8, PendingLists
      <4>2. l = c \o u /\ c \in Seq(Tasks) /\ u \in Seq(Tasks)
        BY <3>6, <3>8, <4>1
      <4>3. l \in Seq(Tasks)
        BY ONLY <4>2
      <4>4. Pending(l) = Pending(c) \cup Pending(u)
        BY ONLY <4>2, PendingLists
      <4> QED
        BY <3>7, <4>1, <4>3, <4>4
    <3>10. Then(l)
      BY <3>1, <3>2, <3>8
    <3>11. \A t \in Pending(d) : t.do = "delete_user" /\ t.org = o
      BY <3>5 DEF For, Task
    <3>12. \A t \in Pending(e) : Minor(t)
      BY <3>5 DEF Minor, PlanTasks, Joins, Orgwide
    <3>13. \A t \in Pending(l) : \/ Minor(t)
                                 \/ t.do = "delete_user" /\ t.org = o
                                 \/ t = r
      BY <3>9, <3>11, <3>12
    <3> QED
      BY <3>2, <3>9, <3>10, <3>13
  <2> QED
    BY <2>1, <2>2
<1>5. /\ status = "running" /\ UNCHANGED <<job, conf, status>> /\ Head(todo) \in Pending(todo)
      /\ Pending(todo') \subseteq Pending(l) \cup Pending(todo)
      /\ Pending(l) \subseteq Pending(todo')
      /\ \A t \in Pending(todo) : t = Head(todo) \/ t \in Pending(todo')
  BY <1>1, <1>4, ThenPending
<1>6. ForOrg("remove_org", o).do = "remove_org"
  BY DEF ForOrg, Task
<1>7. /\ PlanIsLast' /\ (Planned' <=> Planned)
      /\ (\E t \in Pending(todo) : t.do = "orgs") => \E t \in Pending(todo') : t.do = "orgs"
  <2>1. Head(todo).do \notin PlanTasks /\ \A t \in Pending(l) : t.do \notin PlanTasks
    BY <1>1, <1>4, <1>6 DEF Minor, PlanTasks
  <2> QED
    BY <1>1, <1>4, <2>1, ThenOrder
<1>8. Belonging'
  <2>1. \A t \in Pending(todo) : t.do \notin Joins
    BY <1>1, <1>5 DEF DInv, PlanInv, Belonging, Orgwide
  <2>2. \A t \in Pending(l) : t.do \notin Joins
    BY <1>4, <1>6 DEF Minor, Joins
  <2> QED
    BY <1>3, <1>5, <2>1, <2>2 DEF DInv, PlanInv, Belonging
<1>9. AllAimed'
  <2>1. job = "json" => o \notin conf.orgs
    BY <1>1, <1>2 DEF Lawful
  <2>2. ASSUME NEW t \in Pending(l) PROVE Aimed(t)'
    BY <1>4, <1>5, <1>6, <2>1 DEF Aimed, Minor, Joins
  <2>3. ASSUME NEW t \in Pending(todo) PROVE Aimed(t)'
    BY <1>5 DEF DInv, PlanInv, AllAimed, Aimed
  <2> QED
    BY <1>5, <2>2, <2>3 DEF AllAimed
<1>10. Declared'
  <2>1. OrgsSettled => OrgsSettled'
    BY <1>3, <1>5 DEF OrgsSettled, Unmarked
  <2>2. ASSUME job = "json", OrgsPending PROVE OrgsPending'
    <3>1. ASSUME NEW p \in Orgs, Unmarked(<<p>>), p \in disk.orgs \ conf.orgs
          PROVE  \/ ForOrg("delete_org", p) \in Pending(todo')
                 \/ ForOrg("remove_org", p) \in Pending(todo')
      <4>1. \/ ForOrg("delete_org", p) \in Pending(todo)
            \/ ForOrg("remove_org", p) \in Pending(todo)
        BY <2>2, <3>1 DEF OrgsPending
      <4>2. CASE p = o
        <5>1. ~LeftAlone(<<o>>)
          BY <3>1, <4>2, OnlyImperativeOnes DEF LeftAlone, Unmarked
        <5> QED
          BY <1>4, <1>5, <3>1, <4>2, <5>1
      <4>3. CASE p # o
        BY <1>1, <1>5, <4>1, <4>3 DEF ForOrg, Task
      <4> QED
        BY <4>2, <4>3
    <3>2. ASSUME NEW p \in Orgs, ForOrg("add_org", p) \in Pending(todo)
          PROVE  ForOrg("add_org", p) \in Pending(todo')
      BY <1>1, <1>5, <3>2 DEF ForOrg, Task
    <3> QED
      BY <1>3, <1>5, <2>2, <3>1, <3>2 DEF OrgsPending, Unmarked
  <2>3. ASSUME NEW p, UsersPending(p) PROVE UsersPending(p)'
    <3>1. ForOrg("users", p) \in Pending(todo) => ForOrg("users", p) \in Pending(todo')
      BY <1>1, <1>5 DEF ForOrg, Task
    <3>2. \A u : /\ For("add_user", p, u) \in Pending(todo) => For("add_user", p, u) \in Pending(todo')
                 /\ For("delete_user", p, u) \in Pending(todo) => For("delete_user", p, u) \in Pending(todo')
      BY <1>1, <1>5 DEF For, Task
    <3> QED
      BY <1>3, <1>5, <2>3, <3>1, <3>2 DEF UsersPending, UserNames, Unmarked
  <2> QED
    BY <1>3, <1>5, <1>7, <2>1, <2>2, <2>3 DEF DInv, PlanInv, Declared, Unmarked
<1> QED
  BY <1>7, <1>8, <1>9, <1>10 DEF PlanInv

LEMMA RemoveOrgPlan == ASSUME DInv, RemoveOrg PROVE PlanInv'
<1> PICK o : o = Head(todo).org
  OBVIOUS
<1>1. todo # <<>> /\ Head(todo).do = "remove_org"
  BY DEF RemoveOrg, Doing
<1>2. o \in Orgs /\ Lawful(Head(todo))
  BY <1>1, HeadTask, TaskNames DEF DInv, CInv, OrgTasks
<1>3. /\ disk'.orgs = disk.orgs \ {o}
      /\ disk'.accounts = {x \in disk.accounts : x.org # o}
      /\ disk'.marks = {p \in disk.marks : p[1] # o}
      /\ Then(<<>>)
  BY DEF RemoveOrg, DInv, CInv, IInv, TypeOK, Stored
<1>4. PICK l : l = <<>>
  OBVIOUS
<1>5. l \in Seq(Tasks) /\ Then(l) /\ Pending(l) = {}
  BY <1>3, <1>4, PendingNone
<1>6. /\ status = "running" /\ UNCHANGED <<job, conf, status>> /\ Head(todo) \in Pending(todo)
      /\ Pending(todo') \subseteq Pending(todo)
      /\ \A t \in Pending(todo) : t = Head(todo) \/ t \in Pending(todo')
  BY <1>1, <1>5, ThenPending
<1>7. /\ PlanIsLast' /\ (Planned' <=> Planned)
      /\ (\E t \in Pending(todo) : t.do = "orgs") => \E t \in Pending(todo') : t.do = "orgs"
  <2>1. Head(todo).do \notin PlanTasks
    BY <1>1 DEF PlanTasks
  <2> QED
    BY <1>1, <1>5, <2>1, ThenOrder
<1>8. Belonging'
  <2>1. \A t \in Pending(todo) : t.do \notin Joins
    BY <1>1, <1>6 DEF DInv, PlanInv, Belonging, Orgwide
  <2> QED
    BY <1>3, <1>6, <2>1 DEF DInv, PlanInv, Belonging
<1>9. AllAimed'
  BY <1>6 DEF DInv, PlanInv, AllAimed, Aimed
<1>10. Declared'
  <2>1. SUFFICES ASSUME job = "json"
                 PROVE  /\ Planned' => OrgsPending' \/ \E t \in Pending(todo') : t.do = "orgs"
                        /\ ~Planned' => /\ OrgsSettled'
                                        /\ \A p \in conf.orgs : Unmarked(<<p>>)' => UsersPending(p)'
    BY <1>6 DEF Declared
  <2>2. o \notin conf.orgs /\ <<o>> \notin disk.marks
    BY <1>1, <1>2, <2>1 DEF Lawful
  <2>3. \A p : <<p>>[1] = p /\ \A x : <<p, x>>[1] = p
    OBVIOUS
  <2>4. \A p : <<p>> \in disk'.marks <=> <<p>> \in disk.marks
    BY <1>3, <2>2, <2>3
  <2>5. \A p, x : p # o => (<<p, x>> \in disk'.marks <=> <<p, x>> \in disk.marks)
    BY <1>3, <2>3
  <2>6. OrgsSettled => OrgsSettled'
    BY <1>3, <1>6, <2>2, <2>4 DEF OrgsSettled, Unmarked
  <2>7. ASSUME OrgsPending PROVE OrgsPending'
    <3>1. ASSUME NEW p \in Orgs, p # o,
                 \/ ForOrg("delete_org", p) \in Pending(todo)
                 \/ ForOrg("remove_org", p) \in Pending(todo)
          PROVE  \/ ForOrg("delete_org", p) \in Pending(todo')
                 \/ ForOrg("remove_org", p) \in Pending(todo')
      BY <1>1, <1>6, <3>1 DEF ForOrg, Task
    <3>2. ASSUME NEW p \in Orgs, ForOrg("add_org", p) \in Pending(todo)
          PROVE  ForOrg("add_org", p) \in Pending(todo')
      BY <1>1, <1>6, <3>2 DEF ForOrg, Task
    <3> QED
      BY <1>3, <1>6, <2>2, <2>4, <2>7, <3>1, <3>2 DEF OrgsPending, Unmarked
  <2>8. ASSUME NEW p \in conf.orgs, UsersPending(p) PROVE UsersPending(p)'
    <3>1. p # o
      BY <2>2, <2>8
    <3>2. ForOrg("users", p) \in Pending(todo) => ForOrg("users", p) \in Pending(todo')
      BY <1>1, <1>6 DEF ForOrg, Task
    <3>3. \A u : /\ For("add_user", p, u) \in Pending(todo) => For("add_user", p, u) \in Pending(todo')
                 /\ For("delete_user", p, u) \in Pending(todo) => For("delete_user", p, u) \in Pending(todo')
      BY <1>1, <1>6 DEF For, Task
    <3>4. UserNames(p)' = UserNames(p)
      BY <1>3, <3>1 DEF UserNames
    <3>5. ASSUME NEW x \in disk'.accounts, x.org = p
          PROVE  x \in disk.accounts /\ (Unmarked(<<p, x.id>>)' => Unmarked(<<p, x.id>>))
      BY <1>3, <2>5, <3>1 DEF Unmarked
    <3> QED
      BY <1>6, <2>8, <3>2, <3>3, <3>4, <3>5 DEF UsersPending
  <2> QED
    BY <1>6, <1>7, <2>1, <2>4, <2>6, <2>7, <2>8 DEF DInv, PlanInv, Declared, Unmarked
<1> QED
  BY <1>7, <1>8, <1>9, <1>10 DEF PlanInv

(* A task that changes neither, and that nothing follows. *)
LEMMA DonePlan ==
    ASSUME DInv, todo # <<>>, Minor(Head(todo)), Then(<<>>),
           disk'.orgs = disk.orgs, disk'.accounts = disk.accounts,
           job = "json" => disk'.marks = disk.marks
    PROVE  PlanInv'
<1>1. PICK none : none = <<>>
  OBVIOUS
<1>2. none \in Seq(Tasks) /\ Then(none) /\ Pending(none) = {}
  BY <1>1, PendingNone
<1> QED
  BY <1>2, MinorPlan

LEMMA MarkPlan == ASSUME DInv, Mark PROVE PlanInv'
<1>1. todo # <<>> /\ Head(todo).do = "mark"
  BY DEF Mark, Doing
<1>2. job # "json"
  BY <1>1, HeadTask DEF DInv, CInv, Lawful
<1>3. disk'.orgs = disk.orgs /\ disk'.accounts = disk.accounts /\ Then(<<>>)
  BY DEF Mark, DInv, CInv, IInv, TypeOK, Stored
<1>4. Minor(Head(todo))
  BY <1>1 DEF Minor, PlanTasks, Joins, Orgwide
<1> QED
  BY <1>1, <1>2, <1>3, <1>4, DonePlan

LEMMA AddGroupPlan == ASSUME DInv, AddGroup PROVE PlanInv'
<1> PICK o, g : o = Head(todo).org /\ g = Head(todo).name
  OBVIOUS
<1>1. todo # <<>> /\ Head(todo).do = "add_group"
  BY DEF AddGroup, Doing
<1>2. o \in Orgs /\ g \in Groups
  BY <1>1, HeadTask, TaskNames DEF DInv, CInv, GroupTasks
<1>3. CASE <<o, g>> \in disk.groups
  BY <1>3, RefusePlan DEF AddGroup
<1>4. CASE <<o, g>> \notin disk.groups
  <2>1. PICK p : p = <<o, g>>
    OBVIOUS
  <2>2. p \in Paths /\ p[1] \in Orgs
    BY <1>2, <2>1 DEF Paths
  <2>3. Then(ThenMark(p)) /\ disk' = [disk EXCEPT !.groups = @ \cup {p}]
    BY <1>4, <2>1 DEF AddGroup
  <2>4. disk'.orgs = disk.orgs /\ disk'.accounts = disk.accounts /\ disk'.marks = disk.marks
    BY <2>3 DEF DInv, CInv, IInv, TypeOK, Stored
  <2>5. Minor(Head(todo))
    BY <1>1 DEF Minor, PlanTasks, Joins, Orgwide
  <2> QED
    BY <1>1, <2>2, <2>3, <2>4, <2>5, PendingMark, MinorPlan
<1> QED
  BY <1>3, <1>4

LEMMA DelGroupPlan == ASSUME DInv, DelGroup PROVE PlanInv'
<1> PICK o, g : o = Head(todo).org /\ g = Head(todo).name
  OBVIOUS
<1> SUFFICES ASSUME ~Raise PROVE PlanInv'
  BY RaisePlan
<1>1. todo # <<>> /\ Head(todo).do = "delete_group"
  BY DEF DelGroup, Doing
<1>2. Minor(Head(todo))
  BY <1>1 DEF Minor, PlanTasks, Joins, Orgwide
<1>3. CASE g \notin UserNames(o) \/ LeftAlone(<<o, g>>)
  <2>1. disk' = disk /\ Then(<<>>)
    BY <1>3 DEF DelGroup, Skip
  <2> QED
    BY <1>1, <1>2, <2>1, DonePlan
<1>4. CASE ~(g \notin UserNames(o) \/ LeftAlone(<<o, g>>)) /\ <<o, g>> \notin disk.groups
  BY <1>4, RaisePlan DEF DelGroup
<1>5. CASE ~(g \notin UserNames(o) \/ LeftAlone(<<o, g>>)) /\ <<o, g>> \in disk.groups
  <2>1. /\ disk' = [disk EXCEPT !.groups = @ \ {<<o, g>>}, !.marks = @ \ {<<o, g>>}]
        /\ Then(<<>>)
    BY <1>5 DEF DelGroup
  <2>2. /\ disk'.orgs = disk.orgs /\ disk'.accounts = disk.accounts
        /\ disk'.marks = disk.marks \ {<<o, g>>}
    BY <2>1 DEF DInv, CInv, IInv, TypeOK, Stored
  <2>3. job = "json" => <<o, g>> \notin disk.marks
    BY <1>5, ImperativeOnes DEF LeftAlone
  <2> QED
    BY <1>1, <1>2, <2>1, <2>2, <2>3, DonePlan
<1> QED
  BY <1>3, <1>4, <1>5

LEMMA GroupRemovedPlan == ASSUME DInv, GroupRemoved PROVE PlanInv'
BY RaisePlan DEF GroupRemoved

LEMMA KeysPlan ==
    ASSUME DInv, MakeKeyDir \/ GenerateKey \/ IssueCert \/ Revoke \/ DropKeys
    PROVE  PlanInv'
<1> PICK m : m = <<Head(todo).org, Head(todo).name>>
  OBVIOUS
<1>1. todo # <<>> /\ Head(todo).do \in KeyTasks \cup {"revoke", "drop_keys"}
  BY DEF MakeKeyDir, GenerateKey, IssueCert, Revoke, DropKeys, Doing, KeyTasks
<1>2. Minor(Head(todo))
  BY <1>1 DEF Minor, PlanTasks, Joins, Orgwide, KeyTasks
<1>3. CASE Raise
  BY <1>3, RaisePlan
<1>4. CASE ~Raise
  <2>1. Then(<<>>)
    BY <1>4 DEF MakeKeyDir, GenerateKey, IssueCert, Revoke, DropKeys
  <2>2. disk'.orgs = disk.orgs /\ disk'.accounts = disk.accounts /\ disk'.marks = disk.marks
    <3>1. disk \in Stored
      BY DEF DInv, CInv, IInv, TypeOK
    <3>2. CASE MakeKeyDir
      BY <1>4, <3>1, <3>2 DEF MakeKeyDir, Stored
    <3>3. CASE GenerateKey
      BY <3>1, <3>3 DEF GenerateKey, Stored
    <3>4. CASE IssueCert
      BY <3>1, <3>4 DEF IssueCert, Stored
    <3>5. CASE Revoke
      BY <1>4, <3>1, <3>5 DEF Revoke, Stored
    <3>6. CASE DropKeys
      BY <3>1, <3>6 DEF DropKeys, WithoutKeys, Stored
    <3> QED
      BY <3>2, <3>3, <3>4, <3>5, <3>6
  <2> QED
    BY <1>1, <1>2, <2>1, <2>2, DonePlan
<1> QED
  BY <1>3, <1>4

LEMMA FinishPlan == ASSUME DInv, Finish PROVE PlanInv'
<1>1. /\ status = "running" /\ status' = "done"
      /\ UNCHANGED <<disk, todo, job, conf>>
  BY DEF Finish
<1>2. disk' = disk /\ todo' = todo /\ job' = job /\ conf' = conf
  BY <1>1
<1>3. PlanIsLast' /\ Belonging'
  BY <1>2 DEF DInv, PlanInv, PlanIsLast, Belonging
<1>4. AllAimed'
  BY <1>2 DEF DInv, PlanInv, AllAimed, Aimed
<1>5. \A o : UsersPending(o)' <=> UsersPending(o)
  BY <1>2 DEF UsersPending, UserNames, Unmarked
<1>6. /\ Planned' <=> Planned
      /\ OrgsPending' <=> OrgsPending
      /\ OrgsSettled' <=> OrgsSettled
      /\ \A p : Unmarked(p)' <=> Unmarked(p)
  BY <1>2 DEF Planned, OrgsPending, OrgsSettled, Unmarked
<1>7. Declared'
  BY <1>1, <1>2, <1>5, <1>6 DEF DInv, PlanInv, Declared
<1> QED
  BY <1>3, <1>4, <1>7 DEF PlanInv

LEMMA CommandFailsPlan == ASSUME DInv, CommandFails PROVE PlanInv'
<1> PICK m : m = <<Head(todo).org, Head(todo).name>>
  OBVIOUS
<1>1. Ends("failed") /\ (disk' = WithoutKeys(m) \/ disk' = disk)
  BY DEF CommandFails, Failed
<1>2. disk \in Stored
  BY DEF DInv, CInv, IInv, TypeOK
<1>3. disk'.orgs = disk.orgs /\ disk'.accounts = disk.accounts
  BY <1>1, <1>2 DEF WithoutKeys, Stored
<1> QED
  BY <1>1, <1>3, EndsPlan

LEMMA KillPlan == ASSUME DInv, Kill PROVE PlanInv'
BY EndsPlan DEF Kill, Killed

LEMMA KillInRmtreePlan == ASSUME DInv, KillInDropKeys \/ KillInDelUser PROVE PlanInv'
<1>1. CASE KillInDropKeys
  BY <1>1, KillInDropKeysIs, EndsPlan DEF DInv, CInv, Killed
<1>2. CASE KillInDelUser
  BY <1>2, KillInDelUserIs, EndsPlan DEF DInv, CInv
<1> QED
  BY <1>1, <1>2

(* Making and dropping keys is minor. *)
LEMMA PendingKeys ==
    ASSUME NEW o \in Orgs, NEW u \in Users, NEW i \in Ids, NEW l,
           l = <<Task("key_directory", o, u, i), Task("private_key", o, u, i),
                 Task("certificate", o, u, i)>>
    PROVE  l \in Seq(Tasks) /\ \A t \in Pending(l) : Minor(t)
<1> PICK a, b, c : /\ a = Task("key_directory", o, u, i) /\ b = Task("private_key", o, u, i)
                   /\ c = Task("certificate", o, u, i)
  OBVIOUS
<1>1. l \in Seq(Tasks)
  BY KeyTasksAreChained
<1>2. Minor(a) /\ Minor(b) /\ Minor(c)
  BY DEF Task, Minor, PlanTasks, Joins, Orgwide
<1>3. l = <<a, b, c>>
  OBVIOUS
<1>4. Len(l) = 3 /\ l[1] = a /\ l[2] = b /\ l[3] = c
  BY <1>3
<1>5. \A k \in 1 .. 3 : k = 1 \/ k = 2 \/ k = 3
  OBVIOUS
<1>6. \A k \in 1 .. Len(l) : Minor(l[k])
  BY <1>2, <1>4, <1>5
<1> QED
  BY <1>1, <1>6 DEF Pending

LEMMA PendingAfterAccount ==
    ASSUME NEW o \in Orgs, NEW u \in Users, NEW l, l = AfterAccount(o, u)
    PROVE  l \in Seq(Tasks) /\ \A t \in Pending(l) : Minor(t)
<1> PICK a, b : a = For("revoke", o, u) /\ b = For("drop_keys", o, u)
  OBVIOUS
<1>1. l \in Seq(Tasks)
  BY AfterAccountKeys
<1>2. Minor(a) /\ Minor(b)
  BY DEF For, Task, Minor, PlanTasks, Joins, Orgwide
<1>3. l = <<a, b>>
  BY DEF AfterAccount
<1>4. Len(l) = 2 /\ l[1] = a /\ l[2] = b
  BY <1>3
<1>5. \A k \in 1 .. 2 : k = 1 \/ k = 2
  OBVIOUS
<1>6. \A k \in 1 .. Len(l) : Minor(l[k])
  BY <1>2, <1>4, <1>5
<1> QED
  BY <1>1, <1>6 DEF Pending

LEMMA AddUserPlan == ASSUME DInv, AddUser PROVE PlanInv'
<1> PICK o, u, i : o = Head(todo).org /\ u = Head(todo).name /\ i = added + 1
  OBVIOUS
<1> SUFFICES ASSUME ~Raise PROVE PlanInv'
  BY RaisePlan
<1>1. todo # <<>> /\ Head(todo).do = "add_user"
  BY DEF AddUser, Doing
<1>2. o \in Orgs /\ u \in Users
  BY <1>1, HeadTask, TaskNames DEF DInv, CInv, UserTasks
<1>3. CASE Taken(o, u)
  BY <1>3, RefusePlan DEF AddUser
<1>4. CASE ~Taken(o, u)
  <2> PICK a, keys : /\ a = [org |-> o, name |-> u, id |-> i]
                     /\ keys = <<Task("key_directory", o, u, i), Task("private_key", o, u, i),
                                 Task("certificate", o, u, i)>>
    OBVIOUS
  <2>1. /\ added < MaxUsers
        /\ disk' = [disk EXCEPT !.accounts = @ \cup {a}]
        /\ Then((IF AutoConfig THEN keys ELSE <<>>) \o ThenMark(<<o, i>>))
    BY <1>4 DEF AddUser
  <2>2. i \in Ids
    BY <2>1, Parameters DEF DInv, CInv, IInv, TypeOK, Ids
  <2>3. a.org = o /\ a.name = u /\ a.id = i
    OBVIOUS
  <2>4. /\ disk'.orgs = disk.orgs /\ disk'.accounts = disk.accounts \cup {a}
        /\ disk'.marks = disk.marks
    BY <2>1 DEF DInv, CInv, IInv, TypeOK, Stored
  <2>5. PICK e, f : e = (IF AutoConfig THEN keys ELSE <<>>) /\ f = ThenMark(<<o, i>>)
    OBVIOUS
  <2>6. e \in Seq(Tasks) /\ \A t \in Pending(e) : Minor(t)
    <3>1. keys \in Seq(Tasks) /\ \A t \in Pending(keys) : Minor(t)
      BY <1>2, <2>2, PendingKeys
    <3>2. PICK none : none = <<>>
      OBVIOUS
    <3>3. none \in Seq(Tasks) /\ Pending(none) = {}
      BY <3>2, PendingNone
    <3>4. e = keys \/ e = none
      BY <2>5, <3>2
    <3> QED
      BY <3>1, <3>3, <3>4
  <2>7. f \in Seq(Tasks) /\ \A t \in Pending(f) : Minor(t)
    <3>1. <<o, i>> \in Paths /\ <<o, i>>[1] \in Orgs
      BY <1>2, <2>2 DEF Paths
    <3> QED
      BY <2>5, <3>1, PendingMark
  <2>8. PICK l : l = e \o f
    OBVIOUS
  <2>9. l \in Seq(Tasks) /\ Then(l) /\ \A t \in Pending(l) : Minor(t)
    <3>1. Pending(e \o f) = Pending(e) \cup Pending(f)
      BY <2>6, <2>7, PendingLists
    <3>2. Pending(l) = Pending(e) \cup Pending(f)
      BY <2>8, <3>1
    <3>3. l \in Seq(Tasks)
      BY ONLY <2>6, <2>7, <2>8
    <3>4. Then(l)
      BY <2>1, <2>5, <2>8
    <3> QED
      BY <2>6, <2>7, <3>2, <3>3, <3>4
  <2>10. /\ status = "running" /\ UNCHANGED <<job, conf, status>> /\ Head(todo) \in Pending(todo)
         /\ Pending(todo') \subseteq Pending(l) \cup Pending(todo)
         /\ \A t \in Pending(todo) : t = Head(todo) \/ t \in Pending(todo')
    BY <1>1, <2>9, ThenPending
  <2>11. /\ PlanIsLast' /\ (Planned' <=> Planned)
         /\ (\E t \in Pending(todo) : t.do = "orgs") => \E t \in Pending(todo') : t.do = "orgs"
    <3>1. Head(todo).do \notin PlanTasks /\ \A t \in Pending(l) : t.do \notin PlanTasks
      BY <1>1, <2>9 DEF Minor, PlanTasks
    <3> QED
      BY <1>1, <2>9, <3>1, ThenOrder
  <2>12. Belonging'
    <3>1. o \in disk.orgs
      BY <1>1, <2>10 DEF DInv, PlanInv, Belonging, Joins
    <3> QED
      BY <2>3, <2>4, <2>9, <2>10, <3>1 DEF DInv, PlanInv, Belonging, Minor
  <2>13. AllAimed'
    BY <2>9, <2>10 DEF DInv, PlanInv, AllAimed, Aimed, Minor, Joins
  <2>14. Declared'
    <3>1. SUFFICES ASSUME job = "json"
                   PROVE  /\ Planned' => OrgsPending' \/ \E t \in Pending(todo') : t.do = "orgs"
                          /\ ~Planned' => /\ OrgsSettled'
                                          /\ \A p \in conf.orgs : Unmarked(<<p>>)' => UsersPending(p)'
      BY <2>10 DEF Declared
    <3>2. u \in conf.users[o]
      BY <1>1, <2>10, <3>1 DEF DInv, PlanInv, AllAimed, Aimed
    <3>3. OrgsSettled => OrgsSettled'
      BY <2>4, <2>10 DEF OrgsSettled, Unmarked
    <3>4. OrgsPending => OrgsPending'
      <4>1. \A p : /\ ForOrg("delete_org", p) \in Pending(todo) => ForOrg("delete_org", p) \in Pending(todo')
                   /\ ForOrg("remove_org", p) \in Pending(todo) => ForOrg("remove_org", p) \in Pending(todo')
                   /\ ForOrg("add_org", p) \in Pending(todo) => ForOrg("add_org", p) \in Pending(todo')
        BY <1>1, <2>10 DEF ForOrg, Task
      <4> QED
        BY <2>4, <2>10, <4>1 DEF OrgsPending, Unmarked
    <3>5. ASSUME NEW p, UsersPending(p) PROVE UsersPending(p)'
      <4>1. ForOrg("users", p) \in Pending(todo) => ForOrg("users", p) \in Pending(todo')
        BY <1>1, <2>10 DEF ForOrg, Task
      <4>2. \A n : For("add_user", p, n) \in Pending(todo) /\ ~(p = o /\ n = u)
                      => For("add_user", p, n) \in Pending(todo')
        BY <2>10 DEF For, Task
      <4>3. \A n : For("delete_user", p, n) \in Pending(todo) => For("delete_user", p, n) \in Pending(todo')
        BY <1>1, <2>10 DEF For, Task
      <4>4. UserNames(p) \subseteq UserNames(p)' /\ (p = o => u \in UserNames(p)')
        BY <2>3, <2>4 DEF UserNames
      <4>5. ASSUME NEW n \in conf.users[p] \ UserNames(p)',
                   \A v \in conf.users[p] \ UserNames(p) : For("add_user", p, v) \in Pending(todo)
            PROVE  For("add_user", p, n) \in Pending(todo')
        BY <4>2, <4>4, <4>5
      <4>6. ASSUME NEW x \in disk'.accounts, x.org = p, Unmarked(<<p, x.id>>)',
                   x.name \notin conf.users[p]
            PROVE  x \in disk.accounts /\ Unmarked(<<p, x.id>>)
        BY <2>3, <2>4, <3>2, <4>6 DEF Unmarked
      <4> QED
        BY <2>10, <3>5, <4>1, <4>3, <4>5, <4>6 DEF UsersPending
    <3> QED
      BY <2>4, <2>10, <2>11, <3>1, <3>3, <3>4, <3>5 DEF DInv, PlanInv, Declared, Unmarked
  <2> QED
    BY <2>11, <2>12, <2>13, <2>14 DEF PlanInv
<1> QED
  BY <1>3, <1>4

LEMMA DelUserPlan == ASSUME DInv, DelUser PROVE PlanInv'
<1> PICK o, u : o = Head(todo).org /\ u = Head(todo).name
  OBVIOUS
<1> SUFFICES ASSUME ~Raise PROVE PlanInv'
  BY RaisePlan
<1>1. todo # <<>> /\ Head(todo).do = "delete_user"
  BY DEF DelUser, Doing
<1>2. o \in Orgs /\ u \in Users
  BY <1>1, HeadTask, TaskNames DEF DInv, CInv, UserTasks
(* What remains of that name is left alone. *)
<1>3. PICK l \in Seq(Tasks) :
          /\ Then(l) /\ \A t \in Pending(l) : Minor(t)
          /\ disk'.orgs = disk.orgs /\ disk'.accounts \subseteq disk.accounts
          /\ \A x \in disk.accounts \ disk'.accounts : x.org = o /\ x.name = u
          /\ job = "json" => disk'.marks = disk.marks
          /\ job = "json" => \A x \in disk'.accounts :
                x.org = o /\ x.name = u => <<o>> \in disk.marks \/ <<o, x.id>> \in disk.marks
  <2>1. CASE Skip
    <3>1. PICK none : none = <<>>
      OBVIOUS
    <3>2. none \in Seq(Tasks) /\ Then(none) /\ Pending(none) = {} /\ disk' = disk
      BY <2>1, <3>1, PendingNone DEF Skip
    <3>3. ASSUME job = "json", NEW x \in disk.accounts, x.org = o, x.name = u
          PROVE  <<o>> \in disk.marks \/ <<o, x.id>> \in disk.marks
      <4>1. u \in UserNames(o)
        BY <3>3 DEF UserNames
      <4>2. PICK a \in disk.accounts :
                /\ a.org = o /\ a.name = u
                /\ \/ LeftAlone(<<o, a.id>>)
                   \/ disk' = [disk EXCEPT !.accounts = @ \ {a}, !.marks = @ \ {<<o, a.id>>}]
        BY <4>1 DEF DelUser
      <4>3. a = x
        BY <3>3, <4>2 DEF DInv, CInv, IInv, OneAccountPerName
      <4>4. disk' # [disk EXCEPT !.accounts = @ \ {a}, !.marks = @ \ {<<o, a.id>>}]
        BY <3>2, <4>2 DEF DInv, CInv, IInv, TypeOK, Stored
      <4>5. IsImperative(<<o, x.id>>)
        BY <4>2, <4>3, <4>4 DEF LeftAlone
      <4> QED
        BY <4>5, OnlyImperativeOnes
    <3> QED
      BY <3>2, <3>3
  <2>2. CASE ~Skip
    <3>1. PICK a \in disk.accounts :
              /\ a.org = o /\ a.name = u /\ ~LeftAlone(<<o, a.id>>)
              /\ disk' = [disk EXCEPT !.accounts = @ \ {a}, !.marks = @ \ {<<o, a.id>>}]
              /\ Then(AfterAccount(o, u))
      BY <2>2 DEF DelUser
    <3>2. PICK s : s = AfterAccount(o, u)
      OBVIOUS
    <3>3. s \in Seq(Tasks) /\ Then(s) /\ \A t \in Pending(s) : Minor(t)
      BY <1>2, <3>1, <3>2, PendingAfterAccount
    <3>4. /\ disk'.orgs = disk.orgs /\ disk'.accounts = disk.accounts \ {a}
          /\ disk'.marks = disk.marks \ {<<o, a.id>>}
      BY <3>1 DEF DInv, CInv, IInv, TypeOK, Stored
    <3>5. job = "json" => <<o, a.id>> \notin disk.marks
      BY <3>1, ImperativeOnes DEF LeftAlone
    <3>6. \A x \in disk'.accounts : ~(x.org = o /\ x.name = u)
      BY <3>1, <3>4 DEF DInv, CInv, IInv, OneAccountPerName
    <3> QED
      BY <3>1, <3>3, <3>4, <3>5, <3>6
  <2> QED
    BY <2>1, <2>2
<1>4. /\ status = "running" /\ UNCHANGED <<job, conf, status>> /\ Head(todo) \in Pending(todo)
      /\ Pending(todo') \subseteq Pending(l) \cup Pending(todo)
      /\ \A t \in Pending(todo) : t = Head(todo) \/ t \in Pending(todo')
  BY <1>1, <1>3, ThenPending
<1>5. /\ PlanIsLast' /\ (Planned' <=> Planned)
      /\ (\E t \in Pending(todo) : t.do = "orgs") => \E t \in Pending(todo') : t.do = "orgs"
  <2>1. Head(todo).do \notin PlanTasks /\ \A t \in Pending(l) : t.do \notin PlanTasks
    BY <1>1, <1>3 DEF Minor, PlanTasks
  <2> QED
    BY <1>1, <1>3, <2>1, ThenOrder
<1>6. Belonging'
  BY <1>3, <1>4 DEF DInv, PlanInv, Belonging, Minor
<1>7. AllAimed'
  BY <1>3, <1>4 DEF DInv, PlanInv, AllAimed, Aimed, Minor, Joins
<1>8. Declared'
  <2>1. SUFFICES ASSUME job = "json"
                 PROVE  /\ Planned' => OrgsPending' \/ \E t \in Pending(todo') : t.do = "orgs"
                        /\ ~Planned' => /\ OrgsSettled'
                                        /\ \A p \in conf.orgs : Unmarked(<<p>>)' => UsersPending(p)'
    BY <1>4 DEF Declared
  <2>2. o \notin conf.orgs \/ u \notin conf.users[o]
    BY <1>1, <1>4, <2>1 DEF DInv, PlanInv, AllAimed, Aimed
  <2>3. OrgsSettled => OrgsSettled'
    BY <1>3, <1>4, <2>1 DEF OrgsSettled, Unmarked
  <2>4. OrgsPending => OrgsPending'
    <3>1. \A p : /\ ForOrg("delete_org", p) \in Pending(todo) => ForOrg("delete_org", p) \in Pending(todo')
                 /\ ForOrg("remove_org", p) \in Pending(todo) => ForOrg("remove_org", p) \in Pending(todo')
                 /\ ForOrg("add_org", p) \in Pending(todo) => ForOrg("add_org", p) \in Pending(todo')
      BY <1>1, <1>4 DEF ForOrg, Task
    <3> QED
      BY <1>3, <1>4, <2>1, <3>1 DEF OrgsPending, Unmarked
  <2>5. ASSUME NEW p \in conf.orgs, UsersPending(p), Unmarked(<<p>>) PROVE UsersPending(p)'
    <3>1. ForOrg("users", p) \in Pending(todo) => ForOrg("users", p) \in Pending(todo')
      BY <1>1, <1>4 DEF ForOrg, Task
    <3>2. \A n : For("add_user", p, n) \in Pending(todo) => For("add_user", p, n) \in Pending(todo')
      BY <1>1, <1>4 DEF For, Task
    <3>3. \A n : For("delete_user", p, n) \in Pending(todo) /\ ~(p = o /\ n = u)
                    => For("delete_user", p, n) \in Pending(todo')
      BY <1>4 DEF For, Task
    <3>4. \A n \in UserNames(p) : n \in UserNames(p)' \/ (p = o /\ n = u)
      BY <1>3 DEF UserNames
    <3>5. \A n \in conf.users[p] \ UserNames(p)' : n \notin UserNames(p)
      BY <2>2, <3>4
    <3>6. ASSUME NEW x \in disk'.accounts, x.org = p, Unmarked(<<p, x.id>>)'
          PROVE  x \in disk.accounts /\ Unmarked(<<p, x.id>>) /\ ~(p = o /\ x.name = u)
      BY <1>3, <2>1, <2>5, <3>6 DEF Unmarked
    <3> QED
      BY <1>4, <2>5, <3>1, <3>2, <3>3, <3>5, <3>6 DEF UsersPending
  <2> QED
    BY <1>3, <1>4, <1>5, <2>1, <2>3, <2>4, <2>5 DEF DInv, PlanInv, Declared, Unmarked
<1> QED
  BY <1>5, <1>6, <1>7, <1>8 DEF PlanInv

LEMMA InvocationPlan ==
    ASSUME DInv, ProcessJson \/ OrgCommand \/ UserCommand \/ GroupCommand PROVE PlanInv'
<1>1. CASE ProcessJson
  <2>1. PICK l : l = <<Task("orgs", 0, 0, 0)>>
    OBVIOUS
  <2>2. Task("orgs", 0, 0, 0) \in Tasks
    BY TaskKinds DEF PlanTasks
  <2>3. l \in Seq(Tasks) /\ Len(l) = 1 /\ Pending(l) = {Task("orgs", 0, 0, 0)}
    BY <2>1, <2>2, PendingOne
  <2>4. \A t \in Pending(l) : t.do \notin Joins
    BY <2>3 DEF Task, Joins
  <2>5. Begin("json", l)
    BY <1>1, <2>1 DEF ProcessJson
  <2> QED
    BY <2>1, <2>3, <2>4, <2>5, BeginPlan
<1>2. CASE OrgCommand
  <2>1. PICK o \in Orgs, cmd \in {"add_org", "delete_org"} : Begin("cli", <<ForOrg(cmd, o)>>)
    BY <1>2 DEF OrgCommand
  <2>2. PICK l, t : t = ForOrg(cmd, o) /\ l = <<t>>
    OBVIOUS
  <2>3. t \in Tasks /\ t.do \notin Joins /\ t.do \notin PlanTasks
    BY <2>2, TaskKinds DEF OrgTasks, ForOrg, Task, Joins, PlanTasks
  <2>4. l \in Seq(Tasks) /\ Len(l) = 1 /\ Pending(l) = {t}
    BY <2>2, <2>3, PendingOne
  <2>5. Begin("cli", l)
    BY <2>1, <2>2
  <2> QED
    BY <2>3, <2>4, <2>5, BeginPlan
<1>3. CASE UserCommand
  <2>1. PICK o \in disk.orgs, u \in Users, cmd \in {"add_user", "delete_user"} :
            Begin("cli", <<For(cmd, o, u)>>)
    BY <1>3 DEF UserCommand
  <2>2. PICK l, t : t = For(cmd, o, u) /\ l = <<t>>
    OBVIOUS
  <2>3. o \in Orgs
    BY DEF DInv, CInv, IInv, TypeOK, Stored
  <2>4. t \in Tasks /\ t.org \in disk.orgs /\ t.do \notin Orgwide /\ t.do \notin PlanTasks
    BY <2>2, <2>3, TaskKinds DEF UserTasks, For, Task, Orgwide, PlanTasks
  <2>5. l \in Seq(Tasks) /\ Len(l) = 1 /\ Pending(l) = {t}
    BY <2>2, <2>4, PendingOne
  <2>6. Begin("cli", l)
    BY <2>1, <2>2
  <2> QED
    BY <2>4, <2>5, <2>6, BeginPlan
<1>4. CASE GroupCommand
  <2>1. PICK o \in disk.orgs, g \in Groups :
            \/ Begin("cli", <<For("add_group", o, g)>>)
            \/ Begin("cli", <<For("delete_group", o, g), For("raise", o, g)>>)
    BY <1>4 DEF GroupCommand
  <2>2. PICK a, d, r : /\ a = For("add_group", o, g) /\ d = For("delete_group", o, g)
                       /\ r = For("raise", o, g)
    OBVIOUS
  <2>3. o \in Orgs
    BY DEF DInv, CInv, IInv, TypeOK, Stored
  <2>4. a \in Tasks /\ d \in Tasks /\ r \in Tasks
    BY <2>2, <2>3, TaskKinds DEF GroupTasks
  <2>5. \A t \in {a, d, r} : t.do \notin PlanTasks /\ t.do \notin Joins
    BY <2>2 DEF For, Task, PlanTasks, Joins
  <2>6. PICK l : /\ l = <<a>> \/ l = <<d, r>>
                 /\ Begin("cli", l)
    BY <2>1, <2>2
  <2>7. l \in Seq(Tasks)
    <3>1. CASE l = <<a>>
      BY ONLY <2>4, <3>1
    <3>2. CASE l = <<d, r>>
      BY ONLY <2>4, <3>2
    <3> QED
      BY <2>6, <3>1, <3>2
  <2>8. \A k \in 1 .. Len(l) : l[k] \in {a, d, r}
    <3>1. CASE l = <<a>>
      <4>1. Len(l) = 1 /\ l[1] = a
        BY <3>1
      <4>2. \A k \in 1 .. 1 : k = 1
        OBVIOUS
      <4> QED
        BY <4>1, <4>2
    <3>2. CASE l = <<d, r>>
      <4>1. Len(l) = 2 /\ l[1] = d /\ l[2] = r
        BY <3>2
      <4>2. \A k \in 1 .. 2 : k = 1 \/ k = 2
        OBVIOUS
      <4> QED
        BY <4>1, <4>2
    <3> QED
      BY <2>6, <3>1, <3>2
  <2>9. Pending(l) \subseteq {a, d, r}
    BY <2>8 DEF Pending
  <2>10. /\ \A k \in 1 .. Len(l) : l[k].do \notin PlanTasks
         /\ \A t \in Pending(l) : t.do \notin Joins
    BY <2>5, <2>8, <2>9
  <2> QED
    BY <2>6, <2>7, <2>10, BeginPlan
<1> QED
  BY <1>1, <1>2, <1>3, <1>4

LEMMA NextKeepsPlan == DInv /\ [Next]_vars => PlanInv'
<1> SUFFICES ASSUME DInv, [Next]_vars PROVE PlanInv'
  OBVIOUS
<1>1. CASE ProcessJson \/ OrgCommand \/ UserCommand \/ GroupCommand
  BY <1>1, InvocationPlan
<1>2. CASE Step
  BY <1>2, DiffOrgsPlan, DiffMembersPlan, DiffUsersPlan, DiffGroupsPlan, AddOrgPlan, DelOrgPlan,
     RemoveOrgPlan, MarkPlan, AddGroupPlan, DelGroupPlan, GroupRemovedPlan, AddUserPlan, KeysPlan,
     DelUserPlan, FinishPlan DEF Step
<1>3. CASE CommandFails \/ Kill \/ KillInDropKeys \/ KillInDelUser
  BY <1>3, CommandFailsPlan, KillPlan, KillInRmtreePlan
<1>4. CASE UNCHANGED vars
  <2>1. disk' = disk /\ todo' = todo /\ job' = job /\ conf' = conf /\ status' = status
    BY <1>4 DEF vars
  <2>2. PlanIsLast' /\ Belonging'
    BY <2>1 DEF DInv, PlanInv, PlanIsLast, Belonging
  <2>3. AllAimed'
    BY <2>1 DEF DInv, PlanInv, AllAimed, Aimed
  <2>4. \A o : UsersPending(o)' <=> UsersPending(o)
    BY <2>1 DEF UsersPending, UserNames, Unmarked
  <2>5. /\ Planned' <=> Planned
        /\ OrgsPending' <=> OrgsPending
        /\ OrgsSettled' <=> OrgsSettled
        /\ \A p : Unmarked(p)' <=> Unmarked(p)
    BY <2>1 DEF Planned, OrgsPending, OrgsSettled, Unmarked
  <2>6. Declared'
    BY <2>1, <2>4, <2>5 DEF DInv, PlanInv, Declared
  <2> QED
    BY <2>2, <2>3, <2>6 DEF PlanInv
<1> QED
  BY <1>1, <1>2, <1>3, <1>4 DEF Next

LEMMA PlanInvariance == Spec => []DInv
<1>1. Init => DInv
  BY InitInv, InitKeys, InitPlan DEF CInv, DInv
<1>2. DInv /\ [Next]_vars => DInv'
  BY NextKeeps, NextKeepsKeys, NextKeepsPlan DEF CInv, DInv
<1> QED
  BY <1>1, <1>2, PTL DEF Spec

(* When process-json succeeds, organisations and users are those declared and
   those marked, from whatever half-done state it started: each difference is
   pending from the list that found it until the task that removes it, and no
   task undoes what another has done (process_json, Manager, Organisation). *)
THEOREM DeclaredInTheEnd == Spec => []SuccessMeansDeclared
<1>1. DInv => SuccessMeansDeclared
  <2>1. SUFFICES ASSUME DInv, status = "done", job = "json", NEW o \in Orgs,
                        <<o>> \notin disk.marks
                 PROVE  /\ o \in disk.orgs <=> o \in conf.orgs
                        /\ o \in conf.orgs => conf.users[o] \subseteq UserNames(o)
                        /\ \A a \in disk.accounts :
                               a.org = o /\ <<o, a.id>> \notin disk.marks
                                   => a.name \in conf.users[o]
    BY DEF SuccessMeansDeclared
  <2>2. Pending(todo) = {}
    BY <2>1, PendingNone DEF DInv, CInv, IInv, QueueInv
  <2>3. OrgsSettled /\ \A p \in conf.orgs : Unmarked(<<p>>) => UsersPending(p)
    BY <2>1, <2>2 DEF DInv, PlanInv, Declared, Planned
  <2>4. o \in disk.orgs <=> o \in conf.orgs
    BY <2>1, <2>3 DEF OrgsSettled, Unmarked
  <2>5. o \in conf.orgs => UsersPending(o)
    BY <2>1, <2>3 DEF Unmarked
  <2>6. \A x \in disk.accounts : x.org = o => o \in conf.orgs
    BY <2>1, <2>4 DEF DInv, PlanInv, Belonging
  <2> QED
    BY <2>2, <2>4, <2>5, <2>6 DEF UsersPending, Unmarked
<1> QED
  BY <1>1, PlanInvariance, PTL
================================================================================
