------------------------- MODULE SystemdBoot_proofs -------------------------
(***************************************************************************)
(* Theorems about SystemdBoot, for any systems, specialisations, kernels,  *)
(* sort keys and limits, any number of generations, changes, kills, power  *)
(* losses and boots.                                                       *)
(***************************************************************************)
EXTENDS SystemdBoot, WellFoundedInduction, TLAPS

(* What the builder needs of its surroundings: one partition, as it looks for
   entries and files on the ESP (l.204, l.346); names it reads back as it wrote
   them (l.66, l.99); numbers that stay with their system; boots that are not
   blessed while it runs. *)
Ordinary ==
    /\ ~XBootldr
    /\ Tries <= 9
    /\ \A n \in Specs : ParsedSpec[n] = n
    /\ ~ReuseNumbers
    /\ ~BlessAnytime

-----------------------------------------------------------------------------
(* What holds whatever the surroundings.                                   *)

(* Boot attempts left and done add up to those allowed. *)
Counted(S) == \A e \in S : e.tries = None \/ e.tries.left + e.tries.done = Tries

Pair(e)  == <<e.gen, e.spec>>
Working  == pc \in {"kernel", "initrd", "secrets", "write"}
Specials(n) == SpecsOf[gens[n]] \cup {None}

BaseInv ==
    /\ TypeOK
    /\ \A part \in Parts : Counted(entries[part])
    /\ Counted(disk)
    /\ profile \in Generations
    /\ known \subseteq Generations /\ todo \subseteq known
    /\ pc = "idle" => known = {} /\ disk = {}
    /\ Working => /\ gen \in known /\ gen \notin todo
                  /\ specs \subseteq SpecsOf[gens[gen]]
                  /\ spec \in Specials(gen) /\ spec \notin specs
    /\ pc \in {"cleanup", "done"} => todo = {}

-----------------------------------------------------------------------------
(* What the menu holds.                                                    *)

(* The builder has yet to write the entry of generation n, specialisation p. *)
Pending(n, p) == n \in todo \/ (Working /\ n = gen /\ p \in specs \cup {spec})

(* An entry boots what its name says as long as there is such a generation. *)
Genuine(e) ==
    /\ \E n \in Generations : e.gen <= n
    /\ e.gen \in Generations => /\ e.spec \in Specials(e.gen)
                                /\ e.build = <<gens[e.gen], e.spec>>

Needs(b, f) == f \in {KernelOf[b], InitrdOf[b]}

(* What a run has written so far; what it has yet to write is as it was read. *)
Listing ==
    /\ \A e \in Menu \cup disk :
          /\ e.gen \in known
          /\ Pending(e.gen, e.spec) => (e \in disk <=> e \in Menu)
    /\ \A n \in known : \A p \in Specials(n) :
          ~Pending(n, p) => \E e \in Menu : Pair(e) = <<n, p>>

Copies ==
    /\ \A f \in Files : files[Boot][f] # "torn"
    /\ \A f \in Files : files[Boot][f] = "whole" =>
          \/ \E e \in Menu : ~Pending(e.gen, e.spec) /\ Needs(e.build, f)
          \/ Working /\ Needs(Build, f)
    /\ \A e \in Menu : ~Pending(e.gen, e.spec) => Whole(Boot, e.build)
    /\ pc \in {"initrd", "secrets", "write"} => files[Boot][KernelOf[Build]] = "whole"
    /\ pc \in {"secrets", "write"} => files[Boot][InitrdOf[Build]] = "whole"

(* The keys of an entry that is not the default: read back, or its own. *)
PlainKeys(e) == {NixosKey, SortKeyOf[e.build]}

Sorted ==
    \A e \in Menu : ~Pending(e.gen, e.spec) =>
        /\ gens[e.gen] = target /\ e.spec = None => e.key = DefaultKey
        /\ gens[e.gen] # target => e.key \in PlainKeys(e)

(* What every step keeps, whether the builder runs or not. *)
Kept ==
    /\ \A e \in Menu : Genuine(e)
    /\ OneFilePerEntry
    /\ BlessedStaysGood
    /\ \A b \in blessed : \E e \in Menu : Pair(e) = b

(* Until the first entry is written, what was read is what there is. *)
Removing ==
    /\ pc \in {"remove", "unlink"} => disk = Menu
    /\ pc = "unlink" => \A e \in Menu : e.gen \in known

Writing ==
    Working \/ pc \in {"next", "cleanup", "done"} =>
        Listing /\ Copies /\ Sorted

MenuInv == Kept /\ Removing /\ Writing

IInv == BaseInv /\ MenuInv

-----------------------------------------------------------------------------
(* A set of generation numbers that is not empty has a largest one. *)
LEMMA Largest ==
    ASSUME NEW S \in SUBSET Numbers, S # {}
    PROVE  \E n \in S : \A m \in S : m <= n
<1>1. MaxGen \in Nat
  BY Parameters
<1>2. \A n \in S : n \in Nat /\ MaxGen - n \in Nat
  BY <1>1 DEF Numbers
<1> DEFINE T == {MaxGen - n : n \in S}
<1>3. T \subseteq Nat /\ T # {}
  BY <1>2
<1> HIDE DEF T
<1>4. PICK x \in T : \A y \in T : ~(<<y, x>> \in OpToRel(<, Nat))
  BY <1>3, NatLessThanWellFounded, WFMin
<1>5. ASSUME NEW y \in T PROVE x <= y
  <2>1. x \in Nat /\ y \in Nat
    BY <1>3
  <2>2. ~(y < x)
    BY <1>4, <2>1 DEF OpToRel
  <2> QED
    BY <2>1, <2>2
<1>6. PICK n \in S : x = MaxGen - n
  BY DEF T
<1>7. ASSUME NEW m \in S PROVE m <= n
  <2>1. MaxGen - m \in T
    BY DEF T
  <2> QED
    BY <1>1, <1>2, <1>5, <1>6, <2>1
<1> QED
  BY <1>7

LEMMA LatestIsLargest ==
    ASSUME BaseInv
    PROVE  /\ Latest \in Generations
           /\ \A m \in Generations : m <= Latest
BY Largest DEF BaseInv, Latest, Generations

-----------------------------------------------------------------------------
(* The key of the default entry.                                           *)

(* A set of sort keys that is not empty has a smallest one. *)
LEMMA Smallest ==
    ASSUME NEW S \in SUBSET Nat, S # {}
    PROVE  \E k \in S : \A l \in S : k <= l
<1>1. PICK x \in S : \A y \in S : ~(<<y, x>> \in OpToRel(<, Nat))
  BY NatLessThanWellFounded, WFMin
<1>2. ASSUME NEW y \in S PROVE x <= y
  <2>1. x \in Nat /\ y \in Nat
    OBVIOUS
  <2>2. ~(y < x)
    BY <1>1, <2>1 DEF OpToRel
  <2> QED
    BY <2>1, <2>2
<1> QED
  BY <1>2

KnownKeys == {SortKeyOf[<<gens[n], None>>] : n \in known}

LEMMA SortedFirstIs ==
    ASSUME BaseInv, known # {}
    PROVE  /\ SortedFirst \in SortKeys
           /\ \A n \in known : SortedFirst <= SortKeyOf[<<gens[n], None>>]
<1>1. \A n \in known : <<gens[n], None>> \in Builds
  BY DEF BaseInv, TypeOK, Generations, Builds, Names
<1>2. KnownKeys \subseteq SortKeys /\ KnownKeys # {}
  BY <1>1 DEF KnownKeys, SortKeys
<1>3. \E k \in KnownKeys : \A l \in KnownKeys : k <= l
  BY <1>2, Smallest, KeysAssumption
<1>4. SortedFirst = CHOOSE k \in KnownKeys : \A l \in KnownKeys : k <= l
  BY DEF SortedFirst, KnownKeys
<1>5. SortedFirst \in KnownKeys /\ \A l \in KnownKeys : SortedFirst <= l
  BY <1>3, <1>4
<1> QED
  BY <1>2, <1>5 DEF KnownKeys

LEMMA DefaultKeyIs ==
    ASSUME BaseInv, known # {}
    PROVE  DefaultKey \in Keys /\ DefaultKey \in Int /\ DefaultKey < SortedFirst
BY SortedFirstIs, KeysAssumption DEF DefaultKey, Keys

LEMMA SameKey ==
    ASSUME UNCHANGED <<gens, known>>
    PROVE  UNCHANGED DefaultKey
BY DEF DefaultKey, SortedFirst

-----------------------------------------------------------------------------
(* The entries that the actions make are entry files, and counted.         *)

EntryOK(e) == e \in EntryFiles /\ (e.tries = None \/ e.tries.left + e.tries.done = Tries)

LEMMA ParsedOK ==
    ASSUME NEW e, EntryOK(e)
    PROVE  EntryOK(Parsed(e))
<1>1. NixosKey \in Keys
  BY DEF Keys, SortKeys
<1>2. (IF e.spec = None THEN None ELSE ParsedSpec[e.spec]) \in Names
  BY Parameters DEF EntryOK, EntryFiles, Names
<1>3. None \in Counters
  BY DEF Counters
<1> QED
  BY <1>1, <1>2, <1>3 DEF EntryOK, EntryFiles, Parsed

LEMMA UpdatedOK ==
    ASSUME BaseInv, Working, NEW d, EntryOK(d)
    PROVE  EntryOK(Updated(d))
<1>1. DefaultKey \in Keys
  BY DefaultKeyIs DEF BaseInv
<1> QED
  BY <1>1 DEF EntryOK, EntryFiles, Updated

LEMMA NewEntryOK ==
    ASSUME BaseInv, Working
    PROVE  EntryOK(NewEntry) /\ Build \in Builds
<1>1. gen \in Numbers /\ gens[gen] \in Systems /\ spec \in Names
  BY DEF BaseInv, TypeOK, Generations
<1>2. Build \in Builds
  BY <1>1 DEF Build, Builds
<1>3. DefaultKey \in Keys /\ SortKeyOf[Build] \in Keys
  BY <1>2, DefaultKeyIs DEF BaseInv, Keys, SortKeys
<1>4. FreshCounter \in Counters
  BY Parameters DEF FreshCounter, Counters
<1>5. FreshCounter = None \/ FreshCounter.left + FreshCounter.done = Tries
  BY Parameters DEF FreshCounter
<1> QED
  BY <1>1, <1>2, <1>3, <1>4, <1>5 DEF EntryOK, EntryFiles, NewEntry

LEMMA TriedOK ==
    ASSUME NEW e, EntryOK(e)
    PROVE  EntryOK(Tried(e))
<1>1. CASE e.tries = None \/ e.tries.left = 0
  BY <1>1 DEF Tried
<1>2. CASE ~(e.tries = None \/ e.tries.left = 0)
  <2> DEFINE t == [left |-> e.tries.left - 1, done |-> e.tries.done + 1]
  <2>1. e.tries \in [left : 0..Tries, done : 0..Tries]
    BY <1>2 DEF EntryOK, EntryFiles, Counters
  <2>2. e.tries.left + e.tries.done = Tries
    BY <1>2 DEF EntryOK
  <2>3. t \in Counters /\ t.left + t.done = Tries
    BY <1>2, <2>1, <2>2, Parameters DEF Counters
  <2>4. Tried(e) = [e EXCEPT !.tries = t]
    BY <1>2 DEF Tried
  <2> QED
    BY <2>3, <2>4 DEF EntryOK, EntryFiles
<1> QED
  BY <1>1, <1>2

LEMMA EntriesOK ==
    ASSUME BaseInv
    PROVE  /\ \A part \in Parts : \A e \in entries[part] : EntryOK(e)
           /\ \A e \in disk : EntryOK(e)
BY DEF BaseInv, TypeOK, Counted, EntryOK

(* A step that puts such entries into the place of others keeps the types. *)
LEMMA EntriesKeep ==
    ASSUME BaseInv, NEW S, \A e \in S : EntryOK(e),
           entries' = [entries EXCEPT ![Boot] = S]
    PROVE  /\ entries' \in [Parts -> SUBSET EntryFiles]
           /\ \A part \in Parts : Counted(entries'[part])
<1>1. S \subseteq EntryFiles /\ Counted(S)
  BY DEF EntryOK, Counted
<1> QED
  BY <1>1 DEF BaseInv, TypeOK, Counted

-----------------------------------------------------------------------------
LEMMA InitBase == Init => BaseInv
<1> SUFFICES ASSUME Init PROVE BaseInv
  OBVIOUS
<1>1. 1 \in Numbers /\ 0 \in 0..MaxChanges /\ 0 \in 0..MaxCrashes /\ 0 \in 0..MaxBoots
  BY Parameters DEF Numbers
<1>2. gens \in [Numbers -> Systems \cup {None}] /\ target \in Systems /\ gens[1] # None
  BY <1>1, Parameters DEF Init
<1>3. TypeOK
  BY <1>1, <1>2 DEF Init, TypeOK, Pcs, Names
<1> QED
  BY <1>1, <1>2, <1>3 DEF Init, BaseInv, Counted, Generations, Working

LEMMA InstallBase ==
    ASSUME BaseInv, NEW s \in Systems, Install(s)
    PROVE  BaseInv'
<1>1. Listed \subseteq Generations /\ Generations \subseteq Numbers
  BY DEF Listed, Generations
<1>2. TypeOK'
  BY <1>1 DEF BaseInv, TypeOK, Install, Goto, disks, used, Pcs
<1> QED
  BY <1>1, <1>2 DEF BaseInv, Install, Goto, disks, used, Generations, Working, Counted

LEMMA ScanBase ==
    ASSUME BaseInv, ScanEntries
    PROVE  BaseInv'
<1>1. Esp \in Parts
  BY DEF Parts
<1>2. TypeOK'
  BY <1>1 DEF BaseInv, TypeOK, ScanEntries, Goto, disks, used, Pcs
<1> QED
  BY <1>1, <1>2 DEF BaseInv, ScanEntries, Goto, disks, used, Generations, Working, Counted

LEMMA RemoveEntryBase ==
    ASSUME BaseInv, RemoveEntry
    PROVE  BaseInv'
<1>1. PICK f \in Stale :
         /\ disk' = disk \ {f}
         /\ \/ /\ entries' = [entries EXCEPT
                      ![Boot] = {e \in @ : NameOf(e) # NameOf(Parsed(f))}]
               /\ blessed' = blessed \ {<<Parsed(f).gen, Parsed(f).spec>>}
               /\ UNCHANGED pc
            \/ Goto("failed") /\ UNCHANGED <<entries, blessed>>
  BY DEF RemoveEntry
<1> DEFINE S == {e \in entries[Boot] : NameOf(e) # NameOf(Parsed(f))}
<1>2. \A e \in S : EntryOK(e)
  BY EntriesOK DEF Parts
<1>3. entries' = [entries EXCEPT ![Boot] = S] \/ UNCHANGED entries
  BY <1>1
<1>4. entries' \in [Parts -> SUBSET EntryFiles] /\ \A part \in Parts : Counted(entries'[part])
  <2>1. CASE UNCHANGED entries
    BY <2>1 DEF BaseInv, TypeOK
  <2>2. CASE entries' = [entries EXCEPT ![Boot] = S]
    <3> HIDE DEF S
    <3> QED
      BY <1>2, <2>2, EntriesKeep
  <2> QED
    BY <1>3, <2>1, <2>2
<1>5. blessed' \in SUBSET (Numbers \X Names) /\ pc' \in Pcs
  BY <1>1 DEF BaseInv, TypeOK, Goto, Pcs
<1>6. TypeOK'
  <2>1. disk' \in SUBSET EntryFiles
    BY <1>1 DEF BaseInv, TypeOK
  <2>2. UNCHANGED <<gens, profile, files, unsynced, target, known, todo, gen,
                    specs, spec, booted, used>>
    BY DEF RemoveEntry
  <2> QED
    BY <1>4, <1>5, <2>1, <2>2 DEF BaseInv, TypeOK, used
<1>7. pc' \in {"remove", "failed"}
  BY <1>1 DEF Goto, RemoveEntry
<1>8. Counted(disk')
  BY <1>1 DEF BaseInv, Counted
<1> QED
  BY <1>4, <1>6, <1>7, <1>8 DEF BaseInv, RemoveEntry, Generations, Working

LEMMA RemovingBase ==
    ASSUME BaseInv, EntriesRemoved \/ RemoveFile \/ FilesRemoved
    PROVE  BaseInv'
<1>1. TypeOK'
  <2>1. CASE EntriesRemoved
    BY <2>1 DEF BaseInv, TypeOK, EntriesRemoved, Goto, disks, memory, used, Pcs
  <2>2. CASE RemoveFile
    BY <2>2 DEF BaseInv, TypeOK, RemoveFile, Unknown, memory, used, Pcs, Parts
  <2>3. CASE FilesRemoved
    BY <2>3 DEF BaseInv, TypeOK, FilesRemoved, Goto, disks, used, Pcs
  <2> QED
    BY <2>1, <2>2, <2>3
<1>2. /\ UNCHANGED <<gens, profile, entries, known, disk, target>>
      /\ todo' \in {todo, known}
      /\ pc' \in {"unlink", "next"}
  BY DEF EntriesRemoved, RemoveFile, FilesRemoved, Goto, disks, memory, used
<1> QED
  BY <1>1, <1>2 DEF BaseInv, Generations, Working, Counted

LEMMA NextGenerationBase ==
    ASSUME BaseInv, NextGeneration
    PROVE  BaseInv'
<1>1. PICK n \in todo : gen' = n /\ todo' = todo \ {n} /\ specs' = SpecsOf[gens[n]]
  BY DEF NextGeneration
<1>2. n \in known /\ n \in Numbers /\ gens[n] \in Systems
  BY DEF BaseInv, TypeOK, Generations
<1>3. SpecsOf[gens[n]] \subseteq Specs /\ None \notin Specs
  BY <1>2, Parameters
<1>4. TypeOK'
  BY <1>1, <1>2, <1>3 DEF BaseInv, TypeOK, NextGeneration, Goto, disks, used, Pcs, Names
<1> QED
  BY <1>1, <1>2, <1>3, <1>4 DEF BaseInv, NextGeneration, Goto, disks, used, Generations,
     Working, Specials, Counted

LEMMA CopiedOK ==
    ASSUME BaseInv, NEW f \in Files, Copied(f)
    PROVE  /\ files' \in [Parts -> [Files -> {"none", "torn", "whole"}]]
           /\ unsynced' \in SUBSET Files
BY DEF BaseInv, TypeOK, Copied, Parts

LEMMA CopyBase ==
    ASSUME BaseInv, CopyKernel \/ CopyInitrd
    PROVE  BaseInv'
<1>1. Working
  BY DEF Working, CopyKernel, CopyInitrd
<1>2. KernelOf[Build] \in Files /\ InitrdOf[Build] \in Files
  BY <1>1, NewEntryOK DEF Files
<1>3. PICK f \in Files : Copied(f)
  BY <1>2 DEF CopyKernel, CopyInitrd
<1>4. /\ UNCHANGED <<gens, profile, entries, memory, booted, blessed, used>>
      /\ pc' \in {"initrd", "secrets"}
  BY DEF CopyKernel, CopyInitrd, Goto
<1>5. TypeOK'
  BY <1>3, <1>4, CopiedOK DEF BaseInv, TypeOK, memory, used, Pcs
<1> QED
  BY <1>1, <1>4, <1>5 DEF BaseInv, Generations, Working, Specials, Counted, memory

LEMMA SecretsBase ==
    ASSUME BaseInv, AppendSecrets
    PROVE  BaseInv'
<1>1. TypeOK'
  BY DEF BaseInv, TypeOK, AppendSecrets, Goto, disks, memory, used, Pcs
<1> QED
  BY <1>1 DEF BaseInv, AppendSecrets, Goto, Generations, Working, Specials, Counted,
     disks, memory, used

LEMMA WriteBase ==
    ASSUME BaseInv, WriteEntry
    PROVE  BaseInv'
<1>1. Working
  BY DEF Working, WriteEntry
<1>2. PICK x : EntryOK(x) /\ entries' = Written(Boot, x)
  <2>1. EntryOK(NewEntry)
    BY <1>1, NewEntryOK
  <2>2. \A d \in OnDisk : EntryOK(Updated(d))
    BY <1>1, EntriesOK, ParsedOK, UpdatedOK DEF OnDisk
  <2> QED
    BY <2>1, <2>2 DEF WriteEntry
<1> DEFINE S == {f \in entries[Boot] : NameOf(f) # NameOf(x)} \cup {x}
<1>3. \A e \in S : EntryOK(e)
  BY <1>2, EntriesOK DEF Parts
<1>4. entries' = [entries EXCEPT ![Boot] = S]
  BY <1>2 DEF Written
<1> HIDE DEF S
<1>5. entries' \in [Parts -> SUBSET EntryFiles] /\ \A part \in Parts : Counted(entries'[part])
  BY <1>3, <1>4, EntriesKeep
<1>6. /\ specs' \subseteq specs /\ spec' \in Names
      /\ pc' \in {"kernel", "next", "cleanup"}
      /\ pc' = "kernel" => spec' \in specs /\ specs' = specs \ {spec'}
      /\ pc' = "cleanup" => todo = {}
  BY DEF WriteEntry, Goto, BaseInv, TypeOK, Names
<1>7. TypeOK'
  BY <1>5, <1>6 DEF BaseInv, TypeOK, WriteEntry, used, Pcs
<1> QED
  BY <1>1, <1>5, <1>6, <1>7 DEF BaseInv, WriteEntry, Generations, Working, Specials, Counted

LEMMA CleanupBase ==
    ASSUME BaseInv, CleanupEsp
    PROVE  BaseInv'
<1>1. /\ entries' \in [Parts -> SUBSET EntryFiles] /\ \A part \in Parts : Counted(entries'[part])
      /\ files' \in [Parts -> [Files -> {"none", "torn", "whole"}]]
  BY DEF BaseInv, TypeOK, CleanupEsp, Counted, Parts
<1>2. TypeOK'
  BY <1>1 DEF BaseInv, TypeOK, CleanupEsp, Goto, memory, used, Pcs
<1> QED
  BY <1>1, <1>2 DEF BaseInv, CleanupEsp, Goto, Generations, Working, Counted, memory

(* The builder forgets everything. *)
LEMMA ForgetBase ==
    ASSUME BaseInv, Finish \/ Crash
    PROVE  BaseInv'
<1>1. 1 \in Numbers
  BY Parameters DEF Numbers
<1>2. files' \in [Parts -> [Files -> {"none", "torn", "whole"}]]
  BY DEF BaseInv, TypeOK, Finish, Crash
<1>3. crashes' \in 0..MaxCrashes
  BY Parameters DEF BaseInv, TypeOK, Finish, Crash, used
<1>4. /\ pc' = "idle" /\ unsynced' = {} /\ gen' = 1 /\ spec' = None
      /\ disk' = {} /\ todo' = {} /\ known' = {} /\ specs' = {}
      /\ UNCHANGED <<gens, profile, entries, target, booted, blessed, changes, boots>>
  BY DEF Finish, Crash, Goto, used
<1>5. TypeOK'
  BY <1>1, <1>2, <1>3, <1>4 DEF BaseInv, TypeOK, Pcs, Names
<1> QED
  BY <1>4, <1>5 DEF BaseInv, Generations, Working, Counted

LEMMA ProfileBase ==
    ASSUME BaseInv,
           \/ \E s \in Systems : NewGeneration(s)
           \/ \E n \in Numbers : Rollback(n) \/ DeleteGeneration(n)
    PROVE  BaseInv'
<1>1. Latest \in Numbers /\ (Latest < MaxGen => Latest + 1 \in Numbers)
  BY LatestIsLargest, Parameters DEF Generations, Numbers
<1>2. pc = "idle" /\ pc' = "idle" /\ known = {} /\ disk = {} /\ todo = {}
  BY DEF NewGeneration, Rollback, DeleteGeneration, BaseInv
<1>3. UNCHANGED <<disks, pc, memory, booted, blessed, crashes, boots>>
  BY DEF NewGeneration, Rollback, DeleteGeneration
<1>4. changes' \in 0..MaxChanges
  BY Parameters DEF BaseInv, TypeOK, NewGeneration, Rollback, DeleteGeneration
<1>5. /\ gens' \in [Numbers -> Systems \cup {None}] /\ profile' \in Numbers
      /\ gens'[profile'] # None
  BY <1>1, Parameters DEF BaseInv, TypeOK, NewGeneration, Rollback, DeleteGeneration, Generations
<1>6. TypeOK'
  BY <1>3, <1>4, <1>5 DEF BaseInv, TypeOK, disks, memory
<1> QED
  BY <1>2, <1>3, <1>5, <1>6 DEF BaseInv, Generations, Working, Counted, disks, memory

LEMMA BootBase ==
    ASSUME BaseInv, BootMachine
    PROVE  BaseInv'
<1>1. PICK e \in entries[Boot] :
         /\ entries' = [entries EXCEPT ![Boot] = (@ \ {e}) \cup {Tried(e)}]
         /\ booted' = NameOf(Tried(e))
  BY DEF BootMachine
<1> DEFINE S == (entries[Boot] \ {e}) \cup {Tried(e)}
<1>2. EntryOK(Tried(e)) /\ \A g \in S : EntryOK(g)
  BY EntriesOK, TriedOK DEF Parts
<1>3. entries' = [entries EXCEPT ![Boot] = S]
  BY <1>1
<1> HIDE DEF S
<1>4. entries' \in [Parts -> SUBSET EntryFiles] /\ \A part \in Parts : Counted(entries'[part])
  BY <1>2, <1>3, EntriesKeep
<1>5. booted' \in (Numbers \X Names \X Counters) \cup {None}
  BY <1>1, <1>2 DEF NameOf, EntryOK, EntryFiles
<1>6. boots' \in 0..MaxBoots
  BY Parameters DEF BaseInv, TypeOK, BootMachine
<1>7. TypeOK'
  BY <1>4, <1>5, <1>6 DEF BaseInv, TypeOK, BootMachine, memory
<1> QED
  BY <1>4, <1>7 DEF BaseInv, BootMachine, Generations, Working, Counted, memory

LEMMA BlessBase ==
    ASSUME BaseInv, Bless
    PROVE  BaseInv'
<1>1. PICK e \in entries[Boot] :
         /\ entries' = [entries EXCEPT ![Boot] = (@ \ {e}) \cup {[e EXCEPT !.tries = None]}]
         /\ blessed' = blessed \cup {<<e.gen, e.spec>>}
         /\ booted' = <<e.gen, e.spec, None>>
  BY DEF Bless
<1> DEFINE S == (entries[Boot] \ {e}) \cup {[e EXCEPT !.tries = None]}
<1>2. EntryOK(e) /\ \A g \in entries[Boot] : EntryOK(g)
  BY EntriesOK DEF Parts
<1>3. EntryOK([e EXCEPT !.tries = None])
  BY <1>2 DEF EntryOK, EntryFiles, Counters
<1>4. entries' = [entries EXCEPT ![Boot] = S] /\ \A g \in S : EntryOK(g)
  BY <1>1, <1>2, <1>3
<1> HIDE DEF S
<1>5. entries' \in [Parts -> SUBSET EntryFiles] /\ \A part \in Parts : Counted(entries'[part])
  BY <1>4, EntriesKeep
<1>6. /\ booted' \in (Numbers \X Names \X Counters) \cup {None}
      /\ blessed' \in SUBSET (Numbers \X Names)
  BY <1>1, <1>2 DEF BaseInv, TypeOK, EntryOK, EntryFiles, Counters
<1>7. TypeOK'
  BY <1>5, <1>6 DEF BaseInv, TypeOK, Bless, memory, used
<1> QED
  BY <1>5, <1>7 DEF BaseInv, Bless, Generations, Working, Specials, Counted, memory

LEMMA NextBase == BaseInv /\ [Next]_vars => BaseInv'
<1> SUFFICES ASSUME BaseInv, [Next]_vars PROVE BaseInv'
  OBVIOUS
<1>1. CASE Builder
  BY <1>1, ScanBase, RemoveEntryBase, RemovingBase, NextGenerationBase, CopyBase,
     SecretsBase, WriteBase, CleanupBase, ForgetBase DEF Builder
<1>2. CASE Crash
  BY <1>2, ForgetBase
<1>3. CASE Environment
  BY <1>3, InstallBase, ProfileBase, BootBase, BlessBase DEF Environment
<1>4. CASE UNCHANGED vars
  BY <1>4 DEF vars, disks, memory, used, BaseInv, TypeOK, Counted, Generations, Working,
     Specials
<1> QED
  BY <1>1, <1>2, <1>3, <1>4 DEF Next

THEOREM BaseInvariance == Spec => []BaseInv
BY InitBase, NextBase, PTL DEF Spec

(* Every variable keeps its type and the counters of an entry add up to the
   attempts it was given (l.86-131). *)
THEOREM TypeCorrect == Spec => []TypeOK
BY BaseInvariance, PTL DEF BaseInv

-----------------------------------------------------------------------------
(* The menu.                                                               *)

LEMMA OnePartition ==
    ASSUME Ordinary
    PROVE  Boot = Esp /\ Parts = {Esp}
BY DEF Ordinary, Boot, Parts

(* A name is read back as it was written. *)
LEMMA ReadBack ==
    ASSUME Ordinary, NEW e, EntryOK(e)
    PROVE  Parsed(e) = [e EXCEPT !.key = NixosKey]
<1>1. (IF e.spec = None THEN None ELSE ParsedSpec[e.spec]) = e.spec
  BY DEF Ordinary, EntryOK, EntryFiles, Names
<1>2. ~(e.tries # None /\ (e.tries.left > 9 \/ e.tries.done > 9))
  <2>1. CASE e.tries # None
    <3>1. e.tries.left \in 0..Tries /\ e.tries.done \in 0..Tries
      BY <2>1 DEF EntryOK, EntryFiles, Counters
    <3> QED
      BY <3>1, Parameters DEF Ordinary
  <2> QED
    BY <2>1
<1> QED
  BY <1>1, <1>2 DEF Parsed, EntryOK, EntryFiles

LEMMA InitMenu == Init => MenuInv
<1> SUFFICES ASSUME Init PROVE MenuInv
  OBVIOUS
<1>1. Menu = {} /\ blessed = {} /\ pc = "idle"
  BY DEF Init, Menu, Parts
<1> QED
  BY <1>1 DEF MenuInv, Kept, Removing, Writing, Working, OneFilePerEntry, BlessedStaysGood

LEMMA SameMenu ==
    ASSUME Kept, UNCHANGED <<gens, entries, blessed>>
    PROVE  Kept'
BY DEF Kept, Genuine, Specials, Pair, Generations, OneFilePerEntry, BlessedStaysGood, Menu

(* Steps that only read, forget or remove files. *)
LEMMA QuietMenu ==
    ASSUME Ordinary, BaseInv, MenuInv,
           \/ \E s \in Systems : Install(s)
           \/ ScanEntries \/ EntriesRemoved \/ RemoveFile \/ Finish \/ Crash
    PROVE  MenuInv'
<1>1. UNCHANGED <<gens, entries, blessed>>
  BY DEF Install, ScanEntries, EntriesRemoved, RemoveFile, Finish, Crash, disks
<1>2. Kept'
  BY <1>1, SameMenu DEF MenuInv
<1>3. Removing'
  BY OnePartition DEF MenuInv, Removing, Menu, Install, ScanEntries, EntriesRemoved, Stale,
     RemoveFile, Finish, Crash, Goto, disks, memory
<1>4. Writing'
  BY DEF Writing, Working, Install, ScanEntries, EntriesRemoved, RemoveFile, Finish, Crash,
     Goto
<1> QED
  BY <1>2, <1>3, <1>4 DEF MenuInv

(* An entry that goes is no longer blessed, and leaves both the menu and the list. *)
LEMMA RemoveEntryMenu ==
    ASSUME Ordinary, BaseInv, MenuInv, RemoveEntry
    PROVE  MenuInv'
<1>1. pc = "remove" /\ disk = Menu
  BY DEF RemoveEntry, MenuInv, Removing
<1>2. PICK f \in Stale :
         /\ disk' = disk \ {f}
         /\ IF \E e \in entries[Boot] : NameOf(e) = NameOf(Parsed(f))
            THEN /\ entries' = [entries EXCEPT
                      ![Boot] = {e \in @ : NameOf(e) # NameOf(Parsed(f))}]
                 /\ blessed' = blessed \ {<<Parsed(f).gen, Parsed(f).spec>>}
                 /\ UNCHANGED pc
            ELSE Goto("failed") /\ UNCHANGED <<entries, blessed>>
  BY DEF RemoveEntry
<1>3. f \in Menu /\ EntryOK(f)
  BY <1>1, EntriesOK DEF Stale
<1>4. NameOf(Parsed(f)) = NameOf(f) /\ <<Parsed(f).gen, Parsed(f).spec>> = Pair(f)
  BY <1>3, ReadBack DEF NameOf, Pair, EntryOK, EntryFiles
<1>5. /\ entries' = [entries EXCEPT ![Boot] = {e \in @ : NameOf(e) # NameOf(f)}]
      /\ blessed' = blessed \ {Pair(f)}
      /\ pc' = "remove"
  BY <1>1, <1>2, <1>3, <1>4 DEF Menu
<1>6. Menu' = Menu \ {f}
  <2>1. Menu' = {e \in Menu : NameOf(e) # NameOf(f)}
    BY <1>5 DEF Menu, BaseInv, TypeOK, Parts
  <2>2. \A e \in Menu : NameOf(e) = NameOf(f) => e = f
    BY <1>3 DEF MenuInv, Kept, OneFilePerEntry, NameOf
  <2> QED
    BY <2>1, <2>2, <1>3
<1>7. UNCHANGED gens
  BY DEF RemoveEntry
<1>8. Kept'
  <2>1. \A e \in Menu' : Genuine(e)'
    BY <1>6, <1>7 DEF MenuInv, Kept, Genuine, Generations, Specials
  <2>2. OneFilePerEntry' /\ BlessedStaysGood'
    BY <1>5, <1>6 DEF MenuInv, Kept, OneFilePerEntry, BlessedStaysGood
  <2>3. \A b \in blessed' : \E e \in Menu' : Pair(e) = b
    BY <1>5, <1>6 DEF MenuInv, Kept
  <2> QED
    BY <2>1, <2>2, <2>3 DEF Kept, Pair
<1>9. Removing'
  BY <1>1, <1>2, <1>5, <1>6 DEF Removing
<1> QED
  BY <1>5, <1>8, <1>9 DEF MenuInv, Writing, Working

(* With one partition no file survives the removal: none is ever known. *)
LEMMA FilesRemovedMenu ==
    ASSUME Ordinary, BaseInv, MenuInv, FilesRemoved
    PROVE  MenuInv'
<1>1. /\ UNCHANGED <<gens, entries, files, blessed, known, disk, target>>
      /\ todo' = known /\ pc = "unlink" /\ pc' = "next"
  BY DEF FilesRemoved, disks, Goto
<1>2. Kept'
  BY <1>1, SameMenu DEF MenuInv
<1>3. disk = Menu /\ \A e \in Menu : e.gen \in known
  BY <1>1 DEF MenuInv, Removing
<1>4. UNCHANGED Menu
  BY <1>1 DEF Menu
<1>5. \A n \in known : \A p : Pending(n, p)'
  BY <1>1 DEF Pending
<1>6. Listing'
  <2>1. \A e \in Menu' \cup disk' :
            e.gen \in known' /\ (e \in disk' <=> e \in Menu')
    BY <1>1, <1>3, <1>4
  <2>2. \A n \in known' : \A p \in Specials(n)' : Pending(n, p)'
    BY <1>1, <1>5
  <2> QED
    BY <2>1, <2>2 DEF Listing
<1>7. \A f \in Files : files'[Boot][f] = "none"
  BY <1>1, OnePartition DEF FilesRemoved, Unknown, Known
<1>8. Copies' /\ Sorted'
  BY <1>1, <1>3, <1>4, <1>5, <1>7 DEF Copies, Sorted
<1> QED
  BY <1>1, <1>2, <1>6, <1>8 DEF MenuInv, Removing, Writing

(* What is to be written of an entry's generation is all there is of it. *)
LEMMA NextGenerationMenu ==
    ASSUME Ordinary, BaseInv, MenuInv, NextGeneration
    PROVE  MenuInv'
<1>1. /\ UNCHANGED <<gens, entries, files, blessed, known, disk, target>>
      /\ pc = "next" /\ pc' = "kernel" /\ spec' = None
  BY DEF NextGeneration, disks, Goto
<1>2. PICK n \in todo : gen' = n /\ todo' = todo \ {n} /\ specs' = SpecsOf[gens[n]]
  BY DEF NextGeneration
<1>3. Kept'
  BY <1>1, SameMenu DEF MenuInv
<1>4. UNCHANGED Menu
  BY <1>1 DEF Menu
<1>5. \A m : \A p : Pending(m, p) <=> m \in todo
  BY <1>1 DEF Pending, Working
<1>6. \A m : \A p : Pending(m, p)' <=> m \in todo \ {n} \/ (m = n /\ p \in Specials(n))
  BY <1>1, <1>2 DEF Pending, Working, Specials
<1>7. \A e \in Menu : e.gen \in known => e.spec \in Specials(e.gen)
  BY DEF MenuInv, Kept, Genuine, BaseInv
<1>8. Listing /\ Copies /\ Sorted
  BY <1>1 DEF MenuInv, Writing
<1>9. \A e \in Menu : Pending(e.gen, e.spec)' <=> Pending(e.gen, e.spec)
  BY <1>2, <1>5, <1>6, <1>7, <1>8 DEF Listing
<1>10. Listing'
  <2>1. ASSUME NEW e \in Menu' \cup disk'
        PROVE  /\ e.gen \in known'
               /\ Pending(e.gen, e.spec)' => (e \in disk' <=> e \in Menu')
    <3>1. Pending(e.gen, e.spec)' => Pending(e.gen, e.spec)
      BY <1>2, <1>5, <1>6
    <3> QED
      BY <1>1, <1>4, <1>8, <3>1, <2>1 DEF Listing
  <2>2. ASSUME NEW m \in known', NEW p \in Specials(m)', ~Pending(m, p)'
        PROVE  \E e \in Menu' : Pair(e) = <<m, p>>
    <3>1. m \in known /\ p \in Specials(m) /\ ~Pending(m, p)
      BY <1>1, <1>5, <1>6, <2>2 DEF Specials
    <3> QED
      BY <1>4, <1>8, <3>1 DEF Listing
  <2> QED
    BY <2>1, <2>2 DEF Listing, Pair
<1>11. Copies'
  BY <1>1, <1>4, <1>8, <1>9 DEF Copies, Working, Whole
<1>12. Sorted'
  BY <1>1, <1>4, <1>8, <1>9, SameKey DEF Sorted, PlainKeys
<1> QED
  BY <1>1, <1>3, <1>10, <1>11, <1>12 DEF MenuInv, Removing, Writing

(* Steps within the writing of an entry. *)
LEMMA WithinEntry ==
    ASSUME MenuInv, Working, Working',
           UNCHANGED <<gens, entries, memory, blessed>>, Copies'
    PROVE  MenuInv'
<1>1. Kept'
  BY SameMenu DEF MenuInv
<1>2. Listing' /\ Sorted'
  BY SameKey DEF MenuInv, Writing, Listing, Sorted, PlainKeys, Pending, Specials, Pair, Menu,
     memory
<1>3. Removing'
  BY DEF Removing, Working
<1> QED
  BY <1>1, <1>2, <1>3 DEF MenuInv, Writing

LEMMA CopyMenu ==
    ASSUME Ordinary, BaseInv, MenuInv, CopyKernel \/ CopyInitrd \/ AppendSecrets
    PROVE  MenuInv'
<1>1. CASE pc' = "failed"
  <2>1. UNCHANGED <<gens, entries, blessed>>
    BY DEF CopyKernel, CopyInitrd, AppendSecrets, disks
  <2> QED
    BY <1>1, <2>1, SameMenu DEF MenuInv, Removing, Writing, Working
<1>2. CASE pc' # "failed"
  <2>1. Working /\ Working' /\ UNCHANGED <<gens, entries, memory, blessed>>
    BY <1>2 DEF Working, CopyKernel, CopyInitrd, AppendSecrets, Goto, disks
  <2>2. UNCHANGED <<Menu, Build>> /\ \A m : \A p : Pending(m, p)' <=> Pending(m, p)
    BY <2>1 DEF Menu, Build, Pending, memory
  <2>3. Copies
    BY <2>1 DEF MenuInv, Writing
  <2>4. KernelOf[Build] \in Files /\ InitrdOf[Build] \in Files
    BY <2>1, NewEntryOK DEF Files
  <2>5. /\ \A f \in Files : files'[Boot][f] # files[Boot][f] =>
              files'[Boot][f] = "whole" /\ Needs(Build, f) /\ files[Boot][f] = "none"
        /\ pc' \in {"initrd", "secrets", "write"} => files'[Boot][KernelOf[Build]] = "whole"
        /\ pc' \in {"secrets", "write"} => files'[Boot][InitrdOf[Build]] = "whole"
    <3>1. /\ files \in [Parts -> [Files -> {"none", "torn", "whole"}]] /\ Boot \in Parts
          /\ \A f \in Files : files[Boot][f] # "torn"
      BY <2>3 DEF BaseInv, TypeOK, Parts, Copies
    <3>2. CASE CopyKernel
      BY <2>4, <3>1, <3>2 DEF CopyKernel, Copied, Needs, Goto
    <3>3. CASE CopyInitrd
      BY <2>3, <2>4, <3>1, <3>3 DEF CopyInitrd, Copied, Needs, Goto, Copies
    <3>4. CASE AppendSecrets
      BY <2>3, <3>4 DEF AppendSecrets, Copies, disks
    <3> QED
      BY <3>2, <3>3, <3>4
  <2>6. Copies'
    <3>1. \A e \in Menu : KernelOf[e.build] \in Files /\ InitrdOf[e.build] \in Files
      BY EntriesOK DEF Menu, Parts, EntryOK, EntryFiles, Files
    <3>2. \A f \in Files : files'[Boot][f] # "torn"
      BY <2>3, <2>5 DEF Copies
    <3>3. \A f \in Files : files'[Boot][f] = "whole" =>
             \/ \E e \in Menu : ~Pending(e.gen, e.spec) /\ Needs(e.build, f)
             \/ Needs(Build, f)
      BY <2>3, <2>5 DEF Copies
    <3>4. \A e \in Menu : ~Pending(e.gen, e.spec) =>
             files'[Boot][KernelOf[e.build]] = "whole" /\ files'[Boot][InitrdOf[e.build]] = "whole"
      BY <2>3, <2>5, <3>1 DEF Copies, Whole
    <3> QED
      BY <2>1, <2>2, <2>5, <3>2, <3>3, <3>4 DEF Copies, Whole, Needs
  <2> QED
    BY <2>1, <2>6, WithinEntry
<1> QED
  BY <1>1, <1>2

LEMMA CleanupMenu ==
    ASSUME Ordinary, BaseInv, MenuInv, CleanupEsp
    PROVE  MenuInv'
<1>1. /\ UNCHANGED <<gens, entries, files, memory, blessed>>
      /\ pc = "cleanup" /\ pc' = "done"
  BY DEF Ordinary, CleanupEsp, Goto
<1>2. Kept'
  BY <1>1, SameMenu DEF MenuInv
<1>3. Listing' /\ Copies' /\ Sorted'
  BY <1>1, SameKey DEF MenuInv, Writing, Listing, Copies, Sorted, PlainKeys, Pending, Working,
     Specials, Pair, Menu, Whole, memory
<1> QED
  BY <1>1, <1>2, <1>3 DEF MenuInv, Removing, Writing

-----------------------------------------------------------------------------
(* Writing an entry.                                                       *)

(* The entry that is written has the name of the one on disk, if there is one,
   and its counter. *)
LEMMA TheEntry ==
    ASSUME Ordinary, BaseInv, MenuInv, WriteEntry
    PROVE  \E x :
        /\ entries' = Written(Boot, x)
        /\ Pair(x) = <<gen, spec>> /\ x.build = Build
        /\ \A f \in Menu : Pair(f) = <<gen, spec>> => NameOf(f) = NameOf(x)
        /\ <<gen, spec>> \in blessed => x.tries = None
        /\ IF IsDefault THEN x.key = DefaultKey ELSE x.key \in PlainKeys(x)
<1>1. pc = "write" /\ Working /\ Pending(gen, spec)
  BY DEF WriteEntry, Working, Pending
<1>2. Listing
  BY <1>1 DEF MenuInv, Writing
<1>3. \A e : Pair(e) = <<gen, spec>> => (e \in disk <=> e \in Menu)
  <2> SUFFICES ASSUME NEW e, Pair(e) = <<gen, spec>>
               PROVE  e \in disk <=> e \in Menu
    OBVIOUS
  <2>1. e.gen = gen /\ e.spec = spec
    BY DEF Pair
  <2> QED
    BY <1>1, <1>2, <2>1 DEF Listing
<1>4. gen \in Generations /\ Build \in Builds
  BY <1>1, NewEntryOK DEF BaseInv
<1>5. CASE OnDisk = {}
  <2>1. entries' = Written(Boot, NewEntry)
    BY <1>5 DEF WriteEntry
  <2>2. Pair(NewEntry) = <<gen, spec>> /\ NewEntry.build = Build
    BY DEF Pair, NewEntry
  <2>3. \A f \in Menu : Pair(f) # <<gen, spec>>
    <3> SUFFICES ASSUME NEW f \in Menu, Pair(f) = <<gen, spec>> PROVE FALSE
      OBVIOUS
    <3>1. f \in disk /\ EntryOK(f)
      BY <1>3, EntriesOK
    <3>2. Parsed(f).gen = gen /\ Parsed(f).spec = spec
      BY <3>1, ReadBack DEF Pair, EntryOK, EntryFiles
    <3> QED
      BY <1>5, <3>1, <3>2 DEF OnDisk
  <2>4. <<gen, spec>> \notin blessed
    BY <2>3 DEF MenuInv, Kept
  <2>5. IF IsDefault THEN NewEntry.key = DefaultKey
        ELSE NewEntry.key \in PlainKeys(NewEntry)
    BY <1>4 DEF NewEntry, PlainKeys
  <2> QED
    BY <2>1, <2>2, <2>3, <2>4, <2>5
<1>6. CASE OnDisk # {}
  <2>1. PICK d \in OnDisk : entries' = Written(Boot, Updated(d))
    BY <1>6 DEF WriteEntry
  <2>2. PICK e \in disk : d = Parsed(e)
    BY DEF OnDisk
  <2>3. EntryOK(e) /\ d = [e EXCEPT !.key = NixosKey]
    BY <2>2, EntriesOK, ReadBack
  <2>4. e.gen = gen /\ e.spec = spec
    BY <2>3 DEF OnDisk, EntryOK, EntryFiles
  <2>5. e \in Menu
    BY <1>3, <2>4 DEF Pair
  <2>6. e.build = Build
    BY <1>4, <2>4, <2>5 DEF MenuInv, Kept, Genuine, Build
  <2>7. /\ Updated(d).gen = gen /\ Updated(d).spec = spec /\ Updated(d).build = Build
        /\ Updated(d).tries = e.tries
        /\ Updated(d).key = IF IsDefault THEN DefaultKey ELSE NixosKey
    BY <2>3, <2>4, <2>6 DEF Updated, EntryOK, EntryFiles
  <2>8. \A f \in Menu : Pair(f) = <<gen, spec>> => f = e
    BY <2>4, <2>5 DEF MenuInv, Kept, OneFilePerEntry, Pair
  <2>9. \A f \in Menu : Pair(f) = <<gen, spec>> => NameOf(f) = NameOf(Updated(d))
    BY <2>4, <2>7, <2>8 DEF NameOf
  <2>10. <<gen, spec>> \in blessed => Updated(d).tries = None
    BY <2>4, <2>5, <2>7 DEF MenuInv, Kept, BlessedStaysGood
  <2> QED
    BY <2>1, <2>7, <2>9, <2>10 DEF Pair, PlainKeys
<1> QED
  BY <1>5, <1>6

(* After that the entry is no longer pending, and nothing else has changed. *)
LEMMA NoLongerPending ==
    ASSUME BaseInv, WriteEntry
    PROVE  \A n : \A p : Pending(n, p)' <=> Pending(n, p) /\ <<n, p>> # <<gen, spec>>
<1>1. pc = "write" /\ Working /\ gen \notin todo /\ spec \notin specs
  BY DEF WriteEntry, Working, BaseInv
<1>2. UNCHANGED <<gen, todo>>
  BY DEF WriteEntry
<1>3. CASE specs # {}
  <2>1. pc' = "kernel" /\ spec' \in specs /\ specs' = specs \ {spec'}
    BY <1>3 DEF WriteEntry, Goto
  <2>2. Working' /\ specs' \cup {spec'} = specs
    BY <2>1 DEF Working
  <2> QED
    BY <1>1, <1>2, <2>2 DEF Pending
<1>4. CASE specs = {}
  <2>1. pc' \in {"next", "cleanup"}
    BY <1>4 DEF WriteEntry, Goto
  <2>2. ~Working'
    BY <2>1 DEF Working
  <2> QED
    BY <1>1, <1>2, <1>4, <2>2 DEF Pending
<1> QED
  BY <1>3, <1>4

LEMMA WriteMenu ==
    ASSUME Ordinary, BaseInv, MenuInv, WriteEntry
    PROVE  MenuInv'
<1> DEFINE cur == <<gen, spec>>
<1>1. /\ UNCHANGED <<gens, files, target, known, disk, todo, gen, blessed>>
      /\ pc = "write" /\ pc' \in {"kernel", "next", "cleanup"}
  BY DEF WriteEntry, Goto
<1>2. PICK x :
        /\ entries' = Written(Boot, x)
        /\ Pair(x) = cur /\ x.build = Build
        /\ \A f \in Menu : Pair(f) = cur => NameOf(f) = NameOf(x)
        /\ cur \in blessed => x.tries = None
        /\ IF IsDefault THEN x.key = DefaultKey ELSE x.key \in PlainKeys(x)
  BY TheEntry
<1>3. x.gen = gen /\ x.spec = spec
  BY <1>2 DEF Pair
<1>4. Menu' = {f \in Menu : Pair(f) # cur} \cup {x}
  <2>1. Menu' = {f \in Menu : NameOf(f) # NameOf(x)} \cup {x}
    BY <1>2 DEF Written, Menu, BaseInv, TypeOK, Parts
  <2>2. \A f \in Menu : NameOf(f) = NameOf(x) <=> Pair(f) = cur
    BY <1>2, <1>3 DEF NameOf, Pair
  <2> QED
    BY <2>1, <2>2
<1>5. \A n : \A p : Pending(n, p)' <=> Pending(n, p) /\ <<n, p>> # cur
  BY NoLongerPending
<1>6. Working /\ Pending(gen, spec) /\ Listing /\ Copies /\ Sorted
  BY <1>1 DEF Working, Pending, MenuInv, Writing
<1>7. gen \in known /\ gen \in Generations /\ spec \in Specials(gen)
  BY <1>6 DEF BaseInv
<1>8. \A e \in Menu' : ~Pending(e.gen, e.spec)' =>
         e = x \/ (e \in Menu /\ ~Pending(e.gen, e.spec))
  BY <1>4, <1>5 DEF Pair
<1>9. \A e \in Menu : ~Pending(e.gen, e.spec) =>
         e \in Menu' /\ ~Pending(e.gen, e.spec)'
  BY <1>4, <1>5, <1>6 DEF Pair
<1>10. x \in Menu' /\ ~Pending(x.gen, x.spec)'
  BY <1>3, <1>4, <1>5
<1>11. Kept'
  <2>1. Genuine(x)
    BY <1>2, <1>3, <1>7 DEF Genuine, Build, BaseInv, TypeOK, Generations, Numbers
  <2>2. \A e \in Menu' : Genuine(e)'
    BY <1>1, <1>4, <2>1 DEF MenuInv, Kept, Genuine, Generations, Specials
  <2>3. OneFilePerEntry'
    BY <1>3, <1>4 DEF MenuInv, Kept, OneFilePerEntry, Pair
  <2>4. BlessedStaysGood'
    BY <1>1, <1>2, <1>3, <1>4 DEF MenuInv, Kept, BlessedStaysGood
  <2>5. \A b \in blessed' : \E e \in Menu' : Pair(e) = b
    BY <1>1, <1>2, <1>4 DEF MenuInv, Kept
  <2> QED
    BY <2>2, <2>3, <2>4, <2>5 DEF Kept, Pair
<1>12. Listing'
  <2>1. ASSUME NEW e \in Menu' \cup disk'
        PROVE  /\ e.gen \in known'
               /\ Pending(e.gen, e.spec)' => (e \in disk' <=> e \in Menu')
    <3>1. e.gen \in known
      BY <1>1, <1>3, <1>4, <1>6, <1>7 DEF Listing
    <3>2. ASSUME Pending(e.gen, e.spec)'
          PROVE  e \in disk' <=> e \in Menu'
      <4>1. Pending(e.gen, e.spec) /\ Pair(e) # cur
        BY <1>5, <3>2 DEF Pair
      <4>2. e \in Menu' <=> e \in Menu
        BY <1>2, <1>4, <4>1
      <4> QED
        BY <1>1, <1>6, <4>1, <4>2, <2>1 DEF Listing
    <3> QED
      BY <1>1, <3>1, <3>2
  <2>2. ASSUME NEW n \in known', NEW p \in Specials(n)', ~Pending(n, p)'
        PROVE  \E e \in Menu' : Pair(e) = <<n, p>>
    <3>1. CASE <<n, p>> = cur
      BY <1>2, <1>4, <3>1
    <3>2. CASE <<n, p>> # cur
      <4>1. n \in known /\ p \in Specials(n) /\ ~Pending(n, p)
        BY <1>1, <1>5, <2>2, <3>2 DEF Specials
      <4>2. PICK e \in Menu : Pair(e) = <<n, p>>
        BY <1>6, <4>1 DEF Listing
      <4> QED
        BY <1>4, <3>2, <4>2
    <3> QED
      BY <3>1, <3>2
  <2> QED
    BY <2>1, <2>2 DEF Listing, Pair
<1>13. Copies'
  <2>1. \A f \in Files : files'[Boot][f] # "torn"
    BY <1>1, <1>6 DEF Copies
  <2>2. \A f \in Files : files'[Boot][f] = "whole" =>
           \E e \in Menu' : ~Pending(e.gen, e.spec)' /\ Needs(e.build, f)
    BY <1>1, <1>2, <1>6, <1>9, <1>10 DEF Copies
  <2>3. \A e \in Menu' : ~Pending(e.gen, e.spec)' => Whole(Boot, e.build)'
    <3>1. Whole(Boot, x.build)
      BY <1>1, <1>2, <1>6 DEF Copies, Whole
    <3> QED
      BY <1>1, <1>6, <1>8, <3>1 DEF Copies, Whole
  <2> QED
    BY <1>1, <2>1, <2>2, <2>3 DEF Copies, Needs
<1>14. Sorted'
  <2>1. gens[x.gen] # target => x.key \in PlainKeys(x)
    BY <1>2, <1>3 DEF IsDefault
  <2>2. gens[x.gen] = target /\ x.spec = None => x.key = DefaultKey
    BY <1>2, <1>3 DEF IsDefault, Build
  <2> QED
    BY <1>1, <1>6, <1>8, <2>1, <2>2, SameKey DEF Sorted, PlainKeys
<1> QED
  BY <1>1, <1>11, <1>12, <1>13, <1>14 DEF MenuInv, Removing, Writing

-----------------------------------------------------------------------------
(* Between the runs.                                                       *)

(* A step of the idle builder that keeps what the menu promises. *)
LEMMA IdleMenu ==
    ASSUME pc = "idle", UNCHANGED pc, Kept'
    PROVE  MenuInv'
BY DEF MenuInv, Removing, Writing, Working

(* No entry bears the number of a generation that is yet to come. *)
LEMMA NewGenerationMenu ==
    ASSUME Ordinary, BaseInv, MenuInv, NEW s \in Systems, NewGeneration(s)
    PROVE  MenuInv'
<1>1. /\ pc = "idle" /\ gens' = [gens EXCEPT ![Latest + 1] = s]
      /\ UNCHANGED <<pc, entries, blessed>>
  BY DEF NewGeneration, disks
<1>2. UNCHANGED Menu
  BY <1>1 DEF Menu
<1>3. Latest \in Numbers /\ \A n \in Generations : n <= Latest
  BY LatestIsLargest DEF Generations
<1>4. Generations' = Generations \cup {Latest + 1} /\ s # None
  BY <1>1, <1>3, Parameters DEF NewGeneration, Generations, BaseInv, TypeOK, Numbers
<1>5. \A e \in Menu : e.gen \in Numbers
  BY EntriesOK DEF Menu, Parts, EntryOK, EntryFiles
<1>6. \A e \in Menu : e.gen <= Latest
  BY <1>3, <1>5 DEF MenuInv, Kept, Genuine, Generations, Numbers
<1>7. \A e \in Menu : gens'[e.gen] = gens[e.gen] /\ e.gen # Latest + 1
  BY <1>1, <1>3, <1>5, <1>6 DEF BaseInv, TypeOK, Numbers
<1>8. \A e \in Menu' : Genuine(e)'
  BY <1>2, <1>4, <1>7 DEF MenuInv, Kept, Genuine, Specials
<1> QED
  BY <1>1, <1>2, <1>8, IdleMenu DEF MenuInv, Kept, OneFilePerEntry, BlessedStaysGood, Pair

LEMMA DeleteGenerationMenu ==
    ASSUME Ordinary, BaseInv, MenuInv, NEW n \in Numbers, DeleteGeneration(n)
    PROVE  MenuInv'
<1>1. /\ pc = "idle" /\ gens' = [gens EXCEPT ![n] = None] /\ n # Latest
      /\ UNCHANGED <<pc, entries, blessed>>
  BY DEF DeleteGeneration, disks, Ordinary
<1>2. UNCHANGED Menu
  BY <1>1 DEF Menu
<1>3. Latest \in Generations /\ \A m \in Generations : m <= Latest
  BY LatestIsLargest
<1>4. Generations' = Generations \ {n} /\ Latest \in Generations'
  BY <1>1, <1>3 DEF Generations, BaseInv, TypeOK
<1>5. \A e \in Menu : e.gen \in Numbers
  BY EntriesOK DEF Menu, Parts, EntryOK, EntryFiles
<1>6. \A e \in Menu : e.gen <= Latest
  BY <1>3, <1>5 DEF MenuInv, Kept, Genuine, Generations, Numbers
<1>7. \A e \in Menu : e.gen # n => gens'[e.gen] = gens[e.gen]
  BY <1>1, <1>5 DEF BaseInv, TypeOK
<1>8. \A e \in Menu' : Genuine(e)'
  BY <1>2, <1>4, <1>6, <1>7 DEF MenuInv, Kept, Genuine, Specials
<1> QED
  BY <1>1, <1>2, <1>8, IdleMenu DEF MenuInv, Kept, OneFilePerEntry, BlessedStaysGood, Pair

LEMMA RollbackMenu ==
    ASSUME MenuInv, NEW n \in Numbers, Rollback(n)
    PROVE  MenuInv'
<1>1. pc = "idle" /\ UNCHANGED <<pc, gens, entries, blessed>>
  BY DEF Rollback, disks
<1> QED
  BY <1>1, SameMenu, IdleMenu DEF MenuInv

(* A file that is renamed to change its counter stays what it is. *)
LEMMA RenamedMenu ==
    ASSUME Ordinary, BaseInv, MenuInv, pc = "idle", UNCHANGED <<pc, gens>>,
           NEW e \in Menu, NEW t, Menu' = (Menu \ {e}) \cup {t},
           t.gen = e.gen, t.spec = e.spec, t.build = e.build,
           e.tries = None => t.tries = None,
           blessed' = blessed \/ (blessed' = blessed \cup {Pair(e)} /\ t.tries = None)
    PROVE  MenuInv'
<1>1. Pair(t) = Pair(e)
  BY DEF Pair
<1>2. \A g \in Menu : Pair(g) = Pair(e) => g = e
  BY DEF MenuInv, Kept, OneFilePerEntry, Pair
<1>3. \A g \in Menu' : Genuine(g)'
  BY DEF MenuInv, Kept, Genuine, Generations, Specials
<1>4. OneFilePerEntry'
  BY DEF MenuInv, Kept, OneFilePerEntry
<1>5. BlessedStaysGood'
  <2> SUFFICES ASSUME NEW g \in Menu', <<g.gen, g.spec>> \in blessed' PROVE g.tries = None
    BY DEF BlessedStaysGood
  <2>1. CASE g = t
    BY <2>1 DEF MenuInv, Kept, BlessedStaysGood, Pair
  <2>2. CASE g # t
    BY <2>2, <1>2 DEF MenuInv, Kept, BlessedStaysGood, Pair
  <2> QED
    BY <2>1, <2>2
<1>6. \A b \in blessed' : \E g \in Menu' : Pair(g) = b
  BY <1>1 DEF MenuInv, Kept
<1> QED
  BY <1>3, <1>4, <1>5, <1>6, IdleMenu DEF Kept, Pair

LEMMA BootMenu ==
    ASSUME Ordinary, BaseInv, MenuInv, BootMachine
    PROVE  MenuInv'
<1>1. PICK e \in Menu : entries' = [entries EXCEPT ![Boot] = (@ \ {e}) \cup {Tried(e)}]
  BY DEF BootMachine, Menu
<1>2. Menu' = (Menu \ {e}) \cup {Tried(e)}
  BY <1>1 DEF Menu, BaseInv, TypeOK, Parts
<1>3. /\ pc = "idle" /\ UNCHANGED <<pc, gens, blessed>>
  BY DEF BootMachine
<1>4. EntryOK(e)
  BY EntriesOK DEF Menu, Parts
<1>5. /\ Tried(e).gen = e.gen /\ Tried(e).spec = e.spec /\ Tried(e).build = e.build
      /\ e.tries = None => Tried(e).tries = None
  BY <1>4 DEF Tried, EntryOK, EntryFiles
<1> QED
  BY <1>2, <1>3, <1>5, RenamedMenu

LEMMA BlessMenu ==
    ASSUME Ordinary, BaseInv, MenuInv, Bless
    PROVE  MenuInv'
<1>1. PICK e \in Menu :
        /\ entries' = [entries EXCEPT ![Boot] = (@ \ {e}) \cup {[e EXCEPT !.tries = None]}]
        /\ blessed' = blessed \cup {Pair(e)}
  BY DEF Bless, Menu, Pair
<1> DEFINE t == [e EXCEPT !.tries = None]
<1>2. Menu' = (Menu \ {e}) \cup {t}
  BY <1>1 DEF Menu, BaseInv, TypeOK, Parts
<1>3. pc = "idle" /\ UNCHANGED <<pc, gens>>
  BY DEF Bless, Ordinary
<1>4. EntryOK(e)
  BY EntriesOK DEF Menu, Parts
<1>5. t.gen = e.gen /\ t.spec = e.spec /\ t.build = e.build /\ t.tries = None
  BY <1>4 DEF EntryOK, EntryFiles
<1> HIDE DEF t
<1> QED
  BY <1>1, <1>2, <1>3, <1>5, RenamedMenu

-----------------------------------------------------------------------------
LEMMA NextMenu ==
    ASSUME Ordinary
    PROVE  BaseInv /\ MenuInv /\ [Next]_vars => MenuInv'
<1> SUFFICES ASSUME BaseInv, MenuInv, [Next]_vars PROVE MenuInv'
  OBVIOUS
<1>1. CASE Builder
  BY <1>1, QuietMenu, RemoveEntryMenu, FilesRemovedMenu, NextGenerationMenu, CopyMenu,
     WriteMenu, CleanupMenu DEF Builder
<1>2. CASE Crash
  BY <1>2, QuietMenu
<1>3. CASE Environment
  BY <1>3, QuietMenu, NewGenerationMenu, RollbackMenu, DeleteGenerationMenu, BootMenu,
     BlessMenu DEF Environment
<1>4. CASE UNCHANGED vars
  <2>1. UNCHANGED <<gens, entries, files, blessed, pc, memory>>
    BY <1>4 DEF vars, disks
  <2>2. Kept'
    BY <2>1, SameMenu DEF MenuInv
  <2>3. Removing' /\ Writing'
    BY <2>1, SameKey DEF MenuInv, Removing, Writing, Listing, Copies, Sorted, PlainKeys, Pending,
       Working, Specials, Pair, Menu, Whole, Build, memory
  <2> QED
    BY <2>2, <2>3 DEF MenuInv
<1> QED
  BY <1>1, <1>2, <1>3, <1>4 DEF Next

THEOREM Invariance == ASSUME Ordinary PROVE Spec => []IInv
<1>1. Init => IInv
  BY InitBase, InitMenu DEF IInv
<1>2. IInv /\ [Next]_vars => IInv'
  BY NextBase, NextMenu DEF IInv
<1> QED
  BY <1>1, <1>2, PTL DEF Spec

(* Nothing is pending at the end. *)
LEMMA AllWritten ==
    ASSUME IInv, AtEnd
    PROVE  /\ \A n : \A p : ~Pending(n, p)
           /\ Listing /\ Copies /\ Sorted
BY DEF IInv, BaseInv, MenuInv, Writing, AtEnd, Pending, Working

(* A run leaves in the menu what it was to leave there and nothing else, after
   any history of profile changes, kills and power losses
   (remove_old_entries, l.310-356, and the loop of main, l.466-473). *)
THEOREM TheListedAreTheMenu == ASSUME Ordinary PROVE Spec => []MenuIsTheListed
<1>1. ASSUME IInv PROVE MenuIsTheListed
  <2> SUFFICES ASSUME AtEnd
               PROVE  {<<e.gen, e.spec>> : e \in Menu} =
                      UNION {{n} \X (SpecsOf[gens[n]] \cup {None}) : n \in known}
    BY DEF MenuIsTheListed
  <2>1. \A e \in Menu : e.gen \in known /\ e.spec \in Specials(e.gen)
    BY <1>1, AllWritten DEF Listing, IInv, BaseInv, MenuInv, Kept, Genuine
  <2>2. \A n \in known : \A p \in Specials(n) : \E e \in Menu : <<e.gen, e.spec>> = <<n, p>>
    BY <1>1, AllWritten DEF Listing, Pair
  <2> QED
    BY <2>1, <2>2 DEF Specials
<1> QED
  BY <1>1, Invariance, PTL

(* Whatever kills and power losses have torn, every entry of the menu that a run
   leaves has its kernel and its initial ramdisk, whole (l.226-250, l.344-352). *)
THEOREM EveryEntryIsBootable == ASSUME Ordinary PROVE Spec => []EveryEntryBoots
<1>1. IInv => EveryEntryBoots
  BY AllWritten DEF EveryEntryBoots, Copies
<1> QED
  BY <1>1, Invariance, PTL

(* The entries that a run leaves sorted first boot the system it was called for,
   whatever the sort keys are, unless l.111 or l.452-458 has put them there: they
   were read back with the key "nixos", or they are specialisations, and their
   keys sort before those of all listed systems (l.114-131, l.470-473). *)
THEOREM TheDefaultIsTheTarget == ASSUME Ordinary PROVE Spec => []DefaultBoots
<1>1. ASSUME IInv PROVE DefaultBoots
  <2> SUFFICES ASSUME AtEnd, NEW n \in known, gens[n] = target,
                      NEW e \in Menu, \A f \in Menu : e.key <= f.key,
                      e.build[1] # target
               PROVE  OutOfOrder(e)
    BY DEF DefaultBoots, First
  <2>1. Listing /\ Sorted /\ \A m : \A p : ~Pending(m, p)
    BY <1>1, AllWritten
  <2>2. PICK d \in Menu : Pair(d) = <<n, None>>
    BY <2>1 DEF Listing, Specials
  <2>3. d.key = DefaultKey
    BY <2>1, <2>2 DEF Sorted, Pair
  <2>4. e.gen \in known /\ e.build = <<gens[e.gen], e.spec>>
    BY <1>1, <2>1 DEF Listing, IInv, BaseInv, MenuInv, Kept, Genuine
  <2>5. e.key = NixosKey \/ e.key = SortKeyOf[e.build]
    BY <2>1, <2>4 DEF Sorted, PlainKeys
  <2>6. e.build \in Builds /\ e.key \in Nat
    BY <1>1, <2>5, EntriesOK, KeysAssumption DEF IInv, Menu, Parts, EntryOK, EntryFiles, SortKeys
  <2>7. DefaultKey \in Int /\ DefaultKey < SortedFirst /\ SortedFirst \in Nat
    BY <1>1, DefaultKeyIs, SortedFirstIs, KeysAssumption DEF IInv
  <2>8. e.key < SortedFirst
    BY <2>3, <2>6, <2>7
  <2>9. e.spec = None => e.key # SortKeyOf[e.build]
    BY <1>1, <2>4, <2>6, <2>7, <2>8, SortedFirstIs DEF IInv
  <2> QED
    BY <2>5, <2>8, <2>9 DEF OutOfOrder
<1> QED
  BY <1>1, Invariance, PTL

(* No two files stand for one entry, at any time (l.290-294). *)
THEOREM NoSecondFile == ASSUME Ordinary PROVE Spec => []OneFilePerEntry
BY Invariance, PTL DEF IInv, MenuInv, Kept

(* No run gives a counter to an entry that was blessed, as long as the entry
   stays in the menu (l.290-294). *)
THEOREM BlessedIsForGood == ASSUME Ordinary PROVE Spec => []BlessedStaysGood
BY Invariance, PTL DEF IInv, MenuInv, Kept

(* A run leaves no file that no entry needs (l.344-352). *)
THEOREM NoFileIsWasted == ASSUME Ordinary PROVE Spec => []NothingWasted
<1>1. ASSUME IInv PROVE NothingWasted
  <2> SUFFICES ASSUME AtEnd, NEW f \in Files, files[Boot][f] # "none"
               PROVE  \E e \in Menu : f \in {KernelOf[e.build], InitrdOf[e.build]}
    BY DEF NothingWasted
  <2>1. Copies /\ ~Working
    BY <1>1, AllWritten DEF AtEnd, Working
  <2>2. files[Boot][f] = "whole"
    BY <1>1, <2>1 DEF Copies, IInv, BaseInv, TypeOK, Parts
  <2> QED
    BY <2>1, <2>2 DEF Copies, Needs
<1> QED
  BY <1>1, Invariance, PTL

(* When an entry gets its name, what it names has been copied, so that a kill of
   the builder right after it leaves it bootable (l.262-296). *)
THEOREM EntriesAreLast == ASSUME Ordinary PROVE Spec => EntriesComeLast
<1>1. ASSUME IInv, [Next]_vars, pc = "write"
      PROVE  \A e \in Menu' \ Menu : Whole(Boot, e.build)'
  <2>1. CASE WriteEntry
    <3>1. PICK x : entries' = Written(Boot, x) /\ x.build = Build
      BY <1>1, <2>1, TheEntry DEF IInv
    <3>2. Menu' \subseteq Menu \cup {x}
      BY <1>1, <3>1 DEF Written, Menu, IInv, BaseInv, TypeOK, Parts
    <3>3. Whole(Boot, Build) /\ UNCHANGED files
      BY <1>1, <2>1 DEF WriteEntry, IInv, MenuInv, Writing, Working, Copies, Whole
    <3> QED
      BY <3>1, <3>2, <3>3 DEF Whole
  <2>2. CASE ~WriteEntry
    <3>1. UNCHANGED entries
      BY <1>1, <2>2 DEF Ordinary, Next, Builder, Environment, ScanEntries, RemoveEntry,
         EntriesRemoved, RemoveFile, FilesRemoved, NextGeneration, CopyKernel, CopyInitrd,
         AppendSecrets, CleanupEsp, Finish, Crash, Install, NewGeneration, Rollback,
         DeleteGeneration, BootMachine, Bless, vars, disks
    <3> QED
      BY <3>1 DEF Menu
  <2> QED
    BY <2>1, <2>2
<1>2. IInv /\ [Next]_vars =>
        [pc = "write" => \A e \in Menu' \ Menu : Whole(Boot, e.build)']_vars
  BY <1>1
<1> QED
  BY <1>2, Invariance, PTL DEF Spec, EntriesComeLast

=============================================================================
