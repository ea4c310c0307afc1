----------------------------- MODULE SystemdBoot -----------------------------
(***************************************************************************)
(* systemd-boot-builder.py: keeping the boot menu, and the kernels and     *)
(* initial ramdisks it names, in step with the generations of the system   *)
(* profile.  The builder scans the entries on disk, removes what it does   *)
(* not know, and then copies files and writes one entry per generation and *)
(* specialisation.  It may be killed, or the power lost, at any point.     *)
(*                                                                         *)
(* External: nix-env, which numbers generations; systemd-boot, which       *)
(* counts boot attempts in entry file names; systemd-bless-boot, which     *)
(* takes the counter away once a boot has succeeded.                       *)
(***************************************************************************)
EXTENDS Integers, FiniteSets

CONSTANTS
    Systems,       \* toplevel system closures
    Specs,         \* names of specialisations
    None,          \* "no specialisation", "no counter", "nothing"
    SpecsOf,       \* SpecsOf[s]: the specialisations of s
    ParsedSpec,    \* ParsedSpec[n]: what [a-zA-Z0-9]+ matches of the name n
    KernelOf,      \* KernelOf[b], InitrdOf[b]: the files that the build
    InitrdOf,      \* b = <<system, specialisation or None>> boots with
    SortKeyOf,     \* SortKeyOf[b]: its sort key, a number in the place of a string
    NixosKey,      \* the sort key "nixos"
    KeyBefore,     \* KeyBefore[k]: "nixor-default" for k = "nixos"
    XBootldr,      \* is there a boot partition besides the ESP?
    Limit,         \* configurationLimit, 0 for none
    Tries,         \* bootCounting.tries, 0 without boot counting
    SecretsFail,   \* may the initrd secrets of a build be missing?
    ReuseNumbers,  \* may the latest generation be deleted?
    BlessAnytime,  \* may a boot be blessed while the builder runs?
    MaxGen,        \* bound on generation numbers
    MaxChanges,    \* bound on profile changes
    MaxCrashes,    \* bound on kills and power losses
    MaxBoots       \* bound on boots of the machine

Names  == Specs \cup {None}
Builds == Systems \X Names
Files  == {KernelOf[b] : b \in Builds} \cup {InitrdOf[b] : b \in Builds}
SortKeys == {SortKeyOf[b] : b \in Builds} \cup {NixosKey}
Keys   == SortKeys \cup {KeyBefore[k] : k \in SortKeys}
Esp    == "esp"
Boot   == IF XBootldr THEN "xbootldr" ELSE Esp
Parts  == {Esp, Boot}
Numbers  == 1 .. MaxGen
Counters == [left : 0 .. Tries, done : 0 .. Tries] \cup {None}

\* An entry file: its name is <<gen, spec, tries>>, its content what it boots
\* and its sort key.
EntryFiles == [gen : Numbers, spec : Names, tries : Counters, build : Builds,
               key : Keys]
NameOf(e)  == <<e.gen, e.spec, e.tries>>

ASSUME Parameters ==
    /\ None \notin Specs \cup Systems
    /\ SpecsOf \in [Systems -> SUBSET Specs]
    /\ ParsedSpec \in [Specs -> Specs]
    /\ Limit \in Nat /\ Tries \in Nat /\ MaxGen \in Nat \ {0}
    /\ MaxChanges \in Nat /\ MaxCrashes \in Nat /\ MaxBoots \in Nat
    /\ XBootldr \in BOOLEAN /\ SecretsFail \in BOOLEAN
    /\ ReuseNumbers \in BOOLEAN /\ BlessAnytime \in BOOLEAN

\* Sort keys are ordered as strings are. The last character of a key is replaced
\* by the one before it: what comes out sorts before the key (l.115-118).
ASSUME KeysAssumption ==
    /\ SortKeys \subseteq Nat
    /\ KeyBefore \in [SortKeys -> Int]
    /\ \A k \in SortKeys : KeyBefore[k] < k

VARIABLES
    gens,      \* gens[n]: the system of generation n of the profile, or None
    profile,   \* the generation the profile points to
    entries,   \* entries[part]: files in loader/entries
    files,     \* files[part][f]: none, torn or whole
    unsynced,  \* files of Boot copied since the last sync
    pc, target, known, disk, todo, gen, specs, spec,  \* the builder's locals
    booted,    \* the name of the entry the machine was booted from, or None
    blessed,   \* history: entries whose counter was taken away for good
    changes, crashes, boots     \* used up so far

memory == <<target, known, disk, todo, gen, specs, spec>>
disks  == <<entries, files, unsynced>>
used   == <<changes, crashes, boots>>
vars   == <<gens, profile, disks, pc, memory, booted, blessed, used>>

Pcs == {"idle", "scan", "remove", "unlink", "next", "kernel", "initrd",
        "secrets", "write", "cleanup", "done", "failed"}

-----------------------------------------------------------------------------
(* Generations and entries.                                                *)

Generations == {n \in Numbers : gens[n] # None}
Latest      == CHOOSE n \in Generations : \A m \in Generations : m <= n

\* configurations[-configurationLimit:], where a limit of 0 keeps them all.
Listed ==
    {n \in Generations :
        Limit = 0 \/ Cardinality({m \in Generations : m > n}) < Limit}

\* DiskEntry.from_path: a counter of more than one digit is not recognised, a
\* specialisation is cut off at the first character that is no letter or
\* digit, and the sort key is looked up under a name no entry has.
Parsed(e) ==
    [gen   |-> e.gen,
     spec  |-> IF e.spec = None THEN None ELSE ParsedSpec[e.spec],
     tries |-> IF e.tries # None /\ (e.tries.left > 9 \/ e.tries.done > 9)
               THEN None ELSE e.tries,
     build |-> e.build,
     key   |-> NixosKey]

\* DiskEntry.write: rename puts the entry in the place of one of its name.
Written(part, e) ==
    [entries EXCEPT ![part] = {f \in @ : NameOf(f) # NameOf(e)} \cup {e}]

\* Mutant of Known: the paths are compared as they are meant to be.
KnownByName(f) == \E n \in known : f \in {KernelOf[<<gens[n], None>>],
                                          InitrdOf[<<gens[n], None>>]}

\* Mutant of Known: no file is ever removed.
KnownAlways(f) == TRUE

\* known_paths holds paths below the mount point, the names compared with
\* them start with it: none is ever known.
Known(f) == FALSE

-----------------------------------------------------------------------------
TypeOK ==
    /\ gens \in [Numbers -> Systems \cup {None}]
    /\ profile \in Numbers
    /\ entries \in [Parts -> SUBSET EntryFiles]
    /\ files \in [Parts -> [Files -> {"none", "torn", "whole"}]]
    /\ unsynced \in SUBSET Files
    /\ pc \in Pcs /\ target \in Systems
    /\ known \in SUBSET Numbers /\ todo \in SUBSET Numbers
    /\ disk \in SUBSET EntryFiles
    /\ gen \in Numbers /\ specs \in SUBSET Specs /\ spec \in Names
    /\ booted \in (Numbers \X Names \X Counters) \cup {None}
    /\ blessed \in SUBSET (Numbers \X Names)
    /\ changes \in 0 .. MaxChanges /\ crashes \in 0 .. MaxCrashes
    /\ boots \in 0 .. MaxBoots

\* A machine with one generation and an empty boot partition.
Init ==
    /\ \E s \in Systems :
          /\ gens = [n \in Numbers |-> IF n = 1 THEN s ELSE None]
          /\ target = s
    /\ profile = 1
    /\ entries = [part \in Parts |-> {}]
    /\ files = [part \in Parts |-> [f \in Files |-> "none"]]
    /\ unsynced = {}
    /\ pc = "idle"
    /\ known = {} /\ disk = {} /\ todo = {}
    /\ gen = 1 /\ specs = {} /\ spec = None
    /\ booted = None /\ blessed = {}
    /\ changes = 0 /\ crashes = 0 /\ boots = 0

-----------------------------------------------------------------------------
(* The builder.                                                            *)

Goto(where) == pc' = where

\* switch-to-configuration of the system s installs the boot loader.
Install(s) ==
    /\ pc = "idle"
    /\ target' = s
    /\ known' = Listed
    /\ Goto("scan")
    /\ UNCHANGED <<gens, profile, disks, disk, todo, gen, specs, spec, booted,
                   blessed, used>>

\* Mutant of ScanEntries: the boot partition is not read.
ScanNothing ==
    /\ pc = "scan"
    /\ disk' = {}
    /\ Goto("remove")
    /\ UNCHANGED <<gens, profile, disks, target, known, todo, gen, specs, spec,
                   booted, blessed, used>>

\* The entries are read from the ESP.
ScanEntries ==
    /\ pc = "scan"
    /\ disk' = entries[Esp]
    /\ Goto("remove")
    /\ UNCHANGED <<gens, profile, disks, target, known, todo, gen, specs, spec,
                   booted, blessed, used>>

Stale == {e \in disk : e.gen \notin known}

\* The paths of stale entries are on the boot partition; one that is not
\* there ends the builder.
RemoveEntry ==
    /\ pc = "remove"
    /\ \E f \in Stale : LET d == Parsed(f) IN
          /\ disk' = disk \ {f}
          /\ IF \E e \in entries[Boot] : NameOf(e) = NameOf(d)
             THEN /\ entries' = [entries EXCEPT
                        ![Boot] = {e \in @ : NameOf(e) # NameOf(d)}]
                  /\ blessed' = blessed \ {<<d.gen, d.spec>>}
                  /\ UNCHANGED pc
             ELSE Goto("failed") /\ UNCHANGED <<entries, blessed>>
    /\ UNCHANGED <<gens, profile, files, unsynced, target, known, todo, gen,
                   specs, spec, booted, used>>

EntriesRemoved ==
    /\ pc = "remove" /\ Stale = {}
    /\ Goto("unlink")
    /\ UNCHANGED <<gens, profile, disks, memory, booted, blessed, used>>

Unknown == {f \in Files : files[Esp][f] # "none" /\ ~Known(f)}

RemoveFile ==
    /\ pc = "unlink"
    /\ \E f \in Unknown :
          /\ files' = [files EXCEPT ![Esp][f] = "none"]
          /\ unsynced' = unsynced \ {f}
    /\ UNCHANGED <<gens, profile, entries, pc, memory, booted, blessed, used>>

FilesRemoved ==
    /\ pc = "unlink" /\ Unknown = {}
    /\ todo' = known
    /\ Goto("next")
    /\ UNCHANGED <<gens, profile, disks, target, known, disk, gen, specs, spec,
                   booted, blessed, used>>

\* The generations are written in the order of their numbers.
NextGeneration ==
    /\ pc = "next"
    /\ \E n \in todo :
          /\ \A m \in todo : n <= m
          /\ gen' = n /\ todo' = todo \ {n} /\ specs' = SpecsOf[gens[n]]
    /\ spec' = None
    /\ Goto("kernel")
    /\ UNCHANGED <<gens, profile, disks, target, known, disk, booted, blessed,
                   used>>

Build == <<gens[gen], spec>>

\* copy_if_not_exists: a file that is there is taken for a whole one.
Copied(f) ==
    IF files[Boot][f] # "none" THEN UNCHANGED <<files, unsynced>>
    ELSE /\ files' = [files EXCEPT ![Boot][f] = "whole"]
         /\ unsynced' = unsynced \cup {f}

CopyKernel ==
    /\ pc = "kernel"
    /\ Copied(KernelOf[Build])
    /\ Goto("initrd")
    /\ UNCHANGED <<gens, profile, entries, memory, booted, blessed, used>>

\* Mutant of CopyInitrd: only the kernel is copied.
CopyNoInitrd ==
    /\ pc = "initrd"
    /\ Goto("secrets")
    /\ UNCHANGED <<gens, profile, disks, memory, booted, blessed, used>>

CopyInitrd ==
    /\ pc = "initrd"
    /\ Copied(InitrdOf[Build])
    /\ Goto("secrets")
    /\ UNCHANGED <<gens, profile, entries, memory, booted, blessed, used>>

\* The entry of the system to boot by default; a specialisation shares that
\* only if it has the sort key of its parent.
IsDefault ==
    /\ gens[gen] = target
    /\ SortKeyOf[Build] = SortKeyOf[<<target, None>>]

\* Missing secrets matter for the default only.
AppendSecrets ==
    /\ pc = "secrets"
    /\ \/ Goto("write")
       \/ SecretsFail /\ IsDefault /\ Goto("failed")
    /\ UNCHANGED <<gens, profile, disks, memory, booted, blessed, used>>

\* Mutant of SortedFirst: the largest key.
SortedLast ==
    LET keys == {SortKeyOf[<<gens[n], None>>] : n \in known}
    IN  CHOOSE k \in keys : \A l \in keys : k >= l

\* The smallest sort key of the listed systems, their specialisations left out.
SortedFirst ==
    LET keys == {SortKeyOf[<<gens[n], None>>] : n \in known}
    IN  CHOOSE k \in keys : \A l \in keys : k <= l

DefaultKey == KeyBefore[SortedFirst]

\* Entries on disk for the generation and specialisation being written.
OnDisk == {d \in {Parsed(e) : e \in disk} : d.gen = gen /\ d.spec = spec}

\* Mutant of FreshCounter: the first attempt is not counted.
FreshCounterPlusOne == IF Tries = 0 THEN None ELSE [left |-> Tries + 1, done |-> 0]

FreshCounter == IF Tries = 0 THEN None ELSE [left |-> Tries, done |-> 0]

NewEntry == [gen |-> gen, spec |-> spec, tries |-> FreshCounter,
             build |-> Build,
             key |-> IF IsDefault THEN DefaultKey ELSE SortKeyOf[Build]]

\* Mutant of Updated: the counter starts over.
UpdatedRecounted(d) ==
    [d EXCEPT !.key = IF IsDefault THEN DefaultKey ELSE @, !.tries = FreshCounter]

\* An entry on disk keeps its content and counter but for the sort key.
Updated(d) == [d EXCEPT !.key = IF IsDefault THEN DefaultKey ELSE @]

WriteEntry ==
    /\ pc = "write"
    /\ IF OnDisk = {} THEN entries' = Written(Boot, NewEntry)
       ELSE \E d \in OnDisk : entries' = Written(Boot, Updated(d))
    /\ IF specs # {}
       THEN /\ \E n \in specs : spec' = n /\ specs' = specs \ {n}
            /\ Goto("kernel")
       ELSE /\ Goto(IF todo # {} THEN "next" ELSE "cleanup")
            /\ UNCHANGED <<specs, spec>>
    /\ UNCHANGED <<gens, profile, files, unsynced, target, known, disk, todo,
                   gen, booted, blessed, used>>

\* cleanup_esp: with a boot partition of its own nothing stays on the ESP.
CleanupEsp ==
    /\ pc = "cleanup"
    /\ IF XBootldr
       THEN /\ entries' = [entries EXCEPT ![Esp] = {}]
            /\ files' = [files EXCEPT ![Esp] = [f \in Files |-> "none"]]
       ELSE UNCHANGED <<entries, files>>
    /\ Goto("done")
    /\ UNCHANGED <<gens, profile, unsynced, memory, booted, blessed, used>>

\* The finally clause of main syncs whether the run failed or not.
Finish ==
    /\ pc \in {"done", "failed"}
    /\ unsynced' = {}
    /\ Goto("idle")
    /\ disk' = {} /\ todo' = {} /\ known' = {} /\ specs' = {}
    /\ gen' = 1 /\ spec' = None
    /\ UNCHANGED <<gens, profile, entries, files, target, booted, blessed, used>>

-----------------------------------------------------------------------------
(* Crashes.                                                                *)

\* The file being copied when the builder dies may be cut short.
Cut ==
    LET f == IF pc = "kernel" THEN KernelOf[Build] ELSE InitrdOf[Build]
    IN  IF pc \in {"kernel", "initrd"} /\ files[Boot][f] = "none"
        THEN {{}, {f}} ELSE {{}}

\* A kill cuts that file short; a power loss, any file not synced yet.
Crash ==
    /\ pc \notin {"idle"} /\ crashes < MaxCrashes
    /\ crashes' = crashes + 1
    /\ \E cut \in Cut, lost \in SUBSET unsynced :
          files' = [files EXCEPT ![Boot] =
              [f \in Files |-> IF f \in cut \cup lost THEN "torn" ELSE @[f]]]
    /\ unsynced' = {}
    /\ Goto("idle")
    /\ disk' = {} /\ todo' = {} /\ known' = {} /\ specs' = {}
    /\ gen' = 1 /\ spec' = None
    /\ UNCHANGED <<gens, profile, entries, target, booted, blessed, changes,
                   boots>>

-----------------------------------------------------------------------------
(* nix-env, systemd-boot and systemd-bless-boot.                           *)

\* The number of a new generation is one more than that of the latest.
NewGeneration(s) ==
    /\ pc = "idle" /\ changes < MaxChanges /\ Latest < MaxGen
    /\ gens' = [gens EXCEPT ![Latest + 1] = s]
    /\ profile' = Latest + 1
    /\ changes' = changes + 1
    /\ UNCHANGED <<disks, pc, memory, booted, blessed, crashes, boots>>

Rollback(n) ==
    /\ pc = "idle" /\ changes < MaxChanges
    /\ n \in Generations \ {profile}
    /\ profile' = n
    /\ changes' = changes + 1
    /\ UNCHANGED <<gens, disks, pc, memory, booted, blessed, crashes, boots>>

DeleteGeneration(n) ==
    /\ pc = "idle" /\ changes < MaxChanges
    /\ n \in Generations \ {profile} /\ (ReuseNumbers \/ n # Latest)
    /\ gens' = [gens EXCEPT ![n] = None]
    /\ changes' = changes + 1
    /\ UNCHANGED <<profile, disks, pc, memory, booted, blessed, crashes, boots>>

Whole(part, b) == /\ files[part][KernelOf[b]] = "whole"
                  /\ files[part][InitrdOf[b]] = "whole"

\* systemd-boot counts an attempt before it boots the entry.
Tried(e) ==
    IF e.tries = None \/ e.tries.left = 0 THEN e
    ELSE [e EXCEPT !.tries = [left |-> @.left - 1, done |-> @.done + 1]]

BootMachine ==
    /\ pc = "idle" /\ boots < MaxBoots
    /\ boots' = boots + 1
    /\ \E e \in entries[Boot] :
          /\ Whole(Boot, e.build)
          /\ entries' = [entries EXCEPT ![Boot] = (@ \ {e}) \cup {Tried(e)}]
          /\ booted' = NameOf(Tried(e))
    /\ UNCHANGED <<gens, profile, files, unsynced, pc, memory, blessed, changes,
                   crashes>>

\* The boot succeeded: the entry is good from now on.
Bless ==
    /\ pc = "idle" \/ BlessAnytime
    /\ \E e \in entries[Boot] :
          /\ NameOf(e) = booted /\ e.tries # None
          /\ \A f \in entries[Boot] : NameOf(f) # <<e.gen, e.spec, None>>
          /\ entries' = [entries EXCEPT
                ![Boot] = (@ \ {e}) \cup {[e EXCEPT !.tries = None]}]
          /\ blessed' = blessed \cup {<<e.gen, e.spec>>}
          /\ booted' = <<e.gen, e.spec, None>>
    /\ UNCHANGED <<gens, profile, files, unsynced, pc, memory, used>>

Builder ==
    \/ ScanEntries \/ RemoveEntry \/ EntriesRemoved \/ RemoveFile
    \/ FilesRemoved \/ NextGeneration \/ CopyKernel \/ CopyInitrd
    \/ AppendSecrets \/ WriteEntry \/ CleanupEsp \/ Finish

Environment ==
    \/ \E s \in Systems : Install(s) \/ NewGeneration(s)
    \/ \E n \in Numbers : Rollback(n) \/ DeleteGeneration(n)
    \/ BootMachine \/ Bless

Next == Builder \/ Crash \/ Environment

Spec == Init /\ [][Next]_vars /\ WF_vars(Builder)
-----------------------------------------------------------------------------
(* Properties.                                                             *)

AtEnd == pc = "done"
Menu  == entries[Boot]

\* A run leaves in the menu the generations it was to leave there, each with
\* its specialisations, and no others (test garbage-collect-entry).
MenuIsTheListed ==
    AtEnd => {<<e.gen, e.spec>> : e \in Menu} =
             UNION {{n} \X (SpecsOf[gens[n]] \cup {None}) : n \in known}

\* Whatever was torn or lost before, every entry of the menu a run leaves can
\* be booted: its kernel and its initial ramdisk are there and whole.
EveryEntryBoots == AtEnd => \A e \in Menu : Whole(Boot, e.build)

\* What systemd-boot lists first, and boots.
First == {e \in Menu : \A f \in Menu : e.key <= f.key}

\* Two kinds of entries may sort before the keys of all listed systems, from
\* which the default's is made: specialisations, whose keys l.452-458 leaves
\* out, and entries read back with the key "nixos" (l.111).
OutOfOrder(e) ==
    /\ e.key < SortedFirst
    /\ e.key = NixosKey \/ (e.spec # None /\ e.key = SortKeyOf[e.build])

\* "The default config to boot" (l.512): the entries that a run leaves sorted
\* first boot the system it was called for, if that is in the menu at all, and
\* unless a key puts them out of order.
DefaultBoots ==
    AtEnd /\ (\E n \in known : gens[n] = target) =>
        \A e \in First : e.build[1] = target \/ OutOfOrder(e)

\* The same whatever the keys are.
DefaultBootsAlways ==
    AtEnd /\ (\E n \in known : gens[n] = target) =>
        \A e \in First : e.build[1] = target

\* An entry gets its name only when all it names has been copied (l.262-296).
EntriesComeLast ==
    [][pc = "write" => \A e \in Menu' \ Menu : Whole(Boot, e.build)']_vars

\* Two files never stand for the same entry: the menu would show both and a
\* later run would update only one of them (l.290-294).
OneFilePerEntry ==
    \A e, f \in Menu : e.gen = f.gen /\ e.spec = f.spec => e = f

\* "systemd will permanently mark it as good and remove the counter
\* altogether" (boot-counting.md, l.8): no later run counts its boots again.
BlessedStaysGood == \A e \in Menu : <<e.gen, e.spec>> \in blessed => e.tries = None

\* A run leaves no file on the boot partition that no entry needs; FAT
\* partitions are small (configurationLimit is there for it).
NothingWasted ==
    AtEnd => \A f \in Files : files[Boot][f] # "none" =>
                \E e \in Menu : f \in {KernelOf[e.build], InitrdOf[e.build]}

\* "generations keep their sort-keys" (systemd-boot.nix, l.148): an entry
\* that is not the default has the sort key it was built with.
SortKeysAreKept ==
    AtEnd => \A e \in Menu : e.key \in {DefaultKey, SortKeyOf[e.build]}

\* "Maximum number of latest generations in the boot menu" (systemd-boot.nix,
\* l.186): a run leaves no entry of any other generation.
MenuIsLimited == AtEnd => {e.gen : e \in Menu} \subseteq known
=============================================================================
