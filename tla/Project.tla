------------------------------ MODULE Project ------------------------------
(***************************************************************************)
(* A database that is being configured while it is used: the core reads    *)
(* the project's configuration with everything it includes and adds the    *)
(* sources one at a time, and threads that took hold of the database       *)
(* before ask for libraries and for the sources that define a unit.        *)
(* Sources are edited and deleted, the configuration file is changed, and  *)
(* the server is restarted from its cache.                                 *)
(*                                                                         *)
(* Calls of the database are one step each (what happens between their     *)
(* steps is in SourceParsing and SourceCache), except that addSource       *)
(* records a source before it parses it.                                   *)
(***************************************************************************)
EXTENDS Libraries, ProjectFile

CONSTANTS
  Root,         (* folder of the project                                    *)
  RootFiles,    (* the project file, one version after the other            *)
  Asked,        (* files whose library is asked for                         *)
  Resolved,     (* files whose uses are resolved                            *)
  Editable,     (* sources that may be edited or deleted                    *)
  MaxEdits      (* bound: edits and deletions in one behaviour              *)

ASSUME ProjectAssumption ==
  /\ Root \in Folders /\ Asked \cup Resolved \cup Editable \subseteq Paths /\ MaxEdits \in Nat
  /\ RootFiles \in Seq(Range(RootFiles)) /\ RootFiles # <<>>
  /\ \A file \in Range(RootFiles) : IsFile(file)

VARIABLES
  disk,     (* version of each source: its mtime and its text               *)
  edits,    (* edits and deletions so far                                   *)
  root,     (* version of the project file                                  *)
  db,       (* the Database                                                 *)
  reading   (* configure, with the local variables of what it calls         *)

vars == <<disk, edits, root, db, reading>>

NotReading == [pc |-> "idle", config |-> 0, paths |-> {}, checked |-> {}, todo |-> <<>>,
               adding |-> FALSE]

(* Each version as it is read, and the entries that come of it. *)
Reads       == [version \in DOMAIN RootFiles |-> ReadFile(RootFiles[version])]
RootEntries == [version \in DOMAIN RootFiles |->
                  IF Reads[version] = Refused THEN <<>> ELSE Expand(Reads[version].config, Root)]
Listed      == [version \in DOMAIN RootFiles |->
                  IF Reads[version] = Refused THEN {} ELSE ListedBy(Reads[version].config, Root)]

Going == {"including", "root", "vunit"}

Init ==
  /\ disk = [p \in Paths |-> 1] /\ edits = 0
  /\ root = 1
  /\ db = EmptyDatabase
  /\ reading = NotReading

-----------------------------------------------------------------------------
(* _updateConfigIfNeeded finds a project file that it has not read.        *)
Start ==
  /\ reading.pc \notin Going
  /\ reading.config # root
  /\ reading' =
       IF Reads[root] = Refused THEN [NotReading EXCEPT !.pc = "failed"]
       ELSE [NotReading EXCEPT !.pc = "including", !.config = root,
               !.paths = SpelledAll(<<Root>>, Reads[root].config.include)]
  /\ UNCHANGED <<disk, edits, root, db>>

(* Slip: what a file includes takes the place of what is yet to be read. *)
IncludeInstead ==
  /\ reading.pc = "including" /\ reading.todo = <<>>
  /\ \E path \in reading.paths :
       LET checked == reading.checked \cup {path}
       IN  reading' = [reading EXCEPT !.checked = checked,
                         !.paths = NewlyIncluded(path, checked), !.todo = EntriesAt(path)]
  /\ UNCHANGED <<disk, edits, root, db>>

(* One round of the loop of getIncludedConfigs: a set is popped.           *)
Include ==
  /\ reading.pc = "including" /\ reading.todo = <<>>
  /\ \E path \in reading.paths :
       LET checked == reading.checked \cup {path}
       IN  reading' = [reading EXCEPT
                         !.checked = checked,
                         !.paths = (@ \ {path}) \cup NewlyIncluded(path, checked),
                         !.todo = EntriesAt(path)]
  /\ UNCHANGED <<disk, edits, root, db>>

(* The entries of the project file itself come last. *)
ExpandRoot ==
  /\ reading.pc = "including" /\ reading.todo = <<>> /\ reading.paths = {}
  /\ reading' = [reading EXCEPT !.pc = "root", !.todo = RootEntries[reading.config]]
  /\ UNCHANGED <<disk, edits, root, db>>

ExpandVunit ==
  /\ reading.pc = "root" /\ reading.todo = <<>>
  /\ reading' = [reading EXCEPT !.pc = "vunit",
                   !.todo = VunitEntries(BuilderFor(Reads[reading.config].builder))]
  /\ UNCHANGED <<disk, edits, root, db>>

Finish ==
  /\ reading.pc = "vunit" /\ reading.todo = <<>>
  /\ reading' = [NotReading EXCEPT !.pc = "read", !.config = reading.config]
  /\ UNCHANGED <<disk, edits, root, db>>

(* addSource up to the call of _parseSource; glob passes over a file that  *)
(* is not there.                                                           *)
Record ==
  /\ reading.pc \in Going /\ reading.todo # <<>> /\ ~ reading.adding
  /\ LET entry == Head(reading.todo)
     IN  IF disk[entry.path] = Gone
         THEN db' = db /\ reading' = [reading EXCEPT !.todo = Tail(@)]
         ELSE db' = Recorded(db, entry) /\ reading' = [reading EXCEPT !.adding = TRUE]
  /\ UNCHANGED <<disk, edits, root>>

(* _parseSource at the end of addSource; it raises when the file is gone,  *)
(* and so does everything up to the request that came across the           *)
(* configuration: what is left of it is read by the next one.              *)
Parse ==
  /\ reading.adding
  /\ LET path == Head(reading.todo).path
     IN  IF disk[path] # Gone
         THEN /\ db' = Parsed(db, disk, path)
              /\ reading' = [reading EXCEPT !.todo = Tail(@), !.adding = FALSE]
         ELSE /\ db' = db
              /\ reading' = [NotReading EXCEPT !.pc = "failed"]
  /\ UNCHANGED <<disk, edits, root>>

-----------------------------------------------------------------------------
AskLibrary(p) ==
  /\ \E outcome \in GetLibrary(db, disk, p) : db' = outcome.db
  /\ UNCHANGED <<disk, edits, root, reading>>

(* Resolving something that p uses, as getBuildSequence does: without a    *)
(* library of its own the one of p counts.                                 *)
Resolve(p) ==
  /\ \E use \in db.deps[p] :
       \E own \in IF use.library # None THEN {[db |-> db, ans |-> use.library]}
                  ELSE GetLibrary(db, disk, p) :
         \E found \in GetPathsDefining(own.db, disk, use.name, own.ans) : db' = found.db
  /\ UNCHANGED <<disk, edits, root, reading>>

Edit(p) ==
  /\ edits < MaxEdits /\ disk[p] # Gone
  /\ \E v \in ({disk[p] + 1} \cap DOMAIN Texts[p]) \cup {Gone} : disk' = [disk EXCEPT ![p] = v]
  /\ edits' = edits + 1
  /\ UNCHANGED <<root, db, reading>>

EditConfig ==
  /\ root < Len(RootFiles)
  /\ root' = root + 1
  /\ UNCHANGED <<disk, edits, db, reading>>

(* The cache is saved, which takes a timestamp of every source of the      *)
(* project, and the next server starts from it.                            *)
Restart ==
  /\ \A p \in db.paths : db.stamp[p] # Gone
  /\ db' = Recovered(db)
  /\ reading' = [NotReading EXCEPT !.config = IF reading.pc = "read" THEN reading.config ELSE 0]
  /\ UNCHANGED <<disk, edits, root>>

Configure == Start \/ Include \/ ExpandRoot \/ ExpandVunit \/ Finish \/ Record \/ Parse

Next ==
  \/ Configure
  \/ \E p \in Asked : AskLibrary(p)
  \/ \E p \in Resolved : Resolve(p)
  \/ \E p \in Editable : Edit(p)
  \/ EditConfig
  \/ Restart

Spec == Init /\ [][Next]_vars
FairSpec == Spec /\ WF_vars(Configure)

-----------------------------------------------------------------------------
Reading ==
  [pc : {"idle", "read", "failed"} \cup Going, config : {0} \cup DOMAIN RootFiles,
   paths : SUBSET Place, checked : SUBSET Place, todo : Seq(Entry), adding : BOOLEAN]

TypeOK ==
  /\ disk \in [Paths -> Nat] /\ \A p \in Paths : disk[p] \in {Gone} \cup DOMAIN Texts[p]
  /\ edits \in 0..MaxEdits /\ root \in DOMAIN RootFiles
  /\ db \in Database
  /\ \A p \in Paths : db.stamp[p] <= disk[p] \/ disk[p] = Gone
  /\ reading \in Reading
  /\ reading.pc \in Going => reading.config # 0
  /\ reading.adding => reading.pc \in Going /\ reading.todo # <<>>

BeingAdded(p) == reading.adding /\ Head(reading.todo).path = p

(* An answer getLibrary remembers is what the map of libraries says, but   *)
(* for a source that is just being listed again, or was when its file      *)
(* disappeared.                                                            *)
CachedLibrariesAgree ==
  \A p \in Paths :
    db.c_library[p] \in {Miss, db.library[p]} \/ BeingAdded(p) \/ disk[p] = Gone

(* getLibrary answers None only when no source that was parsed names a     *)
(* library with a unit of p: a use that appears or is read later makes it  *)
(* be worked out again.                                                    *)
NoneOnlyWithoutUse ==
  \A p \in Paths : db.c_library[p] = None =>
    ~ \E q \in Paths : \E use \in db.deps[q] :
        use.written \in Libs /\ use.name \in db.units[p]

(* While several files that are not temporary are remembered as defining a *)
(* unit of a library, every source that names the two has been told.       *)
DuplicatesAreReported ==
  \A l \in Libs, n \in Names :
    (db.c_defining[<<l, n>>] # Miss /\ Cardinality(db.c_defining[<<l, n>>] \ Temporary) > 1) =>
       \A q \in Paths : \A use \in db.deps[q] :
          (use.written = l /\ use.name = n) =>
             [kind |-> "DependencyNotUnique", about |-> n] \in db.diags[q]

HasRead == reading.config # 0 /\ reading.pc \notin Going

VunitPaths == {Vunit[i].path : i \in DOMAIN Vunit} \cup Range(Headers)

(* Once a configuration has been read the libraries and flags its own      *)
(* entries give are in force, whatever is included, in whatever order and  *)
(* format it was read, and whatever was inferred or recovered in the       *)
(* meantime; VUnit's own sources, which come later still, aside.           *)
RootPrevails ==
  HasRead => LET entries == RootEntries[reading.config] IN
    \A i \in DOMAIN entries :
      LET entry == entries[i]
          later == {j \in DOMAIN entries : j > i /\ entries[j].path = entry.path}
      IN  disk[entry.path] # Gone =>
            /\ entry.path \in db.paths
            /\ (later = {} /\ entry.path \notin VunitPaths) => db.flags[entry.path] = entry.flags
            /\ (entry.library # None /\ entry.path \notin VunitPaths
                 /\ \A j \in later : entries[j].library = None) =>
                 db.library[entry.path] = entry.library

(* ... and every source that can be reached through includes is in the     *)
(* project, unless its file is gone.                                       *)
NothingListedIsMissing ==
  HasRead => \A p \in Listed[reading.config] :
    disk[p] # Gone => p \in db.paths

(* The cache can be saved, for every source of the project has a           *)
(* timestamp, except between the two steps of addSource and after the      *)
(* second one has failed.                                                  *)
OnlyTheSourceBeingAddedIsUnparsed ==
  \A p \in db.paths : db.stamp[p] = Gone => BeingAdded(p) \/ disk[p] = Gone

(* The library a source has is changed by listing the source, and is lost  *)
(* when its file is found to be gone; nothing that is worked out from uses *)
(* replaces it.                                                            *)
LibraryChangesOnlyByListing ==
  [][\A p \in Paths : (db.library[p] # None /\ db'.library[p] # db.library[p]) =>
       \/ p \notin db'.paths
       \/ BeingAdded(p)' /\ ~ BeingAdded(p)]_vars

(* Included files that include each other do not keep the reader busy for  *)
(* ever.                                                                   *)
EveryReadingEnds == reading.pc \in Going ~> reading.pc \notin Going
=============================================================================
