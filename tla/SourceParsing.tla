--------------------------- MODULE SourceParsing ---------------------------
(***************************************************************************)
(* Database.getDesignUnitsByPath for one path, called by several threads   *)
(* (the timers of debounced lints, the request threads) while the file is  *)
(* edited.                                                                 *)
(*                                                                         *)
(* A thread compares the file's mtime with the one stored, reads the file  *)
(* (its units first, its dependencies next) without a lock, and then, with *)
(* the lock held, stores the mtime the file has by now, removes the units  *)
(* stored for the path, adds the new ones and clears the lru_caches.  The  *)
(* units to remove are those _getDesignUnitsByPath returns, and that is    *)
(* cached too.  Looking up units takes no lock: it copies the set and      *)
(* stores the result in the cache afterwards.                              *)
(*                                                                         *)
(* A version of the file stands for its mtime and for its text; the text   *)
(* of version v defines one unit, v.                                       *)
(***************************************************************************)
EXTENDS Naturals, FiniteSets

CONSTANTS
  Threads,
  MaxVersion,   (* bound: versions of the file in one behaviour *)
  None,         (* nobody                                       *)
  NoEntry       (* no entry in the cache                        *)

ASSUME MaxVersionAssumption == MaxVersion \in Nat \ {0}
ASSUME NoneAssumption == None \notin Threads

Versions == 1 .. MaxVersion

VARIABLES
  version,       (* version of the file                                     *)
  stamp,         (* _parse_timestamp[path]                                  *)
  units,         (* the units of the path in _design_units                  *)
  dependencies,  (* version that _dependencies_map[path] is of              *)
  cached,        (* entry of the path in the cache of _getDesignUnitsByPath *)
  lock,          (* the thread that holds _lock, or None                    *)
  pc,            (* where each thread is                                    *)
  read,           (* local of a thread: [units, dependencies], versions read *)
  copy,          (* local of a thread: the units copied for a lookup        *)
  latest         (* history: the version whose units were added last        *)

parsing == <<version, stamp, units, dependencies, cached, lock, pc, read, copy, latest>>

Locked == {"remove", "add", "finish"}
Places == {"idle", "read units", "read dependencies", "lock", "look up", "insert"} \cup Locked

ParsingInit ==
  /\ version = 1 /\ stamp = 1
  /\ units = {1} /\ dependencies = 1 /\ latest = 1
  /\ cached = NoEntry
  /\ lock = None
  /\ pc = [t \in Threads |-> "idle"]
  /\ read = [t \in Threads |-> [units |-> 1, dependencies |-> 1]]
  /\ copy = [t \in Threads |-> {}]

Goes(t, from, to) ==
  /\ pc[t] = from
  /\ pc' = [pc EXCEPT ![t] = to]

(* The user saves the file. *)
Save ==
  /\ version < MaxVersion
  /\ version' = version + 1
  /\ UNCHANGED <<stamp, units, dependencies, cached, lock, pc, read, copy, latest>>

(* _parseSourceIfNeeded *)
CheckMtime(t) ==
  /\ Goes(t, "idle", IF version = stamp THEN "look up" ELSE "read units")
  /\ UNCHANGED <<version, stamp, units, dependencies, cached, lock, read, copy, latest>>

(* src_parser.getDesignUnits() *)
ReadUnits(t) ==
  /\ Goes(t, "read units", "read dependencies")
  /\ read' = [read EXCEPT ![t].units = version]
  /\ UNCHANGED <<version, stamp, units, dependencies, cached, lock, copy, latest>>

(* src_parser.getDependencies(), which reads the file again if it changed *)
ReadDependencies(t) ==
  /\ Goes(t, "read dependencies", "lock")
  /\ read' = [read EXCEPT ![t].dependencies = version]
  /\ UNCHANGED <<version, stamp, units, dependencies, cached, lock, copy, latest>>

(* Slip: nobody waits for the lock. *)
AcquireAtOnce(t) ==
  /\ Goes(t, "lock", "remove")
  /\ lock' = t
  /\ stamp' = version
  /\ UNCHANGED <<version, units, dependencies, cached, read, copy, latest>>

Acquire(t) ==
  /\ lock = None
  /\ Goes(t, "lock", "remove")
  /\ lock' = t
  /\ stamp' = version
  /\ UNCHANGED <<version, units, dependencies, cached, read, copy, latest>>

RemoveUnits(t) ==
  /\ Goes(t, "remove", "add")
  /\ cached' = IF cached = NoEntry THEN units ELSE cached
  /\ units' = units \ cached'
  /\ UNCHANGED <<version, stamp, dependencies, lock, read, copy, latest>>

AddUnits(t) ==
  /\ Goes(t, "add", "finish")
  /\ units' = units \cup {read[t].units}
  /\ latest' = read[t].units
  /\ UNCHANGED <<version, stamp, dependencies, cached, lock, read, copy>>

(* The dependencies are stored, the caches cleared, the lock released. *)
Finish(t) ==
  /\ Goes(t, "finish", "look up")
  /\ dependencies' = read[t].dependencies
  /\ cached' = NoEntry
  /\ lock' = None
  /\ UNCHANGED <<version, stamp, units, read, copy, latest>>

(* _getDesignUnitsByPath: an answer from the cache ... *)
LookUpCached(t) ==
  /\ cached # NoEntry
  /\ Goes(t, "look up", "idle")
  /\ UNCHANGED <<version, stamp, units, dependencies, cached, lock, read, copy, latest>>

(* ... or from a copy of the set ... *)
LookUp(t) ==
  /\ cached = NoEntry
  /\ Goes(t, "look up", "insert")
  /\ copy' = [copy EXCEPT ![t] = units]
  /\ UNCHANGED <<version, stamp, units, dependencies, cached, lock, read, latest>>

(* ... which lru_cache stores if nobody else has in the meantime. *)
Insert(t) ==
  /\ Goes(t, "insert", "idle")
  /\ cached' = IF cached = NoEntry THEN copy[t] ELSE cached
  /\ UNCHANGED <<version, stamp, units, dependencies, lock, read, copy, latest>>

ThreadStep(t) ==
  \/ CheckMtime(t) \/ ReadUnits(t) \/ ReadDependencies(t)
  \/ Acquire(t) \/ RemoveUnits(t) \/ AddUnits(t) \/ Finish(t)
  \/ LookUpCached(t) \/ LookUp(t) \/ Insert(t)

ParsingNext == Save \/ \E t \in Threads : ThreadStep(t)

ParsingSpec == ParsingInit /\ [][ParsingNext]_parsing

-----------------------------------------------------------------------------
(* Types, and who holds the lock. *)
ParsingTypeOK ==
  /\ version \in Versions /\ stamp \in Versions
  /\ units \subseteq Versions
  /\ dependencies \in Versions /\ latest \in Versions
  /\ cached \in {NoEntry} \cup SUBSET Versions
  /\ lock \in Threads \cup {None}
  /\ pc \in [Threads -> Places]
  /\ read \in [Threads -> [units : Versions, dependencies : Versions]]
  /\ copy \in [Threads -> SUBSET Versions]
  /\ \A t \in Threads : lock = t <=> pc[t] \in Locked

(* However many threads parse and look up the path, outside the lock the   *)
(* units last parsed are there: no thread removes what another has just    *)
(* added, whatever the cache says is to be removed (database.py:457-467).  *)
(* Units of older texts may stay beside them: a lookup stores a copy from  *)
(* before an update after that update has cleared the cache, and the next  *)
(* update removes only what that copy has.                                 *)
LatestUnitsAreKept == lock = None => latest \in units
=============================================================================
