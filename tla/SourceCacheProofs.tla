------------------------- MODULE SourceCacheProofs -------------------------
(***************************************************************************)
(* Proofs about SourceCache, for any project, any edits and any number of  *)
(* calls: the answers that are remembered are right for what is parsed,    *)
(* and a lookup fails only if a source has been deleted.  And about        *)
(* SourceParsing, for any number of threads: no unit of the latest text    *)
(* that was parsed is lost.                                                *)
(***************************************************************************)
EXTENDS SourceCache, SourceParsing, TLAPS

(* A version of each source, as in disk and parsed. *)
Snapshot(v) == v \in [Paths -> Nat] /\ \A p \in Paths : v[p] \in {Gone} \cup DOMAIN Texts[p]

LEMMA TextTypes ==
  ASSUME NEW v, Snapshot(v), NEW p \in Paths
  PROVE  /\ Defines(v, p) \subseteq Names /\ Requires(v, p) \subseteq Names
         /\ v[p] = Gone => Defines(v, p) = {} /\ Requires(v, p) = {}
<1>1. CASE v[p] = Gone
  BY <1>1 DEF Defines, Requires
<1>2. CASE v[p] # Gone
  <2>1. Texts[p] \in Seq(Text) /\ v[p] \in DOMAIN Texts[p]
    BY <1>2, TextsAssumption DEF Snapshot
  <2>2. Texts[p][v[p]] \in Text
    BY <2>1
  <2>3. QED
    BY <1>2, <2>2 DEF Defines, Requires, Text
<1>3. QED
  BY <1>1, <1>2

(* What a target needs is the least set of names that its own requirements *)
(* and those of the sources of its names stay within.                      *)
LEMMA NeededIsClosed ==
  ASSUME NEW v, Snapshot(v), NEW t \in Paths
  PROVE  /\ Needed(v, t) \subseteq Names
         /\ Requires(v, t) \subseteq Needed(v, t)
         /\ \A p \in Paths : Defines(v, p) \cap Needed(v, t) # {} => Requires(v, p) \subseteq Needed(v, t)
<1>1. \A p \in Paths : Defines(v, p) \subseteq Names /\ Requires(v, p) \subseteq Names
  BY TextTypes
<1>2. QED
  BY <1>1 DEF Needed, Least

LEMMA NeededIsLeast ==
  ASSUME NEW v, NEW t \in Paths, NEW S \in SUBSET Names, Requires(v, t) \subseteq S,
         \A p \in Paths : Defines(v, p) \cap S # {} => Requires(v, p) \subseteq S
  PROVE  Needed(v, t) \subseteq S
BY DEF Needed, Least

(* S has every name of the sources to build that it has the needs of. *)
BuildClosed(v, t, S) ==
  \A p \in ToBuild(v, t) : Requires(v, p) \subseteq S \cup Defines(v, p) => Defines(v, p) \subseteq S

LEMMA BuildableIsLeast ==
  ASSUME NEW v, NEW t \in Paths
  PROVE  /\ \A S \in SUBSET Names : BuildClosed(v, t, S) => Buildable(v, t) \subseteq S
         /\ \A n \in Names : (\A S \in SUBSET Names : BuildClosed(v, t, S) => n \in S) => n \in Buildable(v, t)
BY DEF Buildable, Least, BuildClosed

-----------------------------------------------------------------------------
(* What a call that nothing disturbed knows of the snapshot v.             *)

Fresh(c) == c.built = {} /\ c.compiled = {} /\ c.yielded = <<>>

(* The units found are needed; what they need is found or to be looked at. *)
SearchOK(v, c) ==
  /\ c.own = Defines(v, c.target)
  /\ c.units \subseteq Needed(v, c.target)
  /\ c.todo \subseteq c.units
  /\ \A p \in c.search : p = c.target \/ Defines(v, p) \cap c.units # {}
  /\ Requires(v, c.target) \subseteq c.units \/ c.target \in c.search
  /\ \A n \in c.units \ c.todo : \A p \in Paths :
       n \in Defines(v, p) => Requires(v, p) \subseteq c.units \/ p \in c.search
  /\ c.paths = {} /\ Fresh(c)

PlanOK(v, c) ==
  /\ c.own = Defines(v, c.target)
  /\ c.units = Needed(v, c.target)
  /\ c.todo \subseteq c.units \ c.own
  /\ c.paths = {p \in Paths : Defines(v, p) \cap ((c.units \ c.own) \ c.todo) # {}}
  /\ Fresh(c)

Before(v, seq, k) == UNION {Defines(v, seq[j]) : j \in 1 .. k - 1}

(* What was yielded is in order; nothing that could have been was left out *)
(* of a pass in which nothing else was built.                              *)
PassOK(v, c) ==
  /\ c.visit \subseteq c.paths /\ c.built \subseteq c.paths /\ c.paths \subseteq ToBuild(v, c.target)
  /\ \A k \in DOMAIN c.yielded :
       /\ c.yielded[k] \in ToBuild(v, c.target)
       /\ Requires(v, c.yielded[k]) \subseteq Before(v, c.yielded, k) \cup Defines(v, c.yielded[k])
  /\ c.compiled = Before(v, c.yielded, Len(c.yielded) + 1)
  /\ c.compiled \subseteq Buildable(v, c.target)
  /\ \A p \in (ToBuild(v, c.target) \ c.paths) \cup c.built : Defines(v, p) \subseteq c.compiled
  /\ c.built = {} => \A p \in c.paths \ c.visit :
                       ~ (Requires(v, p) \subseteq c.compiled \cup Defines(v, p))

CallOK(v, c) ==
  /\ c.pc = "search" => SearchOK(v, c)
  /\ c.pc = "plan" => PlanOK(v, c)
  /\ c.pc = "pass" => PassOK(v, c)

(* One level of the search. *)
LEMMA SearchLevel ==
  ASSUME NEW v, Snapshot(v), NEW c \in Calls, c.target \in Paths, SearchOK(v, c), c.todo = {},
         NEW new, new = (UNION {Requires(v, p) : p \in c.search}) \ c.units,
         NEW taint \in BOOLEAN
  PROVE  SearchOK(v, [c EXCEPT !.units = @ \cup new, !.todo = new, !.search = {}, !.taint = taint])
<1> DEFINE d == [c EXCEPT !.units = @ \cup new, !.todo = new, !.search = {}, !.taint = taint]
<1>1. /\ d.units = c.units \cup new /\ d.todo = new /\ d.search = {} /\ d.own = c.own
      /\ d.target = c.target /\ d.paths = c.paths /\ d.built = c.built /\ d.compiled = c.compiled
      /\ d.yielded = c.yielded
  BY DEF Calls
<1> HIDE DEF d
<1>2. c.search \subseteq Paths
  BY DEF Calls
<1>3. \A p \in c.search : Requires(v, p) \subseteq d.units
  <2> SUFFICES ASSUME NEW p \in c.search, NEW n \in Requires(v, p) PROVE n \in c.units \cup new
    BY <1>1
  <2>1. n \in UNION {Requires(v, q) : q \in c.search}
    OBVIOUS
  <2>2. QED
    BY <2>1
<1>4. new \subseteq Needed(v, c.target)
  <2>1. \A p \in c.search : Requires(v, p) \subseteq Needed(v, c.target)
    BY <1>2, NeededIsClosed DEF SearchOK
  <2>2. QED
    BY <2>1
<1>5. \A n \in d.units \ d.todo : \A p \in Paths : n \in Defines(v, p) => Requires(v, p) \subseteq d.units
  BY <1>1, <1>3 DEF SearchOK
<1>6. Requires(v, c.target) \subseteq d.units
  BY <1>1, <1>3 DEF SearchOK
<1>7. SearchOK(v, d)
  BY <1>1, <1>4, <1>5, <1>6 DEF SearchOK, Fresh
<1>8. QED
  BY <1>7 DEF d

(* A name found, during the search or afterwards. *)
LEMMA FoundWhileSearching ==
  ASSUME NEW v, NEW c \in Calls, SearchOK(v, c), c.pc = "search",
         NEW n \in c.todo, NEW taint \in BOOLEAN,
         NEW d, d = [c EXCEPT !.todo = @ \ {n}, !.taint = taint,
                              !.search = @ \cup {p \in Paths : n \in Defines(v, p)}]
  PROVE  SearchOK(v, d)
<1>1. /\ d.units = c.units /\ d.todo = c.todo \ {n} /\ d.own = c.own
      /\ d.search = c.search \cup {p \in Paths : n \in Defines(v, p)}
      /\ d.target = c.target /\ d.paths = c.paths /\ d.built = c.built /\ d.compiled = c.compiled
      /\ d.yielded = c.yielded
  BY DEF Calls
<1>2. n \in c.units
  BY DEF SearchOK
<1>3. \A p \in d.search : p = d.target \/ Defines(v, p) \cap d.units # {}
  BY <1>1, <1>2 DEF SearchOK
<1>4. \A m \in d.units \ d.todo : \A p \in Paths :
        m \in Defines(v, p) => Requires(v, p) \subseteq d.units \/ p \in d.search
  BY <1>1 DEF SearchOK
<1>5. QED
  BY <1>1, <1>3, <1>4 DEF SearchOK, Fresh

LEMMA FoundWhilePlanning ==
  ASSUME NEW v, NEW c \in Calls, PlanOK(v, c), c.pc = "plan",
         NEW n \in c.todo, NEW taint \in BOOLEAN,
         NEW d, d = [c EXCEPT !.todo = @ \ {n}, !.taint = taint,
                              !.paths = @ \cup {p \in Paths : n \in Defines(v, p)}]
  PROVE  PlanOK(v, d)
<1>1. /\ d.units = c.units /\ d.todo = c.todo \ {n} /\ d.own = c.own
      /\ d.paths = c.paths \cup {p \in Paths : n \in Defines(v, p)}
      /\ d.target = c.target /\ d.built = c.built /\ d.compiled = c.compiled
      /\ d.yielded = c.yielded
  BY DEF Calls
<1>2. n \in c.units \ c.own
  BY DEF PlanOK
<1>3. d.paths = {p \in Paths : Defines(v, p) \cap ((d.units \ d.own) \ d.todo) # {}}
  BY <1>1, <1>2 DEF PlanOK
<1>4. QED
  BY <1>1, <1>3 DEF PlanOK, Fresh

(* When the search is over the units are those that are needed. *)
LEMMA SearchOver ==
  ASSUME NEW v, Snapshot(v), NEW c \in Calls, c.target \in Paths, SearchOK(v, c),
         c.search = {}, c.todo = {}
  PROVE  PlanOK(v, [c EXCEPT !.pc = "plan", !.todo = c.units \ c.own])
<1> DEFINE d == [c EXCEPT !.pc = "plan", !.todo = c.units \ c.own]
<1>1. /\ d.units = c.units /\ d.todo = c.units \ c.own /\ d.own = c.own
      /\ d.target = c.target /\ d.paths = c.paths /\ d.built = c.built /\ d.compiled = c.compiled
      /\ d.yielded = c.yielded
  BY DEF Calls
<1> HIDE DEF d
<1>2. c.units \in SUBSET Names
  BY DEF Calls
<1>3. Requires(v, c.target) \subseteq c.units
      /\ \A p \in Paths : Defines(v, p) \cap c.units # {} => Requires(v, p) \subseteq c.units
  BY DEF SearchOK
<1>4. Needed(v, c.target) \subseteq c.units
  BY <1>2, <1>3, NeededIsLeast
<1>5. PlanOK(v, d)
  <2>1. {p \in Paths : Defines(v, p) \cap ((d.units \ d.own) \ d.todo) # {}} = {}
    BY <1>1
  <2>2. d.units = Needed(v, d.target) /\ d.paths = {}
    <3>1. c.units \subseteq Needed(v, c.target) /\ c.paths = {}
      BY DEF SearchOK
    <3>2. QED
      BY <1>1, <1>4, <3>1
  <2>3. QED
    BY <1>1, <2>1, <2>2 DEF SearchOK, PlanOK, Fresh
<1>6. QED
  BY <1>5 DEF d

LEMMA PassesStart ==
  ASSUME NEW v, NEW c \in Calls, PlanOK(v, c), c.todo = {}
  PROVE  PassOK(v, [c EXCEPT !.pc = "pass", !.visit = c.paths])
<1> DEFINE d == [c EXCEPT !.pc = "pass", !.visit = c.paths]
<1>1. /\ d.visit = c.paths /\ d.target = c.target /\ d.paths = c.paths
      /\ d.built = {} /\ d.compiled = {} /\ d.yielded = <<>>
  BY DEF Calls, PlanOK, Fresh
<1> HIDE DEF d
<1>2. c.paths = ToBuild(v, c.target)
  BY DEF PlanOK, ToBuild
<1>3. Before(v, <<>>, Len(<<>>) + 1) = {}
  BY DEF Before
<1>4. PassOK(v, d)
  BY <1>1, <1>2, <1>3 DEF PassOK
<1>5. QED
  BY <1>4 DEF d

LEMMA PassOver ==
  ASSUME NEW v, NEW c \in Calls, PassOK(v, c), c.visit = {}
  PROVE  PassOK(v, [c EXCEPT !.paths = @ \ c.built, !.visit = c.paths \ c.built, !.built = {}])
<1> DEFINE d == [c EXCEPT !.paths = @ \ c.built, !.visit = c.paths \ c.built, !.built = {}]
<1>1. /\ d.visit = c.paths \ c.built /\ d.target = c.target /\ d.paths = c.paths \ c.built
      /\ d.built = {} /\ d.compiled = c.compiled /\ d.yielded = c.yielded
  BY DEF Calls
<1> HIDE DEF d
<1>2. PassOK(v, d)
  BY <1>1 DEF PassOK
<1>3. QED
  BY <1>2 DEF d

LEMMA BeforeGrows ==
  ASSUME NEW v, NEW seq \in Seq(Paths), NEW p \in Paths
  PROVE  /\ \A k \in DOMAIN seq : Before(v, Append(seq, p), k) = Before(v, seq, k)
         /\ Before(v, Append(seq, p), Len(seq) + 1) = Before(v, seq, Len(seq) + 1)
         /\ Before(v, Append(seq, p), Len(Append(seq, p)) + 1) =
              Before(v, seq, Len(seq) + 1) \cup Defines(v, p)
<1> DEFINE new == Append(seq, p)
<1>1. /\ Len(seq) \in Nat /\ DOMAIN seq = 1 .. Len(seq) /\ Len(new) = Len(seq) + 1
      /\ \A j \in 1 .. Len(seq) : new[j] = seq[j]
      /\ new[Len(seq) + 1] = p
  OBVIOUS
<1> HIDE DEF new
<1>2. ASSUME NEW k \in 1 .. Len(seq) + 1
      PROVE  Before(v, new, k) = Before(v, seq, k)
  <2>1. \A j \in 1 .. k - 1 : j \in 1 .. Len(seq)
    BY <1>1
  <2>2. {Defines(v, new[j]) : j \in 1 .. k - 1} = {Defines(v, seq[j]) : j \in 1 .. k - 1}
    BY <1>1, <2>1
  <2>3. QED
    BY <2>2 DEF Before
<1>3. Before(v, new, Len(new) + 1) = Before(v, new, Len(seq) + 1) \cup Defines(v, p)
  <2>1. 1 .. (Len(new) + 1) - 1 = (1 .. (Len(seq) + 1) - 1) \cup {Len(seq) + 1}
    BY <1>1
  <2>2. {Defines(v, new[j]) : j \in 1 .. (Len(new) + 1) - 1}
          = {Defines(v, new[j]) : j \in 1 .. (Len(seq) + 1) - 1} \cup {Defines(v, p)}
    BY <1>1, <2>1
  <2>3. QED
    BY <2>2 DEF Before
<1>4. Len(seq) + 1 \in 1 .. Len(seq) + 1 /\ \A k \in DOMAIN seq : k \in 1 .. Len(seq) + 1
  BY <1>1
<1>5. QED
  BY <1>2, <1>3, <1>4 DEF new

(* A path whose units need nothing that is not built. *)
LEMMA Yields ==
  ASSUME NEW v, Snapshot(v), NEW c \in Calls, c.target \in Paths, PassOK(v, c), NEW p \in c.visit,
         Requires(v, p) \subseteq c.compiled \cup Defines(v, p),
         NEW taint \in BOOLEAN,
         NEW d, d = [c EXCEPT !.visit = @ \ {p}, !.taint = taint, !.built = @ \cup {p},
                              !.compiled = @ \cup Defines(v, p), !.yielded = Append(@, p)]
  PROVE  PassOK(v, d)
<1>1. /\ d.visit = c.visit \ {p} /\ d.built = c.built \cup {p} /\ d.paths = c.paths
      /\ d.compiled = c.compiled \cup Defines(v, p) /\ d.yielded = Append(c.yielded, p)
      /\ d.target = c.target
  BY DEF Calls
<1>2. /\ c.yielded \in Seq(Paths) /\ p \in Paths /\ p \in ToBuild(v, c.target) /\ p \in c.paths
      /\ Defines(v, p) \subseteq Names /\ c.compiled \subseteq Names
  BY TextTypes DEF Calls, PassOK
<1>3. /\ \A k \in DOMAIN c.yielded : Before(v, d.yielded, k) = Before(v, c.yielded, k)
      /\ Before(v, d.yielded, Len(c.yielded) + 1) = c.compiled
      /\ Before(v, d.yielded, Len(d.yielded) + 1) = d.compiled
  BY <1>1, <1>2, BeforeGrows DEF PassOK
<1>4. ASSUME NEW k \in DOMAIN d.yielded
      PROVE  /\ d.yielded[k] \in ToBuild(v, c.target)
             /\ Requires(v, d.yielded[k]) \subseteq Before(v, d.yielded, k) \cup Defines(v, d.yielded[k])
  <2>1. CASE k \in DOMAIN c.yielded
    <3>1. d.yielded[k] = c.yielded[k]
      BY <1>1, <1>2, <2>1
    <3>2. QED
      BY <1>3, <2>1, <3>1 DEF PassOK
  <2>2. CASE k \notin DOMAIN c.yielded
    <3>1. k = Len(c.yielded) + 1 /\ d.yielded[k] = p
      BY <1>1, <1>2, <2>2
    <3>2. QED
      BY <1>2, <1>3, <3>1
  <2>3. QED
    BY <2>1, <2>2
<1>5. d.compiled \subseteq Buildable(v, c.target)
  <2>1. ASSUME NEW S \in SUBSET Names, BuildClosed(v, c.target, S), c.compiled \subseteq S
        PROVE  Defines(v, p) \subseteq S
    BY <1>2, <2>1 DEF BuildClosed
  <2>2. \A S \in SUBSET Names : BuildClosed(v, c.target, S) => c.compiled \subseteq S
    BY BuildableIsLeast DEF PassOK
  <2>3. Defines(v, p) \subseteq Buildable(v, c.target)
    BY <1>2, <2>1, <2>2, BuildableIsLeast
  <2>4. QED
    BY <1>1, <2>3 DEF PassOK
<1>6. \A q \in (ToBuild(v, c.target) \ d.paths) \cup d.built : Defines(v, q) \subseteq d.compiled
  BY <1>1 DEF PassOK
<1>7. d.visit \subseteq d.paths /\ d.built \subseteq d.paths /\ d.paths \subseteq ToBuild(v, c.target) /\ d.built # {}
  BY <1>1, <1>2 DEF PassOK
<1>8. QED
  BY <1>1, <1>3, <1>4, <1>5, <1>6, <1>7 DEF PassOK

(* A path whose units are built, or that waits for others. *)
LEMMA Skips ==
  ASSUME NEW v, NEW c \in Calls, PassOK(v, c), NEW p \in c.visit, NEW taint \in BOOLEAN, NEW d,
         \/ /\ Defines(v, p) \subseteq c.compiled
            /\ d = [c EXCEPT !.visit = @ \ {p}, !.taint = taint, !.built = @ \cup {p}]
         \/ /\ ~ (Requires(v, p) \subseteq c.compiled \cup Defines(v, p))
            /\ d = [c EXCEPT !.visit = @ \ {p}, !.taint = taint]
  PROVE  PassOK(v, d)
<1>1. /\ d.visit = c.visit \ {p} /\ d.paths = c.paths
      /\ d.compiled = c.compiled /\ d.yielded = c.yielded
      /\ d.target = c.target
      /\ \/ Defines(v, p) \subseteq c.compiled /\ d.built = c.built \cup {p}
         \/ ~ (Requires(v, p) \subseteq c.compiled \cup Defines(v, p)) /\ d.built = c.built
  BY DEF Calls
<1>2. p \in c.paths
  BY DEF PassOK
<1>3. \A q \in (ToBuild(v, c.target) \ d.paths) \cup d.built : Defines(v, q) \subseteq d.compiled
  BY <1>1 DEF PassOK
<1>4. d.built = {} => \A q \in d.paths \ d.visit :
                        ~ (Requires(v, q) \subseteq d.compiled \cup Defines(v, q))
  BY <1>1 DEF PassOK
<1>5. d.visit \subseteq d.paths /\ d.built \subseteq d.paths
  BY <1>1, <1>2 DEF PassOK
<1>6. QED
  BY <1>1, <1>3, <1>4, <1>5 DEF PassOK

(* After a pass in which nothing was built nothing more can be. *)
LEMMA PassesEnd ==
  ASSUME NEW v, Snapshot(v), NEW c \in Calls, c.target \in Paths, PassOK(v, c),
         c.visit = {}, c.built = {}
  PROVE  RightOrder(v, c.target, c.yielded)
<1>1. BuildClosed(v, c.target, c.compiled)
  <2> SUFFICES ASSUME NEW p \in ToBuild(v, c.target),
                      Requires(v, p) \subseteq c.compiled \cup Defines(v, p)
               PROVE  Defines(v, p) \subseteq c.compiled
    BY DEF BuildClosed
  <2>1. p \notin c.paths
    BY DEF PassOK
  <2>2. QED
    BY <2>1 DEF PassOK
<1>2. c.compiled \in SUBSET Names
  BY DEF Calls
<1>3. c.compiled = Buildable(v, c.target)
  BY <1>1, <1>2, BuildableIsLeast DEF PassOK
<1>4. QED
  BY <1>3 DEF PassOK, RightOrder, Before

-----------------------------------------------------------------------------
(* What is gone stays so: nothing is parsed of a source only if there is   *)
(* no such file.                                                           *)
GoneOK == \A p \in Paths : parsed[p] = Gone => disk[p] = Gone

DefiningOK ==
  \A n \in Names \ tainted :
    c_defining[n] = Miss \/ c_defining[n] = {p \in Paths : n \in Defines(parsed, p)}

SequencesOK ==
  \A t \in Targets \ tainted : c_sequence[t] = Miss \/ RightOrder(parsed, t, c_sequence[t])

Typed == TypeOK /\ GoneOK

CacheInv ==
  /\ Typed /\ KeyErrorOnlyAfterDeletion /\ DefiningOK /\ SequencesOK
  /\ ~ call.taint => CallOK(parsed, call)

LEMMA Snapshots == Typed => Snapshot(parsed) /\ Snapshot(disk) /\ Targets \subseteq Paths
BY TargetsAssumption DEF Typed, TypeOK, Snapshot

(* Looking at the sources P. *)
LEMMA Parsing ==
  ASSUME Typed, NEW P \in SUBSET Paths, UNCHANGED disk, parsed' = ParsedAfter(P),
         in_project' = in_project \ GoneFrom(P),
         has_library \ GoneFrom(P) \subseteq has_library', has_library' \subseteq Paths
  PROVE  /\ parsed' \in [Paths -> Nat]
         /\ \A p \in Paths : {disk'[p], parsed'[p]} \subseteq {Gone} \cup DOMAIN Texts[p]
         /\ in_project' = {p \in Paths : parsed'[p] # Gone}
         /\ in_project' \subseteq has_library'
         /\ GoneOK'
         /\ \A p \in P : parsed'[p] = disk[p]
         /\ ~ Clears(P) => parsed' = parsed /\ in_project' = in_project
<1>1. /\ disk \in [Paths -> Nat] /\ parsed \in [Paths -> Nat]
      /\ \A p \in Paths : {disk[p], parsed[p]} \subseteq {Gone} \cup DOMAIN Texts[p]
      /\ in_project = {p \in Paths : parsed[p] # Gone} /\ in_project \subseteq has_library
      /\ \A p \in Paths : parsed[p] = Gone => disk[p] = Gone
  BY DEF Typed, TypeOK, GoneOK
<1>2. \A p \in Paths : parsed'[p] = IF p \in P THEN disk[p] ELSE parsed[p]
  BY DEF ParsedAfter
<1>3. parsed' \in [Paths -> Nat]
  BY <1>1 DEF ParsedAfter
<1>4. in_project' = {p \in Paths : parsed'[p] # Gone}
  BY <1>1, <1>2 DEF GoneFrom
<1>5. in_project' \subseteq has_library'
  BY <1>1
<1>6. GoneOK'
  BY <1>1, <1>2 DEF GoneOK
<1>7. ASSUME ~ Clears(P) PROVE parsed' = parsed /\ in_project' = in_project
  <2>1. \A p \in P : parsed[p] = disk[p]
    BY <1>7 DEF Clears, Affected
  <2>2. \A p \in Paths : parsed'[p] = parsed[p]
    BY <1>2, <2>1
  <2>3. parsed' = parsed
    BY <1>1, <1>3, <2>2
  <2>4. QED
    BY <1>1, <1>4, <2>3
<1>8. QED
  BY <1>1, <1>2, <1>3, <1>4, <1>5, <1>6, <1>7

(* The caches kept. *)
LEMMA Keeping ==
  ASSUME CacheInv, NEW P \in SUBSET Paths
  PROVE  /\ DefiningAfter(P) \in [Names -> {Miss} \cup SUBSET Paths]
         /\ SequencesAfter(P) \in [Targets -> {Miss} \cup Seq(Paths)]
         /\ TaintedAfter(P) \subseteq Names \cup Targets
         /\ ~ Clears(P) => DefiningAfter(P) = c_defining
                           /\ SequencesAfter(P) = c_sequence /\ TaintedAfter(P) = tainted
         /\ Clears(P) => DefiningAfter(P) = NoPaths /\ SequencesAfter(P) = NoSequences
BY DEF CacheInv, Typed, TypeOK, DefiningAfter, SequencesAfter, TaintedAfter, NoPaths, NoSequences

(* What holds of the caches after a look at P holds of what they become.   *)
LEMMA CachesAfter ==
  ASSUME CacheInv, NEW P \in SUBSET Paths, ~ Clears(P) => parsed' = parsed,
         SequencesAfter(P) = c_sequence', TaintedAfter(P) \subseteq tainted',
         \A n \in Names \ tainted' : c_defining'[n] = DefiningAfter(P)[n]
                                     \/ c_defining'[n] = {p \in Paths : n \in Defines(parsed', p)}
  PROVE  DefiningOK' /\ SequencesOK'
<1>1. CASE Clears(P)
  <2>1. DefiningAfter(P) = NoPaths /\ c_sequence' = NoSequences
    BY <1>1, Keeping
  <2>2. QED
    BY <2>1 DEF DefiningOK, SequencesOK, NoPaths, NoSequences
<1>2. CASE ~ Clears(P)
  <2>1. DefiningAfter(P) = c_defining /\ c_sequence' = c_sequence /\ tainted \subseteq tainted' /\ parsed' = parsed
    BY <1>2, Keeping
  <2>2. QED
    BY <2>1 DEF CacheInv, DefiningOK, SequencesOK
<1>3. QED
  BY <1>1, <1>2

LEMMA LookAtStep ==
  ASSUME CacheInv, NEW p \in Paths, NEW asks \in BOOLEAN, LookAt(p, asks), UNCHANGED files,
         call' \in Calls, call'.pc \notin Ended => call'.target \in Targets
  PROVE  /\ Typed' /\ DefiningOK' /\ SequencesOK' /\ parsed'[p] = disk[p]
         /\ Affected({p}) = {} => parsed' = parsed
<1>1. /\ UNCHANGED <<disk, edits>> /\ parsed' = ParsedAfter({p}) /\ in_project' = in_project \ GoneFrom({p})
      /\ has_library' = has_library \ GoneFrom({p})
      /\ c_library' = (IF Clears({p}) THEN {} ELSE c_library) \cup (IF asks THEN {p} ELSE {})
      /\ c_defining' = DefiningAfter({p}) /\ c_sequence' = SequencesAfter({p})
      /\ tainted' = TaintedAfter({p})
  BY DEF LookAt, files
<1>2. {p} \in SUBSET Paths /\ Typed /\ TypeOK
  BY DEF CacheInv, Typed
<1>3. /\ parsed' \in [Paths -> Nat]
      /\ \A q \in Paths : {disk'[q], parsed'[q]} \subseteq {Gone} \cup DOMAIN Texts[q]
      /\ in_project' = {q \in Paths : parsed'[q] # Gone}
      /\ in_project' \subseteq has_library'
      /\ GoneOK'
      /\ \A q \in {p} : parsed'[q] = disk[q]
      /\ ~ Clears({p}) => parsed' = parsed /\ in_project' = in_project
  <2>1. has_library' \subseteq Paths
    BY <1>1, <1>2 DEF TypeOK
  <2>2. QED
    BY <1>1, <1>2, <2>1, Parsing
<1>4. TypeOK'
  <2>1. c_library' \subseteq Paths /\ has_library' \subseteq Paths
    BY <1>1, <1>2 DEF TypeOK
  <2>2. /\ c_defining' \in [Names -> {Miss} \cup SUBSET Paths]
        /\ c_sequence' \in [Targets -> {Miss} \cup Seq(Paths)]
        /\ tainted' \subseteq Names \cup Targets
    BY <1>1, <1>2, Keeping
  <2>3. disk' \in [Paths -> Nat] /\ edits' \in 0 .. MaxEdits
    BY <1>1, <1>2 DEF TypeOK
  <2>4. QED
    BY <1>3, <2>1, <2>2, <2>3 DEF TypeOK
<1>5. DefiningOK' /\ SequencesOK'
  BY <1>1, <1>2, <1>3, CachesAfter
<1>6. QED
  BY <1>3, <1>4, <1>5 DEF Typed, Clears

LEMMA AskStep ==
  ASSUME CacheInv, NEW P \in SUBSET Paths, NEW looked, AskLibraries(P, looked), UNCHANGED files,
         call' \in Calls, call'.pc \notin Ended => call'.target \in Targets,
         c_defining' \in [Names -> {Miss} \cup SUBSET Paths],
         tainted' \subseteq Names \cup Targets, TaintedAfter(looked) \subseteq tainted',
         \A n \in Names \ tainted' : c_defining'[n] = DefiningAfter(looked)[n]
                                     \/ c_defining'[n] = {p \in Paths : n \in Defines(parsed', p)}
  PROVE  Typed' /\ DefiningOK' /\ SequencesOK'
<1>1. /\ UNCHANGED <<disk, edits>> /\ parsed' = ParsedAfter(looked) /\ in_project' = in_project \ GoneFrom(looked)
      /\ has_library' = has_library \cup GoneFrom(looked) /\ looked \in SUBSET P /\ looked \in SUBSET Paths
      /\ c_sequence' = SequencesAfter(looked)
      /\ c_library' = c_library \cup P \/ c_library' \subseteq looked
  BY DEF AskLibraries, files, Affected
<1>2. Typed /\ TypeOK
  BY DEF CacheInv, Typed
<1>3. has_library' \subseteq Paths /\ c_library' \subseteq Paths
  BY <1>1, <1>2 DEF TypeOK, GoneFrom
<1>4. /\ parsed' \in [Paths -> Nat]
      /\ \A q \in Paths : {disk'[q], parsed'[q]} \subseteq {Gone} \cup DOMAIN Texts[q]
      /\ in_project' = {q \in Paths : parsed'[q] # Gone}
      /\ in_project' \subseteq has_library'
      /\ GoneOK'
      /\ \A q \in looked : parsed'[q] = disk[q]
      /\ ~ Clears(looked) => parsed' = parsed /\ in_project' = in_project
  BY <1>1, <1>2, <1>3, Parsing
<1>5. TypeOK'
  <2>1. c_sequence' \in [Targets -> {Miss} \cup Seq(Paths)]
    BY <1>1, Keeping
  <2>2. disk' \in [Paths -> Nat] /\ edits' \in 0 .. MaxEdits
    BY <1>1, <1>2 DEF TypeOK
  <2>3. QED
    BY <1>3, <1>4, <2>1, <2>2 DEF TypeOK
<1>6. DefiningOK' /\ SequencesOK'
  BY <1>1, <1>4, CachesAfter
<1>7. QED
  BY <1>4, <1>5, <1>6 DEF Typed

LEMMA IdleTypes == Idle \in Calls /\ Idle.pc = "idle" /\ Idle.taint = FALSE
BY DEF Idle, Calls, Ended

(* Steps that leave the database and the caches alone. *)
LEMMA CallOnly ==
  ASSUME CacheInv, UNCHANGED <<files, db, caches>>, call' \in Calls,
         call'.pc \notin Ended => call'.target \in Targets,
         call'.pc # "KeyError", ~ call'.taint => CallOK(parsed, call')
  PROVE  CacheInv'
<1>1. UNCHANGED <<disk, edits, parsed, in_project, has_library, c_library, c_defining, c_sequence, tainted>>
  BY DEF files, db, caches
<1>2. TypeOK' /\ GoneOK'
  BY <1>1 DEF CacheInv, Typed, TypeOK, GoneOK
<1>3. DefiningOK' /\ SequencesOK'
  BY <1>1 DEF CacheInv, DefiningOK, SequencesOK
<1>4. CallOK(parsed, call)' = CallOK(parsed, call')
  BY <1>1 DEF CallOK, SearchOK, PlanOK, PassOK, Fresh, Before, Defines, Requires, Needed, ToBuild, Buildable, Least
<1>5. QED
  BY <1>1, <1>2, <1>3, <1>4 DEF CacheInv, Typed, KeyErrorOnlyAfterDeletion

LEMMA ChangeStep ==
  ASSUME CacheInv, NEW p \in Paths, NEW v \in {Gone} \cup DOMAIN Texts[p], Change(p, v)
  PROVE  CacheInv'
<1>1. UNCHANGED <<parsed, in_project, has_library, c_library, c_defining, c_sequence, tainted, call>>
      /\ disk' = [disk EXCEPT ![p] = v] /\ disk[p] # Gone /\ edits < MaxEdits /\ edits' = edits + 1
  BY DEF Change, db, caches
<1>2. Typed /\ TypeOK
  BY DEF CacheInv, Typed
<1>3. v \in Nat
  <2>1. Texts[p] \in Seq(Text)
    BY TextsAssumption
  <2>2. QED
    BY <2>1 DEF Gone
<1>4. edits' \in 0 .. MaxEdits
  BY <1>1, <1>2, MaxEditsAssumption DEF TypeOK
<1>5. disk' \in [Paths -> Nat] /\ \A q \in Paths : {disk'[q], parsed[q]} \subseteq {Gone} \cup DOMAIN Texts[q]
  BY <1>1, <1>2, <1>3 DEF TypeOK
<1>6. TypeOK'
  BY <1>1, <1>2, <1>4, <1>5 DEF TypeOK
<1>7. \A q \in Paths : disk[q] = Gone => disk'[q] = Gone
  BY <1>1, <1>2 DEF TypeOK
<1>8. GoneOK' /\ KeyErrorOnlyAfterDeletion'
  BY <1>1, <1>7 DEF CacheInv, Typed, GoneOK, KeyErrorOnlyAfterDeletion
<1>9. DefiningOK' /\ SequencesOK'
  BY <1>1 DEF CacheInv, DefiningOK, SequencesOK
<1>10. CallOK(parsed, call)' = CallOK(parsed, call)
  BY <1>1 DEF CallOK, SearchOK, PlanOK, PassOK, Fresh, Before, Defines, Requires, Needed, ToBuild, Buildable, Least
<1>11. QED
  BY <1>1, <1>6, <1>8, <1>9, <1>10 DEF CacheInv, Typed

(* The call after a step that looked at sources. *)
LEMMA CallAfter ==
  ASSUME Typed', DefiningOK', SequencesOK', KeyErrorOnlyAfterDeletion',
         ~ call'.taint => CallOK(parsed', call')
  PROVE  CacheInv'
<1>1. CallOK(parsed, call)' = CallOK(parsed', call')
  BY DEF CallOK, SearchOK, PlanOK, PassOK, Fresh, Before, Defines, Requires, Needed, ToBuild, Buildable, Least
<1>2. QED
  BY <1>1 DEF CacheInv

LEMMA LintStep ==
  ASSUME CacheInv, NEW t \in Targets, Lint(t) \/ LintFromCache(t)
  PROVE  CacheInv'
<1>1. CASE LintFromCache(t)
  <2>1. call' = [Idle EXCEPT !.pc = "returned", !.target = t, !.yielded = c_sequence[t], !.taint = t \in tainted]
        /\ UNCHANGED <<files, db, caches>> /\ c_sequence[t] # Miss
    BY <1>1 DEF LintFromCache
  <2>2. c_sequence[t] \in Seq(Paths) /\ (t \in tainted) \in BOOLEAN
    BY <2>1 DEF CacheInv, Typed, TypeOK
  <2>3. call' \in Calls /\ call'.pc = "returned"
    BY <2>1, <2>2, IdleTypes DEF Calls, Ended
  <2>4. QED
    BY <2>1, <2>3, CallOnly DEF Ended, CallOK
<1>2. CASE Lint(t)
  <2> DEFINE asks == Defines(parsed', t) # {}
  <2> DEFINE own == Defines(parsed', t)
  <2>1. /\ LookAt(t, asks) /\ UNCHANGED files /\ asks \in BOOLEAN
        /\ call' = [Idle EXCEPT !.pc = "search", !.target = t, !.search = {t}, !.own = own]
    BY <1>2 DEF Lint
  <2>2. t \in Paths /\ Typed
    BY TargetsAssumption DEF CacheInv
  <2>3. Snapshot(parsed')
    <3>1. parsed' = ParsedAfter({t})
      BY <2>1 DEF LookAt
    <3>2. QED
      BY <2>2, <3>1 DEF Typed, TypeOK, ParsedAfter, Snapshot
  <2>4. own \subseteq Names
    BY <2>2, <2>3, TextTypes
  <2> HIDE DEF own, asks
  <2>5. /\ call' \in Calls /\ call'.pc = "search" /\ call'.target = t /\ call'.search = {t}
        /\ call'.own = own /\ call'.units = {} /\ call'.todo = {} /\ call'.paths = {} /\ Fresh(call')
    BY <2>1, <2>2, <2>4, IdleTypes DEF Calls, Idle, Fresh
  <2>6. Typed' /\ DefiningOK' /\ SequencesOK'
    BY <2>1, <2>2, <2>5, LookAtStep
  <2>7. CallOK(parsed', call')
    BY <2>5 DEF own, CallOK, SearchOK
  <2>8. KeyErrorOnlyAfterDeletion'
    BY <2>5 DEF KeyErrorOnlyAfterDeletion
  <2>9. QED
    BY <2>6, <2>7, <2>8, CallAfter
<1>3. QED
  BY <1>1, <1>2

LEMMA SearchStep ==
  ASSUME CacheInv, NEW looked, Search(looked)
  PROVE  CacheInv'
<1> DEFINE new == (UNION {Requires(parsed, p) : p \in call.search}) \ call.units
<1> DEFINE P == {p \in call.search : Requires(parsed, p) # {}}
<1> DEFINE found == [call EXCEPT !.units = @ \cup new, !.todo = new, !.search = {},
                                 !.taint = @ \/ Clears(looked)]
<1>1. /\ call.pc = "search" /\ call.todo = {} /\ AskLibraries(P, looked) /\ UNCHANGED files
      /\ c_defining' = DefiningAfter(looked) /\ tainted' = TaintedAfter(looked)
      /\ \/ (\E p \in call.search : parsed'[p] = Gone) /\ call' = [call EXCEPT !.pc = "KeyError"]
         \/ call' = found
  BY DEF Search
<1>2. Typed /\ call \in Calls /\ call.search \subseteq Paths /\ P \in SUBSET Paths /\ call.target \in Targets
      /\ Targets \subseteq Paths /\ Snapshot(parsed)
  BY <1>1, Snapshots DEF CacheInv, Typed, TypeOK, Calls, Ended
<1>3. new \subseteq Names
  BY <1>2, TextTypes
<1>4. Clears(looked) \in BOOLEAN /\ (call.taint \/ Clears(looked)) \in BOOLEAN
  BY DEF Clears
<1> HIDE DEF new
<1>5. found \in Calls /\ found.pc = "search" /\ found.taint = (call.taint \/ Clears(looked))
      /\ found.target = call.target
  BY <1>1, <1>2, <1>3, <1>4 DEF Calls
<1>6. [call EXCEPT !.pc = "KeyError"] \in Calls /\ [call EXCEPT !.pc = "KeyError"].pc = "KeyError"
  BY <1>2 DEF Calls, Ended
<1> HIDE DEF found
<1>7. call' \in Calls /\ (call'.pc \notin Ended => call'.target \in Targets)
  BY <1>1, <1>2, <1>5, <1>6 DEF Ended
<1>8. looked \in SUBSET Paths
  BY <1>1, <1>2 DEF AskLibraries
<1>9. Typed' /\ DefiningOK' /\ SequencesOK'
  <2>1. /\ c_defining' \in [Names -> {Miss} \cup SUBSET Paths]
        /\ tainted' \subseteq Names \cup Targets
    BY <1>1, <1>8, Keeping
  <2> HIDE DEF P
  <2>2. QED
    BY <1>1, <1>2, <1>7, <2>1, AskStep
<1>10. KeyErrorOnlyAfterDeletion'
  <2>1. CASE call' = found
    BY <1>5, <2>1 DEF KeyErrorOnlyAfterDeletion
  <2>2. CASE \E p \in call.search : parsed'[p] = Gone
    BY <1>2, <1>9, <2>2 DEF Typed, GoneOK, KeyErrorOnlyAfterDeletion
  <2>3. QED
    BY <1>1, <2>1, <2>2
<1>11. ASSUME ~ call'.taint PROVE CallOK(parsed', call')
  <2>1. CASE call' = [call EXCEPT !.pc = "KeyError"]
    BY <1>6, <2>1 DEF CallOK
  <2>2. CASE call' = found
    <3>1. ~ call.taint /\ ~ Clears(looked)
      BY <1>5, <1>11, <2>2
    <3>2. parsed' = parsed
      <4>1. /\ parsed' = ParsedAfter(looked) /\ Affected(looked) = {}
        BY <1>1, <3>1 DEF AskLibraries, Clears
      <4>2. \A p \in looked : parsed[p] = disk[p]
        BY <4>1 DEF Affected
      <4>3. QED
        BY <1>2, <4>1, <4>2 DEF ParsedAfter, Typed, TypeOK
    <3>3. SearchOK(parsed, call)
      BY <1>1, <3>1 DEF CacheInv, CallOK
    <3>4. SearchOK(parsed, [call EXCEPT !.units = @ \cup new, !.todo = new, !.search = {},
                                        !.taint = call.taint \/ Clears(looked)])
      BY <1>1, <1>2, <1>4, <3>3, SearchLevel DEF new
    <3>5. SearchOK(parsed, found)
      BY <3>4 DEF found
    <3>6. QED
      BY <1>5, <2>2, <3>2, <3>5 DEF CallOK
  <2>3. QED
    BY <1>1, <2>1, <2>2
<1>12. QED
  BY <1>9, <1>10, <1>11, CallAfter

(* The paths that define a name, when they are right for what is parsed. *)
LEMMA FoundKeeps ==
  ASSUME CacheInv, NEW n \in call.todo, NEW paths \in SUBSET Paths, NEW taint \in BOOLEAN,
         call' = Found(n, paths, taint),
         ~ taint => paths = {p \in Paths : n \in Defines(parsed, p)}
  PROVE  /\ call' \in Calls /\ call'.pc = call.pc /\ call'.target = call.target
         /\ call'.taint = (call.taint \/ taint)
         /\ ~ call'.taint => CallOK(parsed, call')
<1>1. call \in Calls
  BY DEF CacheInv, Typed, TypeOK
<1>2. /\ call' \in Calls /\ call'.pc = call.pc /\ call'.target = call.target
      /\ call'.taint = (call.taint \/ taint)
  BY <1>1 DEF Found, Calls
<1>3. ASSUME ~ call'.taint PROVE CallOK(parsed, call')
  <2>1. /\ ~ call.taint /\ ~ taint /\ paths = {p \in Paths : n \in Defines(parsed, p)}
        /\ CallOK(parsed, call)
    BY <1>2, <1>3 DEF CacheInv
  <2>2. CASE call.pc = "search"
    <3>1. call' = [call EXCEPT !.todo = @ \ {n}, !.taint = call.taint \/ taint, !.search = @ \cup paths]
      BY <1>1, <2>2 DEF Found, Calls
    <3>2. call' = [call EXCEPT !.todo = @ \ {n}, !.taint = call.taint \/ taint,
                               !.search = @ \cup {p \in Paths : n \in Defines(parsed, p)}]
      BY <2>1, <3>1
    <3>3. (call.taint \/ taint) \in BOOLEAN /\ SearchOK(parsed, call)
      BY <1>1, <2>1, <2>2 DEF CallOK, Calls
    <3>4. SearchOK(parsed, call')
      BY <1>1, <2>2, <3>2, <3>3, FoundWhileSearching
    <3>5. QED
      BY <1>2, <2>2, <3>4 DEF CallOK
  <2>3. CASE call.pc = "plan"
    <3>1. call' = [call EXCEPT !.todo = @ \ {n}, !.taint = call.taint \/ taint, !.paths = @ \cup paths]
      BY <1>1, <2>3 DEF Found, Calls
    <3>2. call' = [call EXCEPT !.todo = @ \ {n}, !.taint = call.taint \/ taint,
                               !.paths = @ \cup {p \in Paths : n \in Defines(parsed, p)}]
      BY <2>1, <3>1
    <3>3. (call.taint \/ taint) \in BOOLEAN /\ PlanOK(parsed, call)
      BY <1>1, <2>1, <2>3 DEF CallOK, Calls
    <3>4. PlanOK(parsed, call')
      BY <1>1, <2>3, <3>2, <3>3, FoundWhilePlanning
    <3>5. QED
      BY <1>2, <2>3, <3>4 DEF CallOK
  <2>4. CASE call.pc = "pass"
    <3>1. /\ call'.paths = call.paths /\ call'.visit = call.visit /\ call'.built = call.built
          /\ call'.compiled = call.compiled /\ call'.yielded = call.yielded
          /\ call'.target = call.target
      BY <1>1, <2>4 DEF Found, Calls
    <3>2. PassOK(parsed, call')
      BY <2>1, <2>4, <3>1 DEF CallOK, PassOK
    <3>3. QED
      BY <1>2, <2>4, <3>2 DEF CallOK
  <2>5. QED
    BY <1>2, <2>2, <2>3, <2>4 DEF CallOK
<1>4. QED
  BY <1>2, <1>3

LEMMA ResolveFromCacheStep ==
  ASSUME CacheInv, NEW n \in Names, ResolveFromCache(n)
  PROVE  CacheInv'
<1>1. /\ n \in call.todo /\ c_defining[n] # Miss /\ UNCHANGED <<files, db, caches>>
      /\ call' = Found(n, c_defining[n], n \in tainted)
  BY DEF ResolveFromCache
<1>2. c_defining[n] \in SUBSET Paths /\ TypeOK
  BY <1>1 DEF CacheInv, Typed, TypeOK
<1>3. (n \in tainted) \in BOOLEAN
      /\ (n \notin tainted => c_defining[n] = {p \in Paths : n \in Defines(parsed, p)})
  BY <1>1 DEF CacheInv, DefiningOK
<1>4. /\ call' \in Calls /\ call'.pc = call.pc /\ call'.target = call.target
      /\ ~ call'.taint => CallOK(parsed, call')
  BY <1>1, <1>2, <1>3, FoundKeeps
<1>5. CASE call.pc # "KeyError"
  BY <1>1, <1>2, <1>4, <1>5, CallOnly DEF TypeOK
<1>6. CASE call.pc = "KeyError"
  <2>1. UNCHANGED <<disk, edits, parsed, in_project, has_library, c_library, c_defining, c_sequence, tainted>>
    BY <1>1 DEF files, db, caches
  <2>2. Typed' /\ DefiningOK' /\ SequencesOK' /\ KeyErrorOnlyAfterDeletion'
    BY <1>2, <1>4, <2>1 DEF CacheInv, Typed, TypeOK, GoneOK, DefiningOK, SequencesOK, KeyErrorOnlyAfterDeletion
  <2>3. QED
    BY <1>4, <2>1, <2>2, CallAfter
<1>7. QED
  BY <1>5, <1>6

LEMMA ResolveStep ==
  ASSUME CacheInv, NEW n \in Names, NEW looked, Resolve(n, looked)
  PROVE  CacheInv'
<1> DEFINE known == {p \in Paths : n \in Defines(parsed, p)}
<1> DEFINE present == known \cap in_project'
<1> DEFINE found == IF present = {} THEN known ELSE present
<1>1. /\ n \in call.todo /\ AskLibraries(known, looked) /\ UNCHANGED files
      /\ c_defining' = [DefiningAfter(looked) EXCEPT ![n] = found]
      /\ tainted' = TaintedAfter(looked) \cup (IF Clears(looked) THEN {n} ELSE {})
      /\ call' = Found(n, found, Clears(looked))
  BY DEF Resolve
<1>2. found \in SUBSET Paths /\ known \in SUBSET Paths /\ Clears(looked) \in BOOLEAN
  BY DEF Clears
<1>3. looked \in SUBSET Paths /\ TypeOK /\ Typed
  BY <1>1, <1>2 DEF AskLibraries, CacheInv, Typed
<1>4. ~ Clears(looked) => parsed' = parsed /\ found = known
  <2>1. SUFFICES ASSUME ~ Clears(looked) PROVE parsed' = parsed /\ found = known
    OBVIOUS
  <2>2. parsed' = ParsedAfter(looked) /\ in_project' = in_project \ GoneFrom(looked)
        /\ \A p \in looked : parsed[p] = disk[p]
    BY <1>1, <2>1 DEF AskLibraries, Clears, Affected
  <2>3. parsed' = parsed
    BY <1>3, <2>2 DEF ParsedAfter, TypeOK
  <2>4. \A p \in known : p \in in_project /\ p \notin GoneFrom(looked)
    <3>1. \A p \in known : parsed[p] # Gone
      BY DEF Defines
    <3>2. QED
      BY <1>3, <2>2, <3>1 DEF TypeOK, GoneFrom
  <2>5. present = known
    BY <2>2, <2>4
  <2>6. QED
    BY <2>3, <2>5
<1>5. ~ Clears(looked) => found = {p \in Paths : n \in Defines(parsed, p)}
  BY <1>4
<1>6. /\ call' \in Calls /\ call'.pc = call.pc /\ call'.target = call.target
      /\ call'.taint = (call.taint \/ Clears(looked))
      /\ ~ call'.taint => CallOK(parsed, call')
  <2> HIDE DEF found
  <2>1. QED
    BY <1>1, <1>2, <1>5, FoundKeeps
<1>7. /\ c_defining' \in [Names -> {Miss} \cup SUBSET Paths]
      /\ tainted' \subseteq Names \cup Targets
      /\ \A m \in Names \ tainted' : c_defining'[m] = DefiningAfter(looked)[m]
                                     \/ c_defining'[m] = {p \in Paths : m \in Defines(parsed', p)}
  <2>1. DefiningAfter(looked) \in [Names -> {Miss} \cup SUBSET Paths]
        /\ TaintedAfter(looked) \subseteq Names \cup Targets
    BY <1>3, Keeping
  <2>2. ~ Clears(looked) => found = {p \in Paths : n \in Defines(parsed', p)}
    BY <1>4, <1>5
  <2> HIDE DEF found
  <2>3. QED
    BY <1>1, <1>2, <2>1, <2>2
<1>8. Typed' /\ DefiningOK' /\ SequencesOK'
  <2>1. TaintedAfter(looked) \subseteq tainted' /\ (call'.pc \notin Ended => call'.target \in Targets)
    BY <1>1, <1>3, <1>6 DEF TypeOK
  <2> HIDE DEF known, found
  <2>2. QED
    BY <1>1, <1>2, <1>6, <1>7, <2>1, AskStep
<1>9. KeyErrorOnlyAfterDeletion'
  BY <1>1, <1>6 DEF CacheInv, KeyErrorOnlyAfterDeletion, files
<1>10. ~ call'.taint => CallOK(parsed', call')
  BY <1>4, <1>6
<1>11. QED
  BY <1>8, <1>9, <1>10, CallAfter

(* The steps between the search, the plan and the passes. *)
LEMMA TurnStep ==
  ASSUME CacheInv, Plan \/ StartPasses \/ NextPass
  PROVE  CacheInv'
<1>1. /\ call \in Calls /\ Snapshot(parsed) /\ TypeOK /\ Targets \subseteq Paths
      /\ (~ call.taint => CallOK(parsed, call))
  BY Snapshots DEF CacheInv, Typed, TypeOK
<1>2. CASE Plan
  <2>1. /\ call.pc = "search" /\ call.search = {} /\ call.todo = {} /\ UNCHANGED <<files, db, caches>>
        /\ call' = [call EXCEPT !.pc = "plan", !.todo = call.units \ call.own]
    BY <1>2 DEF Plan
  <2>2. call' \in Calls /\ call'.pc = "plan" /\ call'.taint = call.taint
        /\ call'.target = call.target /\ call.target \in Targets
    BY <1>1, <2>1 DEF Calls, TypeOK, Ended
  <2>3. ~ call'.taint => PlanOK(parsed, call')
    BY <1>1, <2>1, <2>2, SearchOver DEF CallOK
  <2>4. QED
    BY <2>1, <2>2, <2>3, CallOnly DEF CallOK
<1>3. CASE StartPasses
  <2>1. /\ call.pc = "plan" /\ call.todo = {} /\ UNCHANGED <<files, db, caches>>
        /\ call' = [call EXCEPT !.pc = "pass", !.visit = call.paths]
    BY <1>3 DEF StartPasses
  <2>2. call' \in Calls /\ call'.pc = "pass" /\ call'.taint = call.taint
        /\ call'.target = call.target /\ call.target \in Targets
    BY <1>1, <2>1 DEF Calls, TypeOK, Ended
  <2>3. ~ call'.taint => PassOK(parsed, call')
    BY <1>1, <2>1, <2>2, PassesStart DEF CallOK
  <2>4. QED
    BY <2>1, <2>2, <2>3, CallOnly DEF CallOK
<1>4. CASE NextPass
  <2>1. /\ call.pc = "pass" /\ call.visit = {} /\ UNCHANGED <<files, db, caches>>
        /\ call' = [call EXCEPT !.paths = @ \ call.built, !.visit = call.paths \ call.built, !.built = {}]
    BY <1>4 DEF NextPass
  <2>2. call' \in Calls /\ call'.pc = "pass" /\ call'.taint = call.taint
        /\ call'.target = call.target /\ call.target \in Targets
    BY <1>1, <2>1 DEF Calls, TypeOK, Ended
  <2>3. ~ call'.taint => PassOK(parsed, call')
    BY <1>1, <2>1, <2>2, PassOver DEF CallOK
  <2>4. QED
    BY <2>1, <2>2, <2>3, CallOnly DEF CallOK
<1>5. QED
  BY <1>2, <1>3, <1>4

LEMMA VisitStep ==
  ASSUME CacheInv, NEW p \in Paths, Visit(p)
  PROVE  CacheInv'
<1> DEFINE own == Defines(parsed', p)
<1> DEFINE needs == (Requires(parsed', p) \ call.compiled) \ own
<1> DEFINE new == own \ call.compiled
<1> DEFINE taint == call.taint \/ Affected({p}) # {}
<1> DEFINE visited == [call EXCEPT !.visit = @ \ {p}, !.taint = taint]
<1> DEFINE asks == Defines(parsed', p) # {} \/ Requires(parsed', p) # {}
<1> DEFINE failed == [call EXCEPT !.pc = "KeyError"]
<1> DEFINE skipped == [visited EXCEPT !.built = @ \cup {p}]
<1> DEFINE done == [visited EXCEPT !.built = @ \cup {p}, !.compiled = @ \cup own, !.yielded = Append(@, p)]
<1>1. /\ call.pc = "pass" /\ p \in call.visit /\ LookAt(p, asks) /\ UNCHANGED files
      /\ \/ parsed'[p] = Gone /\ call' = failed
         \/ new = {} /\ call' = skipped
         \/ needs # {} /\ call' = visited
         \/ needs = {} /\ call' = done
  BY DEF Visit
<1>2. /\ call \in Calls /\ Snapshot(parsed) /\ TypeOK /\ Typed /\ Targets \subseteq Paths
      /\ (~ call.taint => CallOK(parsed, call))
  BY Snapshots DEF CacheInv, Typed, TypeOK
<1>3. call.target \in Targets /\ asks \in BOOLEAN /\ taint \in BOOLEAN
  BY <1>1, <1>2 DEF TypeOK, Ended
<1>4. own \subseteq Names
  <2>1. Snapshot(parsed')
    <3>1. parsed' = ParsedAfter({p})
      BY <1>1 DEF LookAt
    <3>2. QED
      BY <1>2, <3>1 DEF Typed, TypeOK, ParsedAfter, Snapshot
  <2>2. QED
    BY <2>1, TextTypes
<1> HIDE DEF own, taint, asks
<1>5. failed \in Calls /\ failed.pc = "KeyError"
  BY <1>2 DEF Calls, Ended
<1>6. visited \in Calls /\ visited.pc = "pass" /\ visited.target = call.target /\ visited.taint = taint
  BY <1>1, <1>2, <1>3 DEF Calls
<1>7. skipped \in Calls /\ skipped.pc = "pass" /\ skipped.target = call.target /\ skipped.taint = taint
      /\ skipped = [call EXCEPT !.visit = @ \ {p}, !.taint = taint, !.built = @ \cup {p}]
  BY <1>1, <1>2, <1>3 DEF Calls
<1>8. done \in Calls /\ done.pc = "pass" /\ done.target = call.target /\ done.taint = taint
      /\ done = [call EXCEPT !.visit = @ \ {p}, !.taint = taint, !.built = @ \cup {p},
                             !.compiled = @ \cup own, !.yielded = Append(@, p)]
  <2> DEFINE d == [call EXCEPT !.visit = @ \ {p}, !.taint = taint, !.built = @ \cup {p},
                               !.compiled = @ \cup own, !.yielded = Append(@, p)]
  <2>1. done = d
    BY <1>2 DEF Calls
  <2>2. /\ call.visit \ {p} \in SUBSET Paths /\ call.built \cup {p} \in SUBSET Paths
        /\ call.compiled \cup own \in SUBSET Names /\ Append(call.yielded, p) \in Seq(Paths)
    BY <1>2, <1>4 DEF Calls
  <2>3. d \in Calls /\ d.pc = "pass" /\ d.target = call.target /\ d.taint = taint
    BY <1>1, <1>2, <1>3, <2>2 DEF Calls
  <2>4. QED
    BY <2>1, <2>3
<1> HIDE DEF failed, visited, skipped, done
<1>9. call' \in Calls /\ (call'.pc \notin Ended => call'.target \in Targets)
  BY <1>1, <1>3, <1>5, <1>6, <1>7, <1>8 DEF Ended
<1>10. /\ Typed' /\ DefiningOK' /\ SequencesOK' /\ parsed'[p] = disk[p]
       /\ Affected({p}) = {} => parsed' = parsed
  BY <1>1, <1>3, <1>9, LookAtStep
<1>11. KeyErrorOnlyAfterDeletion'
  <2>1. CASE call' = failed /\ parsed'[p] = Gone
    BY <1>10, <2>1 DEF Typed, GoneOK, KeyErrorOnlyAfterDeletion
  <2>2. CASE call'.pc = "pass"
    BY <2>2 DEF KeyErrorOnlyAfterDeletion
  <2>3. QED
    BY <1>1, <1>6, <1>7, <1>8, <2>1, <2>2
<1>12. ASSUME ~ call'.taint PROVE CallOK(parsed', call')
  <2>1. CASE call' = failed
    BY <1>5, <2>1 DEF CallOK
  <2>2. CASE ~ taint
    <3>1. parsed' = parsed /\ PassOK(parsed, call)
      BY <1>1, <1>2, <1>10, <2>2 DEF taint, CallOK
    <3>2. own = Defines(parsed, p)
      BY <3>1 DEF own
    <3>3. CASE new = {} /\ call' = skipped
      <4>1. Defines(parsed, p) \subseteq call.compiled
        BY <3>2, <3>3
      <4>2. PassOK(parsed, skipped)
        <5>1. skipped = [call EXCEPT !.visit = @ \ {p}, !.taint = taint, !.built = @ \cup {p}]
          BY <1>7
        <5>2. QED
          BY <1>1, <1>2, <1>3, <3>1, <4>1, <5>1, Skips
      <4>3. QED
        BY <1>7, <3>1, <3>3, <4>2 DEF CallOK
    <3>4. CASE needs # {} /\ call' = visited
      <4>1. ~ (Requires(parsed, p) \subseteq call.compiled \cup Defines(parsed, p))
        BY <3>1, <3>2, <3>4
      <4>2. PassOK(parsed, visited)
        BY <1>1, <1>2, <1>3, <3>1, <4>1, Skips DEF visited
      <4>3. QED
        BY <1>6, <3>1, <3>4, <4>2 DEF CallOK
    <3>5. CASE needs = {} /\ call' = done
      <4>1. Requires(parsed, p) \subseteq call.compiled \cup Defines(parsed, p)
        BY <3>1, <3>2, <3>5
      <4>2. done = [call EXCEPT !.visit = @ \ {p}, !.taint = taint, !.built = @ \cup {p},
                                !.compiled = @ \cup Defines(parsed, p), !.yielded = Append(@, p)]
        BY <1>8, <3>2
      <4>3. PassOK(parsed, done)
        BY <1>1, <1>2, <1>3, <3>1, <4>1, <4>2, Yields
      <4>4. QED
        BY <1>8, <3>1, <3>5, <4>3 DEF CallOK
    <3>6. QED
      BY <1>1, <2>1, <3>3, <3>4, <3>5
  <2>3. QED
    BY <1>1, <1>6, <1>7, <1>8, <1>12, <2>1, <2>2
<1>13. QED
  BY <1>10, <1>11, <1>12, CallAfter

LEMMA ReturnStep ==
  ASSUME CacheInv, Return
  PROVE  CacheInv'
<1>1. /\ call.pc = "pass" /\ call.visit = {} /\ call.built = {}
      /\ c_sequence' = [c_sequence EXCEPT ![call.target] = call.yielded]
      /\ tainted' = tainted \cup (IF call.taint THEN {call.target} ELSE {})
      /\ call' = [call EXCEPT !.pc = "returned"]
      /\ UNCHANGED <<disk, edits, parsed, in_project, has_library, c_library, c_defining>>
  BY DEF Return, files, db
<1>2. /\ call \in Calls /\ Snapshot(parsed) /\ TypeOK /\ GoneOK /\ Targets \subseteq Paths
      /\ (~ call.taint => CallOK(parsed, call))
  BY Snapshots DEF CacheInv, Typed, TypeOK
<1>3. call.target \in Targets /\ call.yielded \in Seq(Paths)
  BY <1>1, <1>2 DEF TypeOK, Ended, Calls
<1>4. call' \in Calls /\ call'.pc = "returned" /\ call'.target = call.target
  BY <1>1, <1>2 DEF Calls, Ended
<1>5. c_sequence' \in [Targets -> {Miss} \cup Seq(Paths)] /\ tainted' \subseteq Names \cup Targets
  BY <1>1, <1>2, <1>3 DEF TypeOK
<1>6. Typed'
  BY <1>1, <1>2, <1>4, <1>5 DEF Typed, TypeOK, GoneOK, Ended
<1>7. DefiningOK'
  BY <1>1 DEF CacheInv, DefiningOK
<1>8. SequencesOK'
  <2>1. ~ call.taint => RightOrder(parsed, call.target, call.yielded)
    BY <1>1, <1>2, <1>3, PassesEnd DEF CallOK
  <2>2. ASSUME NEW t \in Targets \ tainted'
        PROVE  c_sequence'[t] = Miss \/ RightOrder(parsed, t, c_sequence'[t])
    <3>1. CASE t = call.target
      BY <1>1, <1>2, <1>3, <2>1, <2>2, <3>1 DEF TypeOK
    <3>2. CASE t # call.target
      BY <1>1, <1>2, <2>2, <3>2 DEF TypeOK, CacheInv, SequencesOK
    <3>3. QED
      BY <3>1, <3>2
  <2>3. QED
    BY <1>1, <2>2 DEF SequencesOK
<1>9. KeyErrorOnlyAfterDeletion' /\ CallOK(parsed', call')
  BY <1>4 DEF KeyErrorOnlyAfterDeletion, CallOK
<1>10. QED
  BY <1>6, <1>7, <1>8, <1>9, CallAfter

LEMMA QueryStep ==
  ASSUME CacheInv, NEW p \in Paths, Query(p)
  PROVE  CacheInv'
<1>1. LookAt(p, FALSE) /\ call' = Idle /\ UNCHANGED files
  BY DEF Query
<1>2. call' \in Calls /\ call'.pc = "idle"
  BY <1>1, IdleTypes
<1>3. Typed' /\ DefiningOK' /\ SequencesOK'
  BY <1>1, <1>2, LookAtStep DEF Ended
<1>4. KeyErrorOnlyAfterDeletion' /\ CallOK(parsed', call')
  BY <1>2 DEF KeyErrorOnlyAfterDeletion, CallOK
<1>5. QED
  BY <1>3, <1>4, CallAfter

LEMMA CacheInvInitially == Init => CacheInv
<1> SUFFICES ASSUME Init PROVE CacheInv
  OBVIOUS
<1>1. /\ disk = [p \in Paths |-> 1] /\ parsed = disk /\ edits = 0 /\ in_project = Paths /\ has_library = Paths
      /\ c_library = {} /\ c_defining = NoPaths /\ c_sequence = NoSequences /\ tainted = {} /\ call = Idle
  BY DEF Init
<1>2. \A p \in Paths : 1 \in DOMAIN Texts[p]
  <2> SUFFICES ASSUME NEW p \in Paths PROVE 1 \in DOMAIN Texts[p]
    OBVIOUS
  <2>1. Texts[p] \in Seq(Text) /\ Len(Texts[p]) > 0
    BY TextsAssumption
  <2>2. QED
    BY <2>1
<1>3. edits \in 0 .. MaxEdits
  BY <1>1, MaxEditsAssumption
<1>4. TypeOK
  BY <1>1, <1>2, <1>3, IdleTypes DEF TypeOK, NoPaths, NoSequences, Gone, Ended
<1>5. GoneOK
  BY <1>1 DEF GoneOK, Gone
<1>6. DefiningOK /\ SequencesOK
  BY <1>1 DEF DefiningOK, SequencesOK, NoPaths, NoSequences
<1>7. KeyErrorOnlyAfterDeletion /\ CallOK(parsed, call)
  BY <1>1, IdleTypes DEF KeyErrorOnlyAfterDeletion, CallOK
<1>8. QED
  BY <1>4, <1>5, <1>6, <1>7 DEF CacheInv, Typed

LEMMA CacheInvStays == CacheInv /\ [Next]_vars => CacheInv'
<1> SUFFICES ASSUME CacheInv, [Next]_vars PROVE CacheInv'
  OBVIOUS
<1>1. ASSUME NEW p \in Paths, NEW v \in {Gone} \cup DOMAIN Texts[p], Change(p, v) PROVE CacheInv'
  BY <1>1, ChangeStep
<1>2. ASSUME NEW p \in Paths, Query(p) PROVE CacheInv'
  BY <1>2, QueryStep
<1>3. ASSUME NEW t \in Targets, LintFromCache(t) \/ Lint(t) PROVE CacheInv'
  BY <1>3, LintStep
<1>4. ASSUME NEW looked \in SUBSET Paths, Search(looked) PROVE CacheInv'
  BY <1>4, SearchStep
<1>5. ASSUME NEW n \in Names, ResolveFromCache(n) PROVE CacheInv'
  BY <1>5, ResolveFromCacheStep
<1>6. ASSUME NEW n \in Names, NEW looked \in SUBSET Paths, Resolve(n, looked) PROVE CacheInv'
  BY <1>6, ResolveStep
<1>7. ASSUME NEW p \in Paths, Visit(p) PROVE CacheInv'
  BY <1>7, VisitStep
<1>8. CASE Plan \/ StartPasses \/ NextPass
  BY <1>8, TurnStep
<1>9. CASE Return
  BY <1>9, ReturnStep
<1>10. CASE UNCHANGED vars
  <2>1. UNCHANGED <<disk, edits, parsed, in_project, has_library, c_library, c_defining, c_sequence, tainted, call>>
    BY <1>10 DEF vars, files, db, caches
  <2>2. Typed' /\ DefiningOK' /\ SequencesOK' /\ KeyErrorOnlyAfterDeletion'
    BY <2>1 DEF CacheInv, Typed, TypeOK, GoneOK, DefiningOK, SequencesOK, KeyErrorOnlyAfterDeletion
  <2>3. ~ call'.taint => CallOK(parsed', call')
    BY <2>1 DEF CacheInv
  <2>4. QED
    BY <2>2, <2>3, CallAfter
<1>11. QED
  BY <1>1, <1>2, <1>3, <1>4, <1>5, <1>6, <1>7, <1>8, <1>9, <1>10 DEF Next, Step

(* Sources, versions and answers have their types, and a source with       *)
(* anything parsed is in the project and has a library, whatever is edited *)
(* or deleted (database.py:226-250, 440-470).                              *)
THEOREM TypeCorrect == Spec => []TypeOK
<1>1. CacheInv => TypeOK
  BY DEF CacheInv, Typed
<1>2. QED
  BY <1>1, CacheInvInitially, CacheInvStays, PTL DEF Spec

(* A cached build sequence, and a cached answer of getPathsDefining, is    *)
(* right for what is parsed unless a source was parsed while it was being  *)
(* computed: an answer that nothing disturbed is the least set of sources  *)
(* to build, each after what it needs, for any project however cyclic.     *)
THEOREM AnswersAgreeUnlessDisturbed == Spec => []CachedAnswersAgree
<1>1. CacheInv => CachedAnswersAgree
  BY DEF CacheInv, DefiningOK, SequencesOK, CachedAnswersAgree
<1>2. QED
  BY <1>1, CacheInvInitially, CacheInvStays, PTL DEF Spec

(* The lookups of a call that may raise (database.py:698, 716, 802) do so  *)
(* only if a source has been deleted, at whatever moment it was.           *)
THEOREM RaisesOnlyAfterDeletion == Spec => []KeyErrorOnlyAfterDeletion
<1>1. CacheInv => KeyErrorOnlyAfterDeletion
  BY DEF CacheInv
<1>2. QED
  BY <1>1, CacheInvInitially, CacheInvStays, PTL DEF Spec

-----------------------------------------------------------------------------
(* Several threads at one source: SourceParsing, for any number of threads *)
(* and of versions of the file.                                            *)

(* The types hold in every reachable state, and at most one thread is      *)
(* inside "with self._lock" (database.py:457).                             *)
THEOREM ParsingTypeCorrect == ParsingSpec => []ParsingTypeOK
<1>1. ParsingInit => ParsingTypeOK
  BY MaxVersionAssumption, NoneAssumption DEF ParsingInit, ParsingTypeOK, Versions, Places, Locked
<1>2. ParsingTypeOK /\ [ParsingNext]_parsing => ParsingTypeOK'
  <2> SUFFICES ASSUME ParsingTypeOK, [ParsingNext]_parsing PROVE ParsingTypeOK'
    OBVIOUS
  <2>1. CASE Save
    <3>1. version' \in Versions
      BY <2>1, MaxVersionAssumption DEF Save, ParsingTypeOK, Versions
    <3>2. QED
      BY <2>1, <3>1 DEF Save, ParsingTypeOK
  <2>2. ASSUME NEW t \in Threads, ThreadStep(t) PROVE ParsingTypeOK'
    <3> USE DEF ParsingTypeOK, Goes, Places, Locked
    <3>1. CASE CheckMtime(t)
      BY <3>1 DEF CheckMtime
    <3>2. CASE ReadUnits(t) \/ ReadDependencies(t)
      <4> DEFINE Read == [units : Versions, dependencies : Versions]
      <4>1. [read[t] EXCEPT !.units = version] \in Read /\ [read[t] EXCEPT !.dependencies = version] \in Read
        OBVIOUS
      <4>2. read' = [read EXCEPT ![t] = [@ EXCEPT !.units = version]]
            \/ read' = [read EXCEPT ![t] = [@ EXCEPT !.dependencies = version]]
        BY <3>2 DEF ReadUnits, ReadDependencies
      <4>3. read' \in [Threads -> Read]
        BY <4>1, <4>2
      <4>4. QED
        BY <3>2, <4>3 DEF ReadUnits, ReadDependencies
    <3>3. CASE Acquire(t)
      BY <3>3, NoneAssumption DEF Acquire
    <3>4. CASE RemoveUnits(t)
      BY <3>4 DEF RemoveUnits
    <3>5. CASE AddUnits(t)
      BY <3>5 DEF AddUnits
    <3>6. CASE Finish(t)
      BY <3>6, NoneAssumption DEF Finish
    <3>7. CASE LookUpCached(t) \/ LookUp(t)
      BY <3>7 DEF LookUpCached, LookUp
    <3>8. CASE Insert(t)
      BY <3>8 DEF Insert
    <3>9. QED
      BY <2>2, <3>1, <3>2, <3>3, <3>4, <3>5, <3>6, <3>7, <3>8 DEF ThreadStep
  <2>3. CASE UNCHANGED parsing
    BY <2>3 DEF ParsingTypeOK, parsing
  <2>4. QED
    BY <2>1, <2>2, <2>3 DEF ParsingNext
<1>3. QED
  BY <1>1, <1>2, PTL DEF ParsingSpec

(* The units last parsed are missing only between their removal and the    *)
(* addition of new ones.                                                   *)
KeptUnlessAdding == (\A t \in Threads : pc[t] # "add") => latest \in units

(* However many threads parse and look up the path, outside the lock the   *)
(* units last parsed are there (database.py:457-467).                      *)
THEOREM UnitsKept == ParsingSpec => []LatestUnitsAreKept
<1>1. ParsingInit => KeptUnlessAdding
  BY DEF ParsingInit, KeptUnlessAdding
<1>2. ParsingTypeOK /\ KeptUnlessAdding /\ [ParsingNext]_parsing => KeptUnlessAdding'
  <2> SUFFICES ASSUME ParsingTypeOK, KeptUnlessAdding, [ParsingNext]_parsing PROVE KeptUnlessAdding'
    OBVIOUS
  <2>1. ASSUME NEW t \in Threads, RemoveUnits(t) PROVE KeptUnlessAdding'
    <3>1. pc'[t] = "add"
      BY <2>1 DEF RemoveUnits, Goes, ParsingTypeOK
    <3>2. QED
      BY <3>1 DEF KeptUnlessAdding
  <2>2. ASSUME NEW t \in Threads, AddUnits(t) PROVE KeptUnlessAdding'
    BY <2>2 DEF AddUnits, KeptUnlessAdding
  <2>3. ASSUME NEW t \in Threads, ThreadStep(t), ~ RemoveUnits(t), ~ AddUnits(t)
        PROVE  KeptUnlessAdding'
    <3>1. pc[t] # "add" /\ \A s \in Threads \ {t} : pc'[s] = pc[s]
      BY <2>3 DEF ThreadStep, CheckMtime, ReadUnits, ReadDependencies, Acquire, Finish, LookUpCached,
                  LookUp, Insert, Goes, ParsingTypeOK
    <3>2. UNCHANGED <<units, latest>>
      BY <2>3 DEF ThreadStep, CheckMtime, ReadUnits, ReadDependencies, Acquire, Finish, LookUpCached,
                  LookUp, Insert
    <3>3. QED
      BY <3>1, <3>2 DEF KeptUnlessAdding
  <2>4. CASE Save \/ UNCHANGED parsing
    BY <2>4 DEF Save, parsing, KeptUnlessAdding
  <2>5. QED
    BY <2>1, <2>2, <2>3, <2>4 DEF ParsingNext
<1>3. ParsingTypeOK /\ KeptUnlessAdding => LatestUnitsAreKept
  BY NoneAssumption DEF ParsingTypeOK, KeptUnlessAdding, LatestUnitsAreKept, Locked
<1>4. QED
  BY <1>1, <1>2, <1>3, ParsingTypeCorrect, PTL DEF ParsingSpec
=============================================================================
