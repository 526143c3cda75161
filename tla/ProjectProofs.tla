--------------------------- MODULE ProjectProofs ---------------------------
(***************************************************************************)
(* Proofs about Project, for any files, libraries and texts and any number *)
(* of edits: the type of every variable, what the caches of the database   *)
(* may hold while sources are listed, edited and deleted, that the project *)
(* file prevails over what it includes, and that nothing it lists or       *)
(* includes is left out.                                                   *)
(*                                                                         *)
(* Every call of the database keeps it Sound, and its outcome Follows what *)
(* was there; Project's steps are put together from these two.             *)
(***************************************************************************)
EXTENDS Project, FiniteSetTheorems, WellFoundedInduction, TLAPS

(* Induction on the numbers up to N, about membership in a set. *)
LEMMA Induction ==
  ASSUME NEW N \in Nat, NEW S, 0 \in S, \A n \in 1..N : n - 1 \in S => n \in S
  PROVE  \A n \in 0..N : n \in S
<1> SUFFICES ASSUME 0..N \ S # {} PROVE FALSE
  OBVIOUS
<1> DEFINE R == {pair \in Nat \X Nat : pair[1] < pair[2]}
<1>1. IsWellFoundedOn(R, Nat)
  BY NatLessThanWellFounded DEF OpToRel
<1>2. \A x, y \in Nat : <<y, x>> \in R <=> y < x
  OBVIOUS
<1> HIDE DEF R
<1> DEFINE T == 0..N \ S
<1>3. T \in SUBSET Nat /\ T # {}
  OBVIOUS
<1> HIDE DEF T
<1>4. PICK x \in T : \A y \in T : ~ (<<y, x>> \in R)
  BY <1>1, <1>3, WFMin
<1>5. x \in 1..N /\ x - 1 \in 0..N /\ x - 1 < x
  BY <1>4 DEF T
<1>6. x \in Nat /\ x - 1 \in Nat /\ <<x - 1, x>> \in R
  BY <1>2, <1>5
<1>7. x - 1 \in S
  BY <1>4, <1>5, <1>6 DEF T
<1>8. QED
  BY <1>4, <1>5, <1>7 DEF T

(* f starts with base, and each value follows from the one before. *)
Follow(f, base, N, step) == f[0] = base /\ \A n \in 1..N : f[n] = step[<<f[n - 1], n>>]

(* A recursive function on 0..N exists, with its values in D. *)
LEMMA Recursion ==
  ASSUME NEW D, NEW base \in D, NEW N \in Nat, NEW step \in [D \X (1..N) -> D]
  PROVE  \E f \in [0..N -> D] : Follow(f, base, N, step)
<1> DEFINE Upto(m) == \E f \in [0..m -> D] : f[0] = base /\ \A n \in 1..m : f[n] = step[<<f[n - 1], n>>]
           S == {m \in 0..N : Upto(m)}
<1>1. 0 \in S
  <2> DEFINE g == [n \in 0..0 |-> base]
  <2>1. g \in [0..0 -> D] /\ g[0] = base /\ 1..0 = {}
    OBVIOUS
  <2> HIDE DEF g
  <2>2. Upto(0)
    BY <2>1
  <2>3. QED
    BY <2>2
<1>2. ASSUME NEW m \in 1..N, m - 1 \in S PROVE m \in S
  <2>1. PICK f \in [0..(m - 1) -> D] : f[0] = base /\ \A n \in 1..(m - 1) : f[n] = step[<<f[n - 1], n>>]
    BY <1>2
  <2> DEFINE g == [n \in 0..m |-> IF n = m THEN step[<<f[m - 1], m>>] ELSE f[n]]
  <2>2. m - 1 \in 0..(m - 1) /\ f[m - 1] \in D
    BY <2>1
  <2>3. g \in [0..m -> D]
    BY <2>1, <2>2
  <2>4. g[0] = base
    BY <2>1
  <2>5. ASSUME NEW n \in 1..m PROVE g[n] = step[<<g[n - 1], n>>]
    <3>1. n - 1 \in 0..m /\ n - 1 # m /\ g[n - 1] = f[n - 1]
      OBVIOUS
    <3>2. n = m \/ n \in 1..(m - 1)
      OBVIOUS
    <3>3. n # m => f[n] = step[<<f[n - 1], n>>]
      BY <2>1, <3>2
    <3>4. QED
      BY <3>1, <3>2, <3>3
  <2> HIDE DEF g
  <2>6. Upto(m)
    BY <2>3, <2>4, <2>5
  <2>7. QED
    BY <2>6
<1>3. N \in S
  <2> HIDE DEF S
  <2>1. QED
    BY <1>1, <1>2, Induction
<1>4. QED
  BY <1>3 DEF Follow

-----------------------------------------------------------------------------
(* Sequences of the community modules.                                     *)

(* SetToSeq has every element of a finite set, and no other. *)
LEMMA SetToSeqOfASet ==
  ASSUME NEW S, IsFiniteSet(S)
  PROVE  /\ Cardinality(S) \in Nat
         /\ SetToSeq(S) \in [1..Cardinality(S) -> S]
         /\ SetToSeq(S) \in Seq(S)
         /\ \A x \in S : \E i \in DOMAIN SetToSeq(S) : SetToSeq(S)[i] = x
<1>1. Cardinality(S) \in Nat /\ \E f : f \in Bijection(1..Cardinality(S), S)
  BY FS_CardinalityType DEF ExistsBijection
<1>2. PICK f : f \in Bijection(1..Cardinality(S), S)
  BY <1>1
<1>3. f \in [1..Cardinality(S) -> S] /\ IsInjective(f)
  BY <1>2 DEF Bijection, Injection, IsInjective
<1>4. SetToSeq(S) \in [1..Cardinality(S) -> S] /\ IsInjective(SetToSeq(S))
  BY <1>3 DEF SetToSeq
<1>5. SetToSeq(S) \in Injection(1..Cardinality(S), S)
  BY <1>4 DEF Injection, IsInjective
<1>6. SetToSeq(S) \in Seq(S)
  BY <1>1, <1>4
<1>7. IsFiniteSet(1..Cardinality(S)) /\ Cardinality(1..Cardinality(S)) = Cardinality(S)
  BY <1>1, FS_Interval
<1>8. SetToSeq(S) \in Surjection(1..Cardinality(S), S)
  BY <1>5, <1>7, FS_Injection
<1>9. \A x \in S : \E i \in DOMAIN SetToSeq(S) : SetToSeq(S)[i] = x
  BY <1>8 DEF Surjection
<1>10. QED
  BY <1>1, <1>4, <1>6, <1>9

(* FlattenSeq of sequences over T is a sequence over T. *)
LEMMA FlattenSeqOfSequences ==
  ASSUME NEW T, NEW seqs \in Seq(Seq(T))
  PROVE  FlattenSeq(seqs) \in Seq(T)
<1> DEFINE N == Len(seqs)
           Is(f) == f = [i \in 1..N |-> IF i = 1 THEN seqs[i] ELSE f[i - 1] \o seqs[i]]
           flatten == CHOOSE f : Is(f)
<1>1. CASE N = 0
  BY <1>1 DEF FlattenSeq
<1>2. CASE N # 0
  <2>1. N \in Nat /\ DOMAIN seqs = 1..N /\ \A i \in 1..N : seqs[i] \in Seq(T)
    OBVIOUS
  <2> HIDE DEF N
  <2> DEFINE step == [x \in Seq(T) \X (1..N) |-> x[1] \o seqs[x[2]]]
  <2> DEFINE D == Seq(T)
  <2>2. step \in [D \X (1..N) -> D]
    BY <2>1
  <2>3. <<>> \in D
    OBVIOUS
  <2>4. \A s \in D, n \in 1..N : step[<<s, n>>] = s \o seqs[n]
    BY <2>1
  <2> HIDE DEF step, D
  <2>5. N \in Nat
    BY <2>1
  <2>6. PICK g \in [0..N -> D] : Follow(g, <<>>, N, step)
    BY <2>2, <2>3, <2>5, Recursion
  <2>7. ASSUME NEW n \in 1..N PROVE n - 1 \in 0..N /\ g[n] = g[n - 1] \o seqs[n]
    <3>1. n - 1 \in 0..N
      BY <2>5
    <3>2. g[n - 1] \in D /\ g[n] = step[<<g[n - 1], n>>]
      BY <2>6, <3>1 DEF Follow
    <3>3. QED
      BY <2>4, <3>1, <3>2
  <2>8. Is([i \in 1..N |-> g[i]])
    <3> DEFINE h == [i \in 1..N |-> g[i]]
    <3>1. ASSUME NEW i \in 1..N PROVE h[i] = IF i = 1 THEN seqs[i] ELSE h[i - 1] \o seqs[i]
      <4>1. CASE i = 1
        <5>1. g[i] = <<>> \o seqs[i] /\ seqs[i] \in Seq(T)
          <6>1. g[i] = g[0] \o seqs[i]
            BY <2>1, <2>7, <4>1
          <6>2. QED
            BY <2>1, <2>6, <6>1 DEF Follow
        <5>2. QED
          BY <4>1, <5>1
      <4>2. CASE i # 1
        <5>1. i - 1 \in 1..N
          BY <2>1, <4>2
        <5>2. QED
          BY <2>7, <4>2, <5>1
      <4>3. QED
        BY <4>1, <4>2
    <3>2. h = [i \in 1..N |-> h[i]]
      OBVIOUS
    <3> HIDE DEF h
    <3>3. Is(h)
      BY <3>1, <3>2
    <3>4. QED
      BY <3>3 DEF h
  <2>9. Is(flatten)
    BY <2>8
  <2>10. FlattenSeq(seqs) = flatten[N]
    BY <1>2 DEF FlattenSeq, N
  <2> HIDE DEF flatten
  <2> DEFINE S == {n \in 0..N : n = 0 \/ flatten[n] \in Seq(T)}
  <2>11. 0 \in S
    BY <2>1
  <2>12. ASSUME NEW n \in 1..N, n - 1 \in S PROVE n \in S
    <3>1. flatten[n] = IF n = 1 THEN seqs[n] ELSE flatten[n - 1] \o seqs[n]
      BY <2>9
    <3>2. n # 1 => n - 1 # 0
      BY <2>1
    <3>3. flatten[n] \in Seq(T)
      BY <2>1, <2>12, <3>1, <3>2
    <3>4. QED
      BY <3>3
  <2> HIDE DEF S
  <2>13. \A n \in 0..N : n \in S
    BY <2>1, <2>11, <2>12, Induction
  <2>14. QED
    BY <1>2, <2>1, <2>10, <2>13 DEF S
<1>3. QED
  BY <1>1, <1>2

-----------------------------------------------------------------------------
(* What is read of configuration files.                                    *)

(* What is included is spelled as a place. *)
LEMMA SpelledPlaces ==
  ASSUME NEW hops \in Seq(Folders), NEW items \in Seq(Item)
  PROVE  SpelledAll(hops, items) \subseteq Place
<1> SUFFICES ASSUME NEW i \in DOMAIN items PROVE Spelled(hops, items[i]) \in Place
  BY DEF SpelledAll
<1>1. items[i] \in Item
  OBVIOUS
<1>2. items[i].node \in Files \cup Folders
  BY <1>1 DEF Item
<1>3. FolderAt(items[i].node) \in Folders
  BY <1>2, ConfigFilesAssumption DEF FolderAt
<1>4. QED
  BY <1>2, <1>3 DEF Spelled, Place

(* A configuration that says nothing of flags. *)
LEMMA NothingListed == [t \in Types |-> NoFlags] \in [Types -> [single : Seq(Flag), dependencies : Seq(Flag), global : Seq(Flag)]]
BY DEF NoFlags

(* A folder without a project file lists its own sources. *)
LEMMA FoundIsListed == ASSUME NEW folder \in Folders PROVE Found(folder) \in Seq(Listing)
<1>1. [matches |-> RtlIn[folder], library |-> None, flags |-> <<>>] \in Listing
  BY ConfigFilesAssumption DEF Listing
<1>2. QED
  BY <1>1 DEF Found

(* What is read at a place is a configuration. *)
LEMMA LoadedIsRead ==
  ASSUME NEW path \in Place PROVE Loaded(path) \subseteq Configuration
<1>1. path.node \in Files \cup Folders
  BY DEF Place
<1>2. CASE FileAt(path) = None
  <2>1. path.node \in Folders
    BY <1>1, <1>2, ConfigFilesAssumption DEF FileAt
  <2>2. [include |-> <<>>, sources |-> Found(path.node), flags |-> [t \in Types |-> NoFlags]] \in Configuration
    BY <2>1, FoundIsListed, NothingListed DEF Configuration
  <2>3. QED
    BY <1>2, <2>2 DEF Loaded
<1>3. CASE FileAt(path) # None
  <2>1. FileAt(path) \in Files
    BY <1>1, <1>3, ConfigFilesAssumption DEF FileAt
  <2>2. Content[FileAt(path)] \in Configuration \cup {Broken, Absent}
    BY <2>1, ConfigFilesAssumption
  <2>3. QED
    BY <1>3, <2>2 DEF Loaded
<1>4. QED
  BY <1>2, <1>3

(* What is yet to be read are places. *)
LEMMA NewlyIncludedPlaces ==
  ASSUME NEW path \in Place, NEW checked
  PROVE  NewlyIncluded(path, checked) \subseteq Place
<1>1. ASSUME NEW config \in Loaded(path) PROVE SpelledAll(path.hops, config.include) \subseteq Place
  <2>1. config.include \in Seq(Item)
    BY LoadedIsRead DEF Configuration
  <2>2. path.hops \in Seq(Folders)
    BY DEF Place
  <2>3. QED
    BY <2>1, <2>2, SpelledPlaces
<1>2. QED
  BY <1>1 DEF NewlyIncluded

(* A listed source becomes an entry. *)
LEMMA SourceEntryIsEntry ==
  ASSUME NEW source \in Listing, NEW path \in Paths,
         NEW flags \in [Types -> [single : Seq(Flag), dependencies : Seq(Flag), global : Seq(Flag)]]
  PROVE  SourceEntry(source, path, flags) \in Entry
<1>1. source.library \in Libs \cup {None} /\ source.flags \in Seq(Flag)
  BY DEF Listing
<1>2. CASE FileTypeOf[path] = None
  <2>1. NoFlagsAtAll \in SourceFlags
    BY DEF NoFlagsAtAll, SourceFlags
  <2>2. QED
    BY <1>1, <1>2, <2>1 DEF SourceEntry, Entry
<1>3. CASE FileTypeOf[path] # None
  <2> DEFINE own == flags[FileTypeOf[path]]
  <2>1. own \in [single : Seq(Flag), dependencies : Seq(Flag), global : Seq(Flag)]
    BY <1>3, ConfigFilesAssumption
  <2>2. own.global \in Seq(Flag) /\ own.single \in Seq(Flag) /\ own.dependencies \in Seq(Flag)
    BY <2>1
  <2>3. SourceEntry(source, path, flags) =
          [path |-> path, library |-> source.library,
           flags |-> [source_specific |-> source.flags, single |-> own.global \o own.single,
                      dependencies |-> own.global \o own.dependencies]]
    BY <1>3 DEF SourceEntry
  <2> HIDE DEF own
  <2>4. own.global \o own.single \in Seq(Flag) /\ own.global \o own.dependencies \in Seq(Flag)
    BY <2>2
  <2>5. QED
    BY <1>1, <2>3, <2>4 DEF Entry, SourceFlags
<1>4. QED
  BY <1>2, <1>3

(* _expand yields entries. *)
LEMMA ExpandedEntries ==
  ASSUME NEW config \in Configuration, NEW folder \in Folders
  PROVE  Expand(config, folder) \in Seq(Entry)
<1> DEFINE sources == IF config.sources = NoSources THEN Found(folder) ELSE config.sources
           EntriesOf(source) ==
             LET matches == SetToSeq(source.matches)
             IN  [i \in DOMAIN matches |-> SourceEntry(source, matches[i], config.flags)]
           seqs == [i \in DOMAIN sources |-> EntriesOf(sources[i])]
<1>1. sources \in Seq(Listing)
  BY FoundIsListed DEF Configuration
<1>2. ASSUME NEW source \in Listing PROVE EntriesOf(source) \in Seq(Entry)
  <2> DEFINE matches == SetToSeq(source.matches)
  <2>1. source.matches \in SUBSET Paths
    BY DEF Listing
  <2>2. IsFiniteSet(source.matches)
    BY <2>1, ConfigFilesAssumption, FS_Subset
  <2>3. matches \in Seq(source.matches)
    BY <2>2, SetToSeqOfASet
  <2>4. config.flags \in [Types -> [single : Seq(Flag), dependencies : Seq(Flag), global : Seq(Flag)]]
    BY DEF Configuration
  <2>5. EntriesOf(source) = [i \in DOMAIN matches |-> SourceEntry(source, matches[i], config.flags)]
    OBVIOUS
  <2> HIDE DEF matches
  <2>6. \A i \in DOMAIN matches : SourceEntry(source, matches[i], config.flags) \in Entry
    BY <2>1, <2>3, <2>4, SourceEntryIsEntry
  <2>7. DOMAIN matches = 1..Len(matches) /\ Len(matches) \in Nat
    BY <2>3
  <2> HIDE DEF EntriesOf
  <2>8. QED
    BY <2>5, <2>6, <2>7
<1>3. Expand(config, folder) = FlattenSeq(seqs)
  BY DEF Expand
<1> HIDE DEF sources, EntriesOf
<1>4. DOMAIN sources = 1..Len(sources) /\ Len(sources) \in Nat /\ \A i \in DOMAIN sources : sources[i] \in Listing
  BY <1>1
<1>5. seqs \in Seq(Seq(Entry))
  BY <1>2, <1>4
<1>6. QED
  BY <1>3, <1>5, FlattenSeqOfSequences

(* An included path yields entries. *)
LEMMA EntriesAtEntries ==
  ASSUME NEW path \in Place PROVE EntriesAt(path) \in Seq(Entry)
<1>1. FolderAt(path.node) \in Folders
  BY ConfigFilesAssumption DEF Place, FolderAt
<1>2. CASE Loaded(path) # {}
  <2>1. (CHOOSE config \in Loaded(path) : TRUE) \in Configuration
    BY <1>2, LoadedIsRead
  <2>2. QED
    BY <1>1, <1>2, <2>1, ExpandedEntries DEF EntriesAt
<1>3. QED
  BY <1>2 DEF EntriesAt

(* VUnit's entries are about its own sources and headers, whatever the     *)
(* builder.                                                                *)
LEMMA VunitEntriesAreVunits ==
  ASSUME NEW builder
  PROVE  VunitEntries(builder) \in Seq({e \in Entry : e.path \in VunitPaths})
<1> DEFINE mine == {s \in VunitSource : s.path \in VunitPaths}
           chosen == [i \in DOMAIN Vunit |->
                        IF Vunit[i].type \in TypesOf(builder) THEN <<Vunit[i]>> ELSE <<>>]
           sources == FlattenSeq(chosen)
           headers == IF sources # <<>> /\ "systemverilog" \in TypesOf(builder) THEN Headers ELSE <<>>
           Made(path, library, flags) ==
             [path |-> path, library |-> library,
              flags |-> [source_specific |-> flags, single |-> flags, dependencies |-> <<>>]]
           E == {e \in Entry : e.path \in VunitPaths}
<1>1. Len(Vunit) \in Nat /\ DOMAIN Vunit = 1..Len(Vunit) /\ \A i \in DOMAIN Vunit : Vunit[i] \in VunitSource
  BY ProjectFileAssumption
<1>2. \A i \in DOMAIN Vunit : Vunit[i] \in mine
  BY <1>1 DEF VunitPaths
<1>3. chosen \in Seq(Seq(mine))
  <2>1. ASSUME NEW i \in DOMAIN Vunit
        PROVE  (IF Vunit[i].type \in TypesOf(builder) THEN <<Vunit[i]>> ELSE <<>>) \in Seq(mine)
    <3>1. Vunit[i] \in mine
      BY <1>2
    <3> HIDE DEF mine
    <3>2. <<Vunit[i]>> \in Seq(mine) /\ <<>> \in Seq(mine)
      BY <3>1
    <3>3. QED
      BY <3>2
  <2> HIDE DEF mine
  <2>2. QED
    BY <1>1, <2>1
<1>4. sources \in Seq(mine)
  BY <1>3, FlattenSeqOfSequences
<1>5. headers \in Seq(Paths) /\ \A i \in DOMAIN headers : headers[i] \in VunitPaths
  BY ProjectFileAssumption DEF VunitPaths, Range
<1>6. ASSUME NEW path \in Paths \cap VunitPaths, NEW library \in Libs \cup {None}, NEW flags \in Seq(Flag)
      PROVE  Made(path, library, flags) \in E
  BY DEF Entry, SourceFlags
<1>7. ASSUME NEW standard PROVE StandardFlags(builder, standard) \in Seq(Flag)
  <2>1. CASE builder \in {"msim", "ghdl"} /\ standard \in {"93", "2002", "2008"}
    <3>1. [tool |-> builder, std |-> standard] \in Flag
      BY <2>1, ProjectFileAssumption DEF StandardFlag
    <3>2. QED
      BY <2>1, <3>1 DEF StandardFlags
  <2>2. QED
    BY <2>1 DEF StandardFlags
<1> DEFINE first == [i \in DOMAIN sources |->
                       Made(sources[i].path, sources[i].library, StandardFlags(builder, sources[i].standard))]
           second == [i \in DOMAIN headers |-> Made(headers[i], None, <<>>)]
<1>8. VunitEntries(builder) = IF builder = "fallback" THEN <<>> ELSE first \o second
  BY DEF VunitEntries
<1> HIDE DEF sources, headers, Made, E
<1>9. first \in Seq(E)
  <2>1. \A i \in DOMAIN sources : sources[i].path \in Paths \cap VunitPaths /\ sources[i].library \in Libs
    BY <1>4 DEF VunitSource
  <2>2. DOMAIN sources = 1..Len(sources) /\ Len(sources) \in Nat
    BY <1>4
  <2>3. QED
    BY <1>6, <1>7, <2>1, <2>2
<1>10. second \in Seq(E)
  <2>1. \A i \in DOMAIN headers : headers[i] \in Paths \cap VunitPaths
    BY <1>5
  <2>2. DOMAIN headers = 1..Len(headers) /\ Len(headers) \in Nat
    BY <1>5
  <2>3. \A i \in DOMAIN headers : Made(headers[i], None, <<>>) \in E
    <3>1. <<>> \in Seq(Flag) /\ None \in Libs \cup {None}
      OBVIOUS
    <3>2. QED
      BY <1>6, <2>1, <3>1
  <2>4. QED
    BY <2>2, <2>3
<1> HIDE DEF first, second
<1>11. VunitEntries(builder) \in Seq(E)
  BY <1>8, <1>9, <1>10
<1>12. QED
  BY <1>11 DEF E

(* What a project file of the older format may say: the builder, and a     *)
(* configuration that lists sources.                                       *)
Parsable == {config \in Configuration : config.sources \in Seq(Listing)}
ReadType == [builder : STRING \cup {None}, config : Parsable]

(* A line leaves a configuration, or refuses the file. *)
LEMMA WithLineReads ==
  ASSUME NEW so_far \in ReadType \cup {Refused}, NEW line, IsLine(line)
  PROVE  WithLine(so_far, line) \in ReadType \cup {Refused}
<1> DEFINE FlagsOf == [single : Seq(Flag), dependencies : Seq(Flag), global : Seq(Flag)]
<1>1. CASE so_far = Refused
  BY <1>1 DEF WithLine
<1>2. CASE so_far # Refused
  <2>1. so_far \in ReadType
    BY <1>2
  <2>2. so_far.config \in Configuration /\ so_far.config.sources \in Seq(Listing)
    BY <2>1 DEF ReadType, Parsable
  <2>3. CASE line.kind = "parameter"
    <3>1. WithLine(so_far, line) = WithParameter(so_far, line)
      BY <1>2, <2>3 DEF WithLine
    <3>2. CASE line.parameter = "target_dir"
      BY <2>1, <3>1, <3>2 DEF WithParameter, ScopeOf
    <3>3. CASE line.parameter = "builder"
      <4>1. line.value \in STRING
        BY <2>3, <3>3 DEF IsLine
      <4>2. WithParameter(so_far, line) = [so_far EXCEPT !.builder = line.value]
        BY <3>3 DEF WithParameter, ScopeOf
      <4>3. [so_far EXCEPT !.builder = line.value] \in ReadType
        BY <2>1, <4>1 DEF ReadType
      <4>4. QED
        BY <3>1, <4>2, <4>3
    <3>4. CASE line.parameter \notin {"target_dir", "builder"}
      <4> DEFINE scope == ScopeOf(line.parameter)
                 flags == so_far.config.flags
                 new == [flags EXCEPT ![line.language][scope] = line.value]
      <4>1. CASE scope # None /\ line.language \in Types
        <5>1. /\ line.parameter \in {"single_build_flags", "global_build_flags", "dependencies_build_flags"}
              /\ scope \in {"single", "global", "dependencies"}
          BY <4>1 DEF ScopeOf
        <5>2. line.value \in Seq(Flag)
          BY <2>3, <5>1 DEF IsLine
        <5>3. flags \in [Types -> FlagsOf]
          BY <2>2 DEF Configuration
        <5>4. WithParameter(so_far, line) = [so_far EXCEPT !.config.flags[line.language][scope] = line.value]
          BY <3>4, <4>1 DEF WithParameter
        <5> HIDE DEF scope, flags
        <5>5. [flags[line.language] EXCEPT ![scope] = line.value] \in FlagsOf
          BY <4>1, <5>1, <5>2, <5>3
        <5>6. new = [flags EXCEPT ![line.language] = [flags[line.language] EXCEPT ![scope] = line.value]]
          BY <4>1, <5>3
        <5> HIDE DEF new, FlagsOf
        <5>7. new \in [Types -> FlagsOf]
          BY <4>1, <5>3, <5>5, <5>6
        <5>8. [so_far.config EXCEPT !.flags = new] \in Parsable
          BY <2>2, <5>7 DEF Configuration, FlagsOf, Parsable
        <5>9. WithParameter(so_far, line) = [so_far EXCEPT !.config = [so_far.config EXCEPT !.flags = new]]
          BY <2>1, <2>2, <5>4 DEF new, flags, ReadType, Configuration
        <5>10. [so_far EXCEPT !.config = [so_far.config EXCEPT !.flags = new]] \in ReadType
          BY <2>1, <5>8 DEF ReadType
        <5>11. QED
          BY <3>1, <5>9, <5>10
      <4>2. CASE ~ (scope # None /\ line.language \in Types)
        BY <3>1, <3>4, <4>2 DEF WithParameter
      <4>3. QED
        BY <4>1, <4>2
    <3>5. QED
      BY <3>2, <3>3, <3>4
  <2>4. CASE line.kind = "source"
    <3> DEFINE matches == SetToSeq(line.matches)
               added == [i \in DOMAIN matches |->
                           [matches |-> {matches[i]}, library |-> line.library, flags |-> line.flags]]
    <3>1. WithLine(so_far, line) = [so_far EXCEPT !.config.sources = @ \o added]
      BY <1>2, <2>4 DEF WithLine, WithSources
    <3>2. line.matches \in SUBSET Paths /\ line.library \in Libs \cup {None} /\ line.flags \in Seq(Flag)
      BY <2>4 DEF IsLine
    <3>3. matches \in Seq(line.matches)
      BY <3>2, ConfigFilesAssumption, FS_Subset, SetToSeqOfASet
    <3> HIDE DEF matches
    <3>4. \A i \in DOMAIN matches : added[i] \in Listing
      BY <3>2, <3>3 DEF Listing
    <3>5. added \in Seq(Listing)
      BY <3>3, <3>4
    <3> HIDE DEF added
    <3>6. so_far.config.sources \o added \in Seq(Listing)
      BY <2>2, <3>5
    <3> DEFINE sources == so_far.config.sources \o added
    <3>7. WithLine(so_far, line) = [so_far EXCEPT !.config = [so_far.config EXCEPT !.sources = sources]]
      BY <2>1, <2>2, <3>1 DEF ReadType, Configuration
    <3> HIDE DEF sources
    <3>8. [so_far.config EXCEPT !.sources = sources] \in Parsable
      BY <2>2, <3>6 DEF Configuration, Parsable, sources
    <3>9. QED
      BY <2>1, <3>7, <3>8 DEF ReadType
  <2>5. CASE line.kind = "blank"
    BY <2>1, <2>5 DEF WithLine
  <2>6. QED
    BY <2>3, <2>4, <2>5 DEF IsLine
<1>3. QED
  BY <1>1, <1>2

(* ConfigParser.parse yields a configuration, or refuses the file. *)
LEMMA ParsedPrj ==
  ASSUME NEW lines, lines \in Seq(Range(lines)), \A line \in Range(lines) : IsLine(line)
  PROVE  ParsePrj(lines) \in ReadType \cup {Refused}
<1> DEFINE N == Len(lines)
           D == ReadType \cup {Refused}
           Is(f) == f = [n \in 0..N |-> IF n = 0 THEN NothingRead ELSE WithLine(f[n - 1], lines[n])]
           after == CHOOSE f : Is(f)
<1>1. N \in Nat
  OBVIOUS
<1>2. \A n \in 1..N : IsLine(lines[n])
  OBVIOUS
<1>3. NothingRead \in D
  <2>1. NothingRead.config \in Parsable
    <3> DEFINE flags == [t \in Types |-> NoFlags]
    <3>1. NothingRead.config = [include |-> <<>>, sources |-> <<>>, flags |-> flags]
      BY DEF NothingRead
    <3>2. flags \in [Types -> [single : Seq(Flag), dependencies : Seq(Flag), global : Seq(Flag)]]
      BY NothingListed
    <3> HIDE DEF flags
    <3>3. <<>> \in Seq(Item) /\ <<>> \in Seq(Listing)
      OBVIOUS
    <3>4. NothingRead.config \in Configuration
      BY <3>1, <3>2, <3>3 DEF Configuration
    <3>5. NothingRead.config.sources \in Seq(Listing)
      BY <3>1, <3>3
    <3>6. QED
      BY <3>4, <3>5 DEF Parsable
  <2>2. QED
    BY <2>1 DEF NothingRead, ReadType
<1> DEFINE step == [x \in D \X (1..N) |-> WithLine(x[1], lines[x[2]])]
<1>4. \A x \in D, n \in 1..N : WithLine(x, lines[n]) \in D
  BY <1>2, WithLineReads
<1>5. ParsePrj(lines) = after[N]
  BY DEF ParsePrj
<1> HIDE DEF N, D
<1>6. step \in [D \X (1..N) -> D] /\ \A x \in D, n \in 1..N : step[<<x, n>>] = WithLine(x, lines[n])
  BY <1>4
<1> HIDE DEF step
<1>7. PICK g \in [0..N -> D] : Follow(g, NothingRead, N, step)
  BY <1>1, <1>3, <1>6, Recursion
<1>8. ASSUME NEW n \in 0..N PROVE g[n] = IF n = 0 THEN NothingRead ELSE WithLine(g[n - 1], lines[n])
  <2>1. CASE n = 0
    BY <1>7, <2>1 DEF Follow
  <2>2. CASE n # 0
    <3>1. n \in 1..N /\ n - 1 \in 0..N
      BY <1>1, <2>2
    <3>2. g[n] = step[<<g[n - 1], n>>] /\ g[n - 1] \in D
      BY <1>7, <3>1 DEF Follow
    <3>3. QED
      BY <1>6, <2>2, <3>1, <3>2
  <2>3. QED
    BY <2>1, <2>2
<1>9. g = [n \in 0..N |-> g[n]]
  BY <1>7
<1>10. Is(g)
  BY <1>8, <1>9
<1>11. Is(after)
  BY <1>10
<1> HIDE DEF after
<1> DEFINE S == {n \in 0..N : after[n] \in D}
<1>12. 0 \in S
  BY <1>1, <1>3, <1>11
<1>13. ASSUME NEW n \in 1..N, n - 1 \in S PROVE n \in S
  BY <1>1, <1>4, <1>11, <1>13
<1> HIDE DEF S
<1>14. \A n \in 0..N : n \in S
  BY <1>1, <1>12, <1>13, Induction
<1>15. QED
  BY <1>1, <1>5, <1>14 DEF D, S

(* A project file of any format is refused or read as a configuration. *)
LEMMA ReadFiles ==
  ASSUME NEW file, IsFile(file)
  PROVE  ReadFile(file) = Refused
         \/ ReadFile(file).config \in Configuration
<1>1. CASE file.format = "json"
  BY <1>1 DEF ReadFile, IsFile
<1>2. CASE file.format = "prj"
  <2>1. ReadFile(file) = ParsePrj(file.lines) /\ file.lines \in Seq(Range(file.lines))
        /\ \A line \in Range(file.lines) : IsLine(line)
    BY <1>2 DEF ReadFile, IsFile
  <2>2. ReadFile(file) \in ReadType \cup {Refused}
    BY <2>1, ParsedPrj
  <2>3. QED
    BY <2>2 DEF ReadType, Parsable
<1>3. CASE file.format = "absent"
  BY <1>3 DEF ReadFile
<1>4. QED
  BY <1>1, <1>2, <1>3 DEF IsFile

(* Every version of the project file expands to entries. *)
LEMMA RootEntriesAreEntries ==
  ASSUME NEW version \in DOMAIN RootFiles
  PROVE  /\ RootEntries[version] \in Seq(Entry)
         /\ Reads[version] # Refused => Reads[version].config \in Configuration
<1>1. IsFile(RootFiles[version])
  BY ProjectAssumption DEF Range
<1>2. Reads[version] = Refused \/ Reads[version].config \in Configuration
  BY <1>1, ReadFiles DEF Reads
<1>3. Root \in Folders
  BY ProjectAssumption
<1>4. CASE Reads[version] = Refused
  BY <1>4 DEF RootEntries
<1>5. CASE Reads[version] # Refused
  <2>1. Expand(Reads[version].config, Root) \in Seq(Entry)
    BY <1>2, <1>3, <1>5, ExpandedEntries
  <2>2. QED
    BY <1>2, <1>5, <2>1 DEF RootEntries
<1>6. QED
  BY <1>4, <1>5

-----------------------------------------------------------------------------
(* What holds of a database whatever calls have been made of it.           *)

(* A dependency that names a library has been resolved to that one. *)
WrittenKept(d) ==
  \A p \in Paths : \A use \in d.deps[p] : use.written \in Libs => use.library = use.written

(* A cached count has every library that is written with the name. *)
WrittenCounted(d) ==
  \A n \in Names : d.c_referred[n] # Miss =>
    \A p \in Paths : \A use \in d.deps[p] :
      (use.name = n /\ use.written \in Libs) => d.c_referred[n][use.written] > 0

(* No library is named with a unit of p. *)
Unnamed(d, p) ==
  ~ \E q \in Paths : \E use \in d.deps[q] : use.written \in Libs /\ use.name \in d.units[p]

(* No library is remembered as None of a path that one is named with. *)
NoneUnnamed(d) == \A p \in Paths : d.c_library[p] = None => Unnamed(d, p)

(* Sources that name a unit with several remembered owners were told. *)
DuplicatesTold(d) ==
  \A l \in Libs, n \in Names :
    (d.c_defining[<<l, n>>] # Miss /\ Cardinality(d.c_defining[<<l, n>>] \ Temporary) > 1) =>
       \A q \in Paths : \A use \in d.deps[q] :
          (use.written = l /\ use.name = n) =>
             [kind |-> "DependencyNotUnique", about |-> n] \in d.diags[q]

(* Cached libraries are those in force, but for some paths. *)
CachedAgree(d, but) == \A p \in Paths \ but : d.c_library[p] \in {Miss, d.library[p]}

(* What calls rely on, and keep. *)
Sound(d, but) ==
  /\ d \in Database
  /\ WrittenKept(d) /\ WrittenCounted(d) /\ NoneUnnamed(d) /\ DuplicatesTold(d)
  /\ CachedAgree(d, but)

(* What calls make of a database while the files are as v says. *)
Follows(d, e, v) ==
  /\ e.paths \subseteq d.paths
  /\ \A p \in d.paths : v[p] # Gone => p \in e.paths
  /\ \A p \in e.paths : /\ e.flags[p] = d.flags[p]
                        /\ d.library[p] # None => e.library[p] = d.library[p]
                        /\ e.stamp[p] = Gone => d.stamp[p] = Gone
  /\ \A p \in Paths : e.stamp[p] \in {Gone, d.stamp[p], v[p]}

(* A version of each source, as in disk. *)
Versions(v) == v \in [Paths -> Nat] /\ \A p \in Paths : v[p] \in {Gone} \cup DOMAIN Texts[p]

(* Follows is reflexive, *)
LEMMA FollowsItself == ASSUME NEW d, d \in Database, NEW v PROVE Follows(d, d, v)
BY DEF Follows, Database

(* and transitive: calls may follow one another. *)
LEMMA FollowsTransitive ==
  ASSUME NEW d, NEW e, NEW f, NEW v, d \in Database, e \in Database, Follows(d, e, v), Follows(e, f, v)
  PROVE  Follows(d, f, v)
<1>1. f.paths \subseteq d.paths /\ \A p \in d.paths : v[p] # Gone => p \in f.paths
  BY DEF Follows
<1>2. ASSUME NEW p \in f.paths
      PROVE  /\ f.flags[p] = d.flags[p]
             /\ d.library[p] # None => f.library[p] = d.library[p]
             /\ f.stamp[p] = Gone => d.stamp[p] = Gone
  BY DEF Follows
<1>3. \A p \in Paths : f.stamp[p] \in {Gone, d.stamp[p], v[p]}
  BY DEF Follows
<1>4. QED
  BY <1>1, <1>2, <1>3 DEF Follows

(* Nothing is cached. *)
Uncached(e) ==
  /\ e.c_library = EmptyDatabase.c_library /\ e.c_referred = EmptyDatabase.c_referred
  /\ e.c_defining = EmptyDatabase.c_defining

(* Without a cache all that is said of caches holds. *)
LEMMA SoundUncached ==
  ASSUME NEW d, NEW but, d \in Database, WrittenKept(d), Uncached(d)
  PROVE  Sound(d, but)
<1>1. \A p \in Paths : d.c_library[p] = Miss
  BY DEF EmptyDatabase, Uncached
<1>2. \A n \in Names : d.c_referred[n] = Miss
  BY DEF EmptyDatabase, Uncached
<1>3. \A l \in Libs, n \in Names : d.c_defining[<<l, n>>] = Miss
  BY DEF EmptyDatabase, Known, Uncached
<1>4. CachedAgree(d, but) /\ NoneUnnamed(d)
  BY <1>1, LibrariesAssumption DEF CachedAgree, NoneUnnamed
<1>5. QED
  BY <1>2, <1>3, <1>4 DEF Sound, WrittenCounted, DuplicatesTold

(* The caches of an empty database are caches. *)
LEMMA EmptyCaches ==
  /\ EmptyDatabase.c_library \in [Paths -> Known \cup {None, Miss}]
  /\ EmptyDatabase.c_referred \in [Names -> [Known -> Nat] \cup {Miss}]
  /\ EmptyDatabase.c_defining \in [(Known \cup {None}) \X Names -> (SUBSET Paths) \cup {Miss}]
BY DEF EmptyDatabase

(* An empty database is sound. *)
LEMMA EmptyDatabaseIsSound == ASSUME NEW but PROVE Sound(EmptyDatabase, but)
<1>1. EmptyDatabase \in Database
  BY EmptyCaches DEF EmptyDatabase, Database, Gone
<1>2. WrittenKept(EmptyDatabase)
  BY DEF EmptyDatabase, WrittenKept
<1>3. QED
  BY <1>1, <1>2, SoundUncached DEF Uncached

(* What a parser finds in a text, and the dependencies made of it. *)
LEMMA TextTypes ==
  ASSUME NEW v, Versions(v), NEW p \in Paths, v[p] # Gone
  PROVE  /\ Texts[p][v[p]] \in Text
         /\ DependenciesIn(Texts[p][v[p]]) \in SUBSET Dependency
         /\ \A use \in DependenciesIn(Texts[p][v[p]]) : use.library = use.written
<1>1. Texts[p][v[p]] \in Text
  BY LibrariesAssumption DEF Versions
<1>2. Texts[p][v[p]].uses \in SUBSET ((Libs \cup {None}) \X Names)
  BY <1>1 DEF Text
<1>3. ASSUME NEW use \in (Libs \cup {None}) \X Names
      PROVE  [library |-> use[1], name |-> use[2], written |-> use[1]] \in Dependency
  BY DEF Dependency, Known
<1>4. QED
  BY <1>1, <1>2, <1>3 DEF DependenciesIn

(* What _parseSource leaves of the database. *)
IsParsed(d, e, v, p) ==
  /\ e.paths = d.paths /\ e.library = d.library /\ e.flags = d.flags /\ e.diags = d.diags
  /\ e.stamp = [d.stamp EXCEPT ![p] = v[p]]
  /\ e.units = [d.units EXCEPT ![p] = Texts[p][v[p]].units]
  /\ e.deps = [d.deps EXCEPT ![p] = DependenciesIn(Texts[p][v[p]])]

(* _parseSource, attribute by attribute. *)
LEMMA ParsedFields ==
  ASSUME NEW d \in Database, NEW v, Versions(v), NEW p \in Paths, v[p] # Gone,
         NEW e, e = Parsed(d, v, p)
  PROVE  e \in Database /\ IsParsed(d, e, v, p) /\ Uncached(e)
<1> DEFINE text == Texts[p][v[p]]
           deps == DependenciesIn(text)
<1>1. text.units \in SUBSET Names /\ deps \in SUBSET Dependency /\ v[p] \in Nat
  BY TextTypes DEF Text, Versions
<1>2. e = CachesCleared([d EXCEPT !.stamp[p] = v[p], !.units[p] = text.units, !.deps[p] = deps])
  BY DEF Parsed
<1> HIDE DEF text, deps
<1>3. /\ e.paths = d.paths /\ e.library = d.library /\ e.flags = d.flags /\ e.diags = d.diags
      /\ e.inferred = d.inferred
      /\ e.stamp = [d.stamp EXCEPT ![p] = v[p]]
      /\ e.units = [d.units EXCEPT ![p] = text.units]
      /\ e.deps = [d.deps EXCEPT ![p] = deps]
      /\ e.c_library = EmptyDatabase.c_library /\ e.c_referred = EmptyDatabase.c_referred
      /\ e.c_defining = EmptyDatabase.c_defining
  BY <1>2 DEF CachesCleared, Database
<1>4. e \in Database
  <2>1. e.stamp \in [Paths -> Nat] /\ e.units \in [Paths -> SUBSET Names]
        /\ e.deps \in [Paths -> SUBSET Dependency]
    BY <1>1, <1>3 DEF Database
  <2>2. e = [d EXCEPT !.stamp = e.stamp, !.units = e.units, !.deps = e.deps,
                      !.c_library = e.c_library, !.c_referred = e.c_referred, !.c_defining = e.c_defining]
    BY <1>2 DEF CachesCleared, Database
  <2>3. QED
    BY <1>3, <2>1, <2>2, EmptyCaches DEF Database
<1>5. QED
  BY <1>3, <1>4 DEF text, deps, IsParsed, Uncached

(* _parseSource keeps a database sound: it clears the caches. *)
LEMMA ParsedIsSound ==
  ASSUME NEW d, NEW but, Sound(d, but), NEW v, Versions(v), NEW p \in Paths, v[p] # Gone,
         NEW e, e = Parsed(d, v, p)
  PROVE  Sound(e, but) /\ Follows(d, e, v) /\ Uncached(e)
<1>1. d \in Database /\ WrittenKept(d)
  BY DEF Sound
<1>2. e \in Database /\ IsParsed(d, e, v, p) /\ Uncached(e)
  BY <1>1, ParsedFields
<1>3. WrittenKept(e)
  BY <1>1, <1>2, TextTypes DEF WrittenKept, Database, IsParsed
<1>4. Sound(e, but)
  BY <1>2, <1>3, SoundUncached DEF Uncached
<1>5. Follows(d, e, v)
  BY <1>1, <1>2 DEF Follows, Database, IsParsed
<1>6. QED
  BY <1>2, <1>4, <1>5

(* A record with the fields of a database. *)
IsWhole(e) ==
  e = [paths |-> e.paths, stamp |-> e.stamp, library |-> e.library, flags |-> e.flags,
       deps |-> e.deps, units |-> e.units, inferred |-> e.inferred, diags |-> e.diags,
       c_library |-> e.c_library, c_referred |-> e.c_referred, c_defining |-> e.c_defining]

(* removeSource keeps a database sound. *)
LEMMA RemovedIsSound ==
  ASSUME NEW d, NEW but, Sound(d, but), NEW v, Versions(v), NEW p \in Paths, v[p] = Gone,
         NEW e, e = Removed(d, p)
  PROVE  Sound(e, but) /\ Follows(d, e, v) /\ (e = d \/ Uncached(e))
<1>1. d \in Database /\ WrittenKept(d)
  BY DEF Sound
<1>2. CASE ~ Holds(d, p)
  BY <1>1, <1>2, FollowsItself DEF Removed
<1>3. CASE Holds(d, p)
  <2>1. /\ e.paths = d.paths \ {p} /\ e.inferred = d.inferred
        /\ e.units = [d.units EXCEPT ![p] = {}] /\ e.stamp = [d.stamp EXCEPT ![p] = Gone]
        /\ e.library = [d.library EXCEPT ![p] = None] /\ e.flags = [d.flags EXCEPT ![p] = None]
        /\ e.deps = [d.deps EXCEPT ![p] = {}] /\ e.diags = [d.diags EXCEPT ![p] = {}]
        /\ Uncached(e)
    BY <1>1, <1>3 DEF Removed, CachesCleared, Database, Uncached
  <2>2. IsWhole(e)
    BY <1>1, <1>3 DEF Removed, CachesCleared, Database, IsWhole
  <2>3. e \in Database
    <3>1. /\ e.paths \in SUBSET Paths /\ e.inferred \in SUBSET Paths
          /\ e.stamp \in [Paths -> Nat] /\ e.library \in [Paths -> Known \cup {None}]
          /\ e.flags \in [Paths -> SourceFlags \cup {None}]
          /\ e.deps \in [Paths -> SUBSET Dependency] /\ e.units \in [Paths -> SUBSET Names]
          /\ e.diags \in [Paths -> SUBSET Diagnostic]
      BY <1>1, <2>1 DEF Database, Gone
    <3>2. QED
      BY <2>1, <2>2, <3>1, EmptyCaches DEF Database, Uncached, IsWhole
  <2>4. WrittenKept(e)
    BY <1>1, <2>1 DEF WrittenKept, Database
  <2>5. Sound(e, but)
    BY <2>1, <2>3, <2>4, SoundUncached
  <2>6. Follows(d, e, v)
    BY <1>1, <2>1 DEF Follows, Database
  <2>7. QED
    BY <2>1, <2>5, <2>6
<1>4. QED
  BY <1>2, <1>3

(* So does _parseSourceIfNeeded. *)
LEMMA LookedIsSound ==
  ASSUME NEW d, NEW but, Sound(d, but), NEW v, Versions(v), NEW p \in Paths,
         NEW e, e = Looked(d, v, p)
  PROVE  Sound(e, but) /\ Follows(d, e, v) /\ (e = d \/ Uncached(e))
<1>1. d \in Database
  BY DEF Sound
<1>2. CASE v[p] = Gone
  <2>1. e = Removed(d, p)
    BY <1>2 DEF Looked
  <2>2. QED
    BY <1>2, <2>1, RemovedIsSound
<1>3. CASE v[p] # Gone /\ d.stamp[p] = v[p]
  BY <1>1, <1>3, FollowsItself DEF Looked
<1>4. CASE v[p] # Gone /\ d.stamp[p] # v[p]
  <2>1. e = Parsed(d, v, p)
    BY <1>4 DEF Looked
  <2>2. QED
    BY <1>4, <2>1, ParsedIsSound
<1>5. QED
  BY <1>2, <1>3, <1>4

(* What getting another library leaves of the database. *)
IsUpdated(d, e, p, library) ==
  /\ e.paths = d.paths /\ e.stamp = d.stamp /\ e.flags = d.flags /\ e.units = d.units
  /\ e.inferred = d.inferred /\ e.diags = d.diags
  /\ e.c_library = d.c_library /\ e.c_referred = d.c_referred /\ e.c_defining = d.c_defining
  /\ e.library = [d.library EXCEPT ![p] = library]

(* The dependencies of e are those of d with, possibly, another library. *)
SameUses(d, e) ==
  \A q \in Paths : \A use \in e.deps[q] :
    \E old \in d.deps[q] :
      /\ use.written = old.written /\ use.name = old.name
      /\ old.library # None => use.library = old.library

(* _updatePathLibrary, attribute by attribute. *)
LEMMA UpdatedFields ==
  ASSUME NEW d \in Database, NEW p \in Paths, NEW library \in Known,
         NEW e, e = LibraryUpdated(d, p, library)
  PROVE  e \in Database /\ IsUpdated(d, e, p, library) /\ SameUses(d, e)
<1>1. CASE d.library[p] = library
  <2>1. e = d
    BY <1>1 DEF LibraryUpdated
  <2>2. d.library = [d.library EXCEPT ![p] = library]
    BY <1>1 DEF Database
  <2>3. QED
    BY <2>1, <2>2 DEF IsUpdated, SameUses
<1>2. CASE d.library[p] # library
  <2> DEFINE With(use) == IF use.library = None THEN [use EXCEPT !.library = library] ELSE use
             deps == {With(use) : use \in d.deps[p]}
  <2>1. ASSUME NEW use \in d.deps[p]
        PROVE  /\ With(use) \in Dependency /\ With(use).written = use.written /\ With(use).name = use.name
               /\ use.library # None => With(use).library = use.library
    <3>1. use \in Dependency
      BY DEF Database
    <3>2. QED
      BY <3>1 DEF Dependency
  <2>2. e = [d EXCEPT !.library[p] = library, !.deps[p] = deps]
    BY <1>2 DEF LibraryUpdated
  <2>3. deps \in SUBSET Dependency
    BY <2>1
  <2>4. \A use \in deps : \E old \in d.deps[p] :
          /\ use.written = old.written /\ use.name = old.name
          /\ old.library # None => use.library = old.library
    BY <2>1
  <2> HIDE DEF deps
  <2>5. IsUpdated(d, e, p, library) /\ e.deps = [d.deps EXCEPT ![p] = deps]
    BY <2>2 DEF Database, IsUpdated
  <2>6. e \in Database
    <3>1. IsWhole(e)
      BY <2>2 DEF Database, IsWhole
    <3>2. e.library \in [Paths -> Known \cup {None}] /\ e.deps \in [Paths -> SUBSET Dependency]
      BY <2>3, <2>5 DEF Database, IsUpdated
    <3>3. QED
      BY <2>5, <3>1, <3>2 DEF Database, IsUpdated, IsWhole
  <2>7. SameUses(d, e)
    BY <2>4, <2>5 DEF SameUses, Database
  <2>8. QED
    BY <2>5, <2>6, <2>7
<1>3. QED
  BY <1>1, <1>2

(* Where nothing is cached of its library, a path may get another one.     *)
LEMMA UpdatedIsSound ==
  ASSUME NEW d, NEW but, Sound(d, but), NEW p \in Paths, NEW library \in Known,
         d.c_library[p] = Miss, NEW e, e = LibraryUpdated(d, p, library)
  PROVE  Sound(e, but) /\ IsUpdated(d, e, p, library) /\ SameUses(d, e)
<1>1. d \in Database
  BY DEF Sound
<1>2. e \in Database /\ IsUpdated(d, e, p, library) /\ SameUses(d, e)
  BY <1>1, UpdatedFields
<1>3. WrittenKept(e)
  BY <1>2, LibrariesAssumption DEF Sound, WrittenKept, SameUses, Known
<1>4. WrittenCounted(e)
  BY <1>2 DEF Sound, WrittenCounted, SameUses, IsUpdated
<1>5. NoneUnnamed(e)
  BY <1>2 DEF Sound, NoneUnnamed, Unnamed, SameUses, IsUpdated
<1>6. DuplicatesTold(e)
  BY <1>2 DEF Sound, DuplicatesTold, SameUses, IsUpdated
<1>7. CachedAgree(e, but)
  BY <1>1, <1>2 DEF Sound, CachedAgree, IsUpdated, Database
<1>8. QED
  BY <1>2, <1>3, <1>4, <1>5, <1>6, <1>7 DEF Sound

-----------------------------------------------------------------------------
(* Libraries that are worked out.                                          *)

(* There are finitely many dependencies to count. *)
LEMMA UsesAreFinite ==
  ASSUME NEW d \in Database
  PROVE  IsFiniteSet(UNION {{p} \X d.deps[p] : p \in Paths})
<1>1. IsFiniteSet(Known) /\ IsFiniteSet(Libs \cup {None}) /\ IsFiniteSet(Known \cup {None})
  <2>1. IsFiniteSet(Libs)
    BY LibrariesAssumption
  <2>2. IsFiniteSet((Libs \cup {Work}) \cup {NotInProject}) /\ IsFiniteSet(Libs \cup {None})
    BY <2>1, FS_AddElement
  <2>3. Known = (Libs \cup {Work}) \cup {NotInProject}
    BY DEF Known
  <2>4. IsFiniteSet(Known)
    BY <2>2, <2>3
  <2>5. QED
    BY <2>2, <2>4, FS_AddElement
<1>2. IsFiniteSet(Dependency)
  <2> DEFINE P == ((Known \cup {None}) \X Names) \X (Libs \cup {None})
             f == [x \in P |-> [library |-> x[1][1], name |-> x[1][2], written |-> x[2]]]
  <2>1. IsFiniteSet((Known \cup {None}) \X Names)
    BY <1>1, LibrariesAssumption, FS_Product
  <2>2. IsFiniteSet(P)
    BY <1>1, <2>1, FS_Product
  <2>3. \A use \in Dependency : \E x \in P : f[x] = use
    <3> TAKE use \in Dependency
    <3> DEFINE x == <<<<use.library, use.name>>, use.written>>
    <3>1. x \in P /\ f[x] = use
      BY DEF Dependency
    <3>2. QED
      BY <3>1
  <2>4. f \in [P -> Dependency]
    BY DEF Dependency
  <2> HIDE DEF f, P
  <2>5. f \in Surjection(P, Dependency)
    BY <2>3, <2>4 DEF Surjection
  <2>6. QED
    BY <2>2, <2>5, FS_Surjection
<1>3. IsFiniteSet(Paths \X Dependency)
  BY <1>2, ConfigFilesAssumption, FS_Product
<1>4. UNION {{p} \X d.deps[p] : p \in Paths} \in SUBSET (Paths \X Dependency)
  BY DEF Database
<1>5. QED
  BY <1>3, <1>4, FS_Subset

(* A library that is named with a unit is counted for it, *)
LEMMA ReferredNowCounts ==
  ASSUME NEW d \in Database, NEW name
  PROVE  /\ ReferredNow(d, name) \in [Known -> Nat]
         /\ \A q \in Paths : \A use \in d.deps[q] :
              (use.name = name /\ use.library \in Libs) => ReferredNow(d, name)[use.library] > 0
<1> DEFINE all == UNION {{p} \X d.deps[p] : p \in Paths}
           uses == {u \in all : u[2].name = name}
           Library(p, use) == IF use.library # None THEN use.library
                              ELSE IF d.library[p] # None THEN d.library[p]
                              ELSE Work
           Of(l) == {u \in uses : Library(u[1], u[2]) = l}
<1>1. IsFiniteSet(all)
  BY UsesAreFinite
<1>2. ReferredNow(d, name) = [l \in Known |-> Cardinality(Of(l))]
  BY DEF ReferredNow
<1>3. \A q \in Paths : \A use \in d.deps[q] : <<q, use>> \in all
  OBVIOUS
<1> HIDE DEF all
<1>4. ASSUME NEW l PROVE IsFiniteSet(Of(l)) /\ Cardinality(Of(l)) \in Nat
  <2>1. Of(l) \in SUBSET all
    OBVIOUS
  <2> HIDE DEF Of
  <2>2. QED
    BY <1>1, <2>1, FS_Subset, FS_CardinalityType
<1>5. ASSUME NEW q \in Paths, NEW use \in d.deps[q], use.name = name, use.library \in Libs
      PROVE  ReferredNow(d, name)[use.library] > 0
  <2>1. use.library # None /\ use.library \in Known
    BY <1>5, LibrariesAssumption DEF Known
  <2>2. <<q, use>> \in Of(use.library)
    BY <1>3, <1>5, <2>1
  <2> HIDE DEF Of
  <2>3. Cardinality(Of(use.library)) # 0
    BY <1>4, <2>2, FS_EmptySet
  <2>4. QED
    BY <1>2, <1>4, <2>1, <2>3
<1> HIDE DEF Of
<1>6. QED
  BY <1>2, <1>4, <1>5

(* whether the count is made now or remembered, *)
LEMMA ReferredCounts ==
  ASSUME NEW d, NEW but, Sound(d, but), NEW n \in Names
  PROVE  /\ Referred(d, n) \in [Known -> Nat]
         /\ \A q \in Paths : \A use \in d.deps[q] :
              (use.name = n /\ use.written \in Libs) => Referred(d, n)[use.written] > 0
<1>1. d \in Database /\ WrittenKept(d) /\ WrittenCounted(d)
  BY DEF Sound
<1>2. CASE d.c_referred[n] # Miss
  <2>1. Referred(d, n) = d.c_referred[n]
    BY <1>2 DEF Referred
  <2>2. d.c_referred[n] \in [Known -> Nat]
    BY <1>1, <1>2 DEF Database
  <2>3. QED
    BY <1>1, <1>2, <2>1, <2>2 DEF WrittenCounted
<1>3. CASE d.c_referred[n] = Miss
  <2>1. Referred(d, n) = ReferredNow(d, n)
    BY <1>3 DEF Referred
  <2>2. \A q \in Paths : \A use \in d.deps[q] : use.written \in Libs => use.library = use.written
    BY <1>1 DEF WrittenKept
  <2>3. QED
    BY <1>1, <2>1, <2>2, ReferredNowCounts
<1>4. QED
  BY <1>2, <1>3

(* and in the sum over the units of a source. *)
LEMMA TimesNamedCounts ==
  ASSUME NEW d, NEW but, Sound(d, but), NEW names \in Seq(Names), NEW l \in Known
  PROVE  /\ TimesNamed(d, names, l) \in Nat
         /\ \A i \in DOMAIN names : Referred(d, names[i])[l] <= TimesNamed(d, names, l)
<1> DEFINE N == Len(names)
           Each(n) == Referred(d, names[n])[l]
           Is(f) == f = [n \in 0..N |-> IF n = 0 THEN 0 ELSE f[n - 1] + Each(n)]
           sum == CHOOSE f : Is(f)
           step == [x \in Nat \X (1..N) |-> x[1] + Each(x[2])]
<1>1. N \in Nat /\ DOMAIN names = 1..N
  OBVIOUS
<1>2. ASSUME NEW n \in 1..N PROVE Each(n) \in Nat
  <2>1. names[n] \in Names
    BY <1>1
  <2>2. Referred(d, names[n]) \in [Known -> Nat]
    BY <2>1, ReferredCounts
  <2>3. QED
    BY <2>2
<1>3. TimesNamed(d, names, l) = sum[N]
  BY DEF TimesNamed
<1> HIDE DEF N, Each
<1>4. step \in [Nat \X (1..N) -> Nat] /\ \A x \in Nat, n \in 1..N : step[<<x, n>>] = x + Each(n)
  BY <1>2
<1> HIDE DEF step
<1>5. PICK g \in [0..N -> Nat] : Follow(g, 0, N, step)
  BY <1>1, <1>4, Recursion
<1>6. ASSUME NEW n \in 0..N PROVE g[n] = IF n = 0 THEN 0 ELSE g[n - 1] + Each(n)
  <2>1. CASE n = 0
    BY <1>5, <2>1 DEF Follow
  <2>2. CASE n # 0
    <3>1. n \in 1..N /\ n - 1 \in 0..N
      BY <1>1, <2>2
    <3>2. g[n] = step[<<g[n - 1], n>>] /\ g[n - 1] \in Nat
      BY <1>5, <3>1 DEF Follow
    <3>3. QED
      BY <1>4, <2>2, <3>1, <3>2
  <2>3. QED
    BY <2>1, <2>2
<1>7. g = [n \in 0..N |-> g[n]]
  BY <1>5
<1>8. Is(g)
  BY <1>6, <1>7
<1>9. Is(sum)
  BY <1>8
<1> HIDE DEF sum
<1> DEFINE S == {n \in 0..N : sum[n] \in Nat /\ \A i \in 1..n : Each(i) <= sum[n]}
<1>10. 0 \in S
  BY <1>1, <1>9
<1>11. ASSUME NEW n \in 1..N, n - 1 \in S PROVE n \in S
  <2>1. sum[n - 1] \in Nat /\ \A i \in 1..(n - 1) : Each(i) <= sum[n - 1]
    BY <1>11
  <2>2. sum[n] = sum[n - 1] + Each(n)
    BY <1>1, <1>9
  <2>3. ASSUME NEW i \in 1..n PROVE Each(i) <= sum[n]
    <3>1. i \in 1..N /\ Each(i) \in Nat /\ Each(n) \in Nat /\ (i = n \/ i \in 1..(n - 1))
      BY <1>1, <1>2
    <3>2. QED
      BY <2>1, <2>2, <3>1
  <2>4. sum[n] \in Nat
    BY <1>2, <2>1, <2>2
  <2>5. QED
    BY <2>3, <2>4
<1> HIDE DEF S
<1>12. \A n \in 0..N : n \in S
  BY <1>1, <1>10, <1>11, Induction
<1>13. sum[N] \in Nat /\ \A i \in 1..N : Each(i) <= sum[N]
  BY <1>1, <1>12 DEF S
<1>14. QED
  BY <1>1, <1>3, <1>13 DEF Each

(* What counting uses leaves of the database. *)
IsCounted(d, e) ==
  /\ e.paths = d.paths /\ e.stamp = d.stamp /\ e.flags = d.flags /\ e.units = d.units
  /\ e.library = d.library /\ e.deps = d.deps
  /\ e.c_library = d.c_library /\ e.c_defining = d.c_defining
  /\ \A q \in Paths : d.diags[q] \subseteq e.diags[q]

(* A diagnostic more changes nothing else. *)
LEMMA DiagnosedFields ==
  ASSUME NEW d \in Database, NEW p \in Paths, NEW kind \in {"PathNotInProjectFile", "PathLibraryIsNotUnique"},
         NEW e, e = Diagnosed(d, p, kind, None)
  PROVE  e \in Database /\ IsCounted(d, e) /\ e.c_referred = d.c_referred
<1>1. [kind |-> kind, about |-> None] \in Diagnostic
  BY DEF Diagnostic
<1> DEFINE diag == [kind |-> kind, about |-> None]
<1>2. e = [d EXCEPT !.diags[p] = @ \cup {diag}]
  BY DEF Diagnosed
<1> HIDE DEF diag
<1>3. IsWhole(e) /\ e.inferred = d.inferred /\ e.c_referred = d.c_referred
  BY <1>2 DEF Database, IsWhole
<1>4. IsCounted(d, e)
  BY <1>2 DEF Database, IsCounted
<1>5. e.diags \in [Paths -> SUBSET Diagnostic]
  BY <1>1, <1>2 DEF Database, diag
<1>6. QED
  BY <1>3, <1>4, <1>5 DEF Database, IsWhole, IsCounted

(* A diagnostic more, or uses counted, changes nothing of what holds. *)
LEMMA CountedIsSound ==
  ASSUME NEW d, NEW but, Sound(d, but), NEW e \in Database, IsCounted(d, e),
         WrittenCounted(e)
  PROVE  Sound(e, but)
<1>1. WrittenKept(e)
  BY DEF Sound, WrittenKept, IsCounted
<1>2. NoneUnnamed(e)
  BY DEF Sound, NoneUnnamed, Unnamed, IsCounted
<1>3. DuplicatesTold(e)
  BY DEF Sound, DuplicatesTold, IsCounted
<1>4. CachedAgree(e, but)
  BY DEF Sound, CachedAgree, IsCounted
<1>5. QED
  BY <1>1, <1>2, <1>3, <1>4 DEF Sound

(* getLibrary infers None of a path only if no library is written with a   *)
(* unit of it (database.py:525-549).                                       *)
LEMMA InferredIsSound ==
  ASSUME NEW d, NEW but, Sound(d, but), NEW p \in Paths, NEW found \in Inferences(d, p)
  PROVE  /\ Sound(found.db, but) /\ IsCounted(d, found.db)
         /\ found.ans \in Known \cup {None}
         /\ found.ans = None => Unnamed(d, p)
<1> DEFINE counted == [d EXCEPT !.c_referred = [n \in Names |-> IF n \in d.units[p] THEN Referred(d, n) ELSE @[n]],
                                !.inferred = @ \cup {p}]
           names == SetToSeq(d.units[p])
           Count(l) == TimesNamed(d, names, l)
           named == {l \in Known \ {Work} : Count(l) > 0}
           most == {l \in named : \A other \in named : Count(l) >= Count(other)}
           diagnosed == IF Cardinality(named) = 1 THEN counted
                        ELSE Diagnosed(counted, p, "PathLibraryIsNotUnique", None)
<1>1. d \in Database /\ WrittenKept(d) /\ WrittenCounted(d)
  BY DEF Sound
<1>2. d.units[p] \in SUBSET Names
  BY <1>1 DEF Database
<1>3. \/ named = {} /\ found = [db |-> counted, ans |-> None]
      \/ named # {} /\ \E l \in most : found = [db |-> diagnosed, ans |-> l]
  BY DEF Inferences
<1>4. counted \in Database /\ IsCounted(d, counted) /\ Sound(counted, but)
  <2> DEFINE referred == [n \in Names |-> IF n \in d.units[p] THEN Referred(d, n) ELSE d.c_referred[n]]
  <2>1. counted = [d EXCEPT !.c_referred = referred, !.inferred = @ \cup {p}]
    OBVIOUS
  <2>2. \A n \in Names : Referred(d, n) \in [Known -> Nat]
    BY ReferredCounts
  <2>3. referred \in [Names -> [Known -> Nat] \cup {Miss}]
    BY <1>1, <2>2 DEF Database
  <2>4. \A n \in Names : referred[n] = Referred(d, n) \/ referred[n] = d.c_referred[n]
    OBVIOUS
  <2> HIDE DEF referred, counted
  <2>5. IsWhole(counted) /\ counted.c_referred = referred /\ counted.inferred = d.inferred \cup {p}
    BY <1>1, <2>1 DEF Database, IsWhole
  <2>6. IsCounted(d, counted) /\ counted.diags = d.diags
    BY <1>1, <2>1 DEF Database, IsCounted
  <2>7. counted \in Database
    BY <1>1, <2>3, <2>5, <2>6 DEF Database, IsWhole, IsCounted
  <2>8. WrittenCounted(counted)
    <3> SUFFICES ASSUME NEW n \in Names, NEW q \in Paths, NEW use \in counted.deps[q], referred[n] # Miss,
                        use.name = n, use.written \in Libs
                 PROVE  referred[n][use.written] > 0
      BY <2>5 DEF WrittenCounted
    <3>1. use \in d.deps[q]
      BY <2>6 DEF IsCounted
    <3>2. Referred(d, n)[use.written] > 0
      BY <3>1, ReferredCounts
    <3>3. referred[n] = d.c_referred[n] => referred[n][use.written] > 0
      BY <1>1, <3>1 DEF WrittenCounted
    <3>4. QED
      BY <2>4, <3>2, <3>3
  <2>9. QED
    BY <2>6, <2>7, <2>8, CountedIsSound
<1> HIDE DEF counted
<1>5. diagnosed \in Database /\ IsCounted(d, diagnosed) /\ Sound(diagnosed, but)
  <2>1. CASE Cardinality(named) = 1
    BY <1>4, <2>1
  <2>2. CASE Cardinality(named) # 1
    <3> DEFINE e == Diagnosed(counted, p, "PathLibraryIsNotUnique", None)
    <3>1. diagnosed = e
      BY <2>2
    <3>2. e \in Database /\ IsCounted(counted, e) /\ e.c_referred = counted.c_referred
      BY <1>4, DiagnosedFields
    <3> HIDE DEF e
    <3>3. WrittenCounted(e)
      BY <1>4, <3>2 DEF Sound, WrittenCounted, IsCounted
    <3>4. Sound(e, but)
      BY <1>4, <3>2, <3>3, CountedIsSound
    <3>5. IsCounted(d, e)
      BY <1>4, <3>2 DEF IsCounted
    <3>6. QED
      BY <3>1, <3>2, <3>4, <3>5
  <2>3. QED
    BY <2>1, <2>2
<1> HIDE DEF diagnosed
<1>6. CASE named = {} /\ found = [db |-> counted, ans |-> None]
  <2>1. names \in Seq(Names) /\ \A n \in d.units[p] : \E i \in DOMAIN names : names[i] = n
    <3>1. IsFiniteSet(d.units[p])
      BY <1>2, LibrariesAssumption, FS_Subset
    <3>2. names \in Seq(d.units[p]) /\ \A n \in d.units[p] : \E i \in DOMAIN names : names[i] = n
      BY <3>1, SetToSeqOfASet
    <3> HIDE DEF names
    <3>3. QED
      BY <1>2, <3>2
  <2> HIDE DEF names
  <2>2. ASSUME NEW q \in Paths, NEW use \in d.deps[q], use.written \in Libs, use.name \in d.units[p]
        PROVE  FALSE
    <3>1. use.name \in Names /\ use.written \in Known \ {Work}
      BY <1>2, <2>2, LibrariesAssumption DEF Known
    <3>2. Referred(d, use.name)[use.written] > 0 /\ Referred(d, use.name) \in [Known -> Nat]
      BY <2>2, <3>1, ReferredCounts
    <3>3. Referred(d, use.name)[use.written] \in Nat
      BY <3>1, <3>2
    <3>4. PICK i \in DOMAIN names : names[i] = use.name
      BY <2>1, <2>2
    <3>5. TimesNamed(d, names, use.written) \in Nat
          /\ Referred(d, use.name)[use.written] <= TimesNamed(d, names, use.written)
      BY <2>1, <3>1, <3>4, TimesNamedCounts
    <3>6. Count(use.written) > 0
      BY <3>2, <3>3, <3>5
    <3>7. QED
      BY <1>6, <3>1, <3>6
  <2>3. Unnamed(d, p)
    BY <2>2 DEF Unnamed
  <2>4. QED
    BY <1>4, <1>6, <2>3
<1>7. CASE named # {} /\ \E l \in most : found = [db |-> diagnosed, ans |-> l]
  <2>1. PICK l \in most : found = [db |-> diagnosed, ans |-> l]
    BY <1>7
  <2>2. l \in Known
    BY <2>1
  <2>3. l # None
    BY <2>2, LibrariesAssumption
  <2>4. QED
    BY <1>5, <2>1, <2>2, <2>3
<1>8. QED
  BY <1>3, <1>6, <1>7

(* Counting uses and adding diagnostics follows, *)
LEMMA CountedFollows ==
  ASSUME NEW d \in Database, NEW e, IsCounted(d, e), NEW v PROVE Follows(d, e, v)
BY DEF Follows, IsCounted, Database

(* and so does giving a library to a source that has none. *)
LEMMA UpdatedFollows ==
  ASSUME NEW d \in Database, NEW e, NEW p \in Paths, NEW library, IsUpdated(d, e, p, library),
         p \notin d.paths \/ d.library[p] = None, NEW v
  PROVE  Follows(d, e, v)
BY DEF Follows, IsUpdated, Database

(* What getLibrary does when it remembers nothing of p. *)
LEMMA FindLibraryIsSound ==
  ASSUME NEW d, NEW but, Sound(d, but), NEW p \in Paths, d.c_library[p] = Miss,
         NEW e \in FindLibrary(d, p), NEW v
  PROVE  /\ Sound(e, but) /\ Follows(d, e, v) /\ e.c_library[p] = Miss
         /\ e.library[p] = None => Unnamed(e, p)
<1>1. d \in Database
  BY DEF Sound
<1>2. CASE p \notin d.paths
  <2> DEFINE put == LibraryUpdated(d, p, NotInProject)
             told == Diagnosed(put, p, "PathNotInProjectFile", None)
  <2>1. NotInProject \in Known /\ NotInProject # None
    BY LibrariesAssumption DEF Known
  <2>2. Sound(put, but) /\ IsUpdated(d, put, p, NotInProject)
    BY <2>1, UpdatedIsSound
  <2>3. e = put \/ e = told
    BY <1>2 DEF FindLibrary
  <2> HIDE DEF put
  <2>4. put \in Database /\ WrittenCounted(put)
    BY <2>2 DEF Sound
  <2>5. told \in Database /\ IsCounted(put, told) /\ told.c_referred = put.c_referred
    BY <2>4, DiagnosedFields
  <2> HIDE DEF told
  <2>6. WrittenCounted(told)
    BY <2>4, <2>5 DEF WrittenCounted, IsCounted
  <2>7. Sound(told, but) /\ Follows(put, told, v)
    BY <2>2, <2>4, <2>5, <2>6, CountedIsSound, CountedFollows
  <2>8. Follows(d, put, v)
    BY <1>1, <1>2, <2>2, UpdatedFollows
  <2>9. Follows(d, told, v)
    BY <1>1, <2>4, <2>5, <2>7, <2>8, FollowsTransitive
  <2>10. put.c_library[p] = Miss /\ put.library[p] # None
    BY <1>1, <2>1, <2>2 DEF IsUpdated, Database
  <2>11. told.c_library[p] = Miss /\ told.library[p] # None
    BY <2>5, <2>10 DEF IsCounted
  <2>12. QED
    BY <2>2, <2>3, <2>7, <2>8, <2>9, <2>10, <2>11
<1>3. CASE p \in d.paths /\ d.library[p] # None
  <2>1. e = d
    BY <1>3 DEF FindLibrary
  <2>2. QED
    BY <1>1, <1>3, <2>1, FollowsItself
<1>4. CASE p \in d.paths /\ d.library[p] = None
  <2>1. PICK found \in Inferences(d, p) :
          e = IF found.ans = None THEN found.db ELSE LibraryUpdated(found.db, p, found.ans)
    BY <1>4 DEF FindLibrary
  <2>2. /\ Sound(found.db, but) /\ IsCounted(d, found.db)
        /\ found.ans \in Known \cup {None}
        /\ found.ans = None => Unnamed(d, p)
    BY InferredIsSound
  <2>3. found.db \in Database /\ Follows(d, found.db, v)
    BY <1>1, <2>2, CountedFollows DEF Sound
  <2>4. found.db.c_library[p] = Miss /\ found.db.library[p] = None
    BY <1>4, <2>2 DEF IsCounted
  <2>5. CASE found.ans = None
    <3>1. Unnamed(found.db, p)
      BY <2>2, <2>5 DEF Unnamed, IsCounted
    <3>2. QED
      BY <2>1, <2>2, <2>3, <2>4, <2>5, <3>1
  <2>6. CASE found.ans # None
    <3>1. e = LibraryUpdated(found.db, p, found.ans)
      BY <2>1, <2>6
    <3>2. found.ans \in Known
      BY <2>2, <2>6
    <3>3. Sound(e, but) /\ IsUpdated(found.db, e, p, found.ans)
      BY <2>2, <2>4, <3>1, <3>2, UpdatedIsSound
    <3>4. Follows(found.db, e, v)
      BY <2>3, <2>4, <3>3, UpdatedFollows
    <3>5. Follows(d, e, v)
      BY <1>1, <2>3, <3>3, <3>4, FollowsTransitive DEF Sound
    <3>6. e.c_library[p] = Miss /\ e.library[p] # None
      BY <2>3, <2>4, <2>6, <3>3 DEF IsUpdated, Database
    <3>7. QED
      BY <3>3, <3>5, <3>6
  <2>7. QED
    BY <2>5, <2>6
<1>5. QED
  BY <1>2, <1>3, <1>4

(* getLibrary, with what it remembers. *)
LEMMA GetLibraryIsSound ==
  ASSUME NEW d, NEW but, Sound(d, but), NEW v, Versions(v), NEW p \in Paths,
         NEW own \in GetLibrary(d, v, p)
  PROVE  Sound(own.db, but) /\ Follows(d, own.db, v) /\ own.ans \in Known \cup {None}
<1>1. d \in Database
  BY DEF Sound
<1>2. CASE d.c_library[p] # Miss
  <2>1. own.db = d /\ own.ans = d.c_library[p]
    BY <1>2 DEF GetLibrary
  <2>2. d.c_library[p] \in Known \cup {None}
    BY <1>1, <1>2 DEF Database
  <2>3. QED
    BY <1>1, <2>1, <2>2, FollowsItself
<1>3. CASE d.c_library[p] = Miss
  <2> DEFINE looked == Looked(d, v, p)
  <2>1. Sound(looked, but) /\ Follows(d, looked, v) /\ (looked = d \/ Uncached(looked))
    BY LookedIsSound
  <2>2. PICK found \in FindLibrary(looked, p) :
          own = [db |-> [found EXCEPT !.c_library[p] = found.library[p]], ans |-> found.library[p]]
    BY <1>3 DEF GetLibrary
  <2> HIDE DEF looked
  <2>3. looked.c_library[p] = Miss /\ looked \in Database
    BY <1>3, <2>1 DEF Uncached, EmptyDatabase, Sound
  <2>4. /\ Sound(found, but) /\ Follows(looked, found, v)
        /\ found.library[p] = None => Unnamed(found, p)
    BY <2>1, <2>3, FindLibraryIsSound
  <2>5. found \in Database
    BY <2>4 DEF Sound
  <2>6. Follows(d, found, v)
    BY <1>1, <2>1, <2>3, <2>4, <2>5, FollowsTransitive
  <2> DEFINE e == [found EXCEPT !.c_library[p] = found.library[p]]
  <2>7. own.db = e /\ own.ans = found.library[p]
    BY <2>2
  <2>8. e = [found EXCEPT !.c_library[p] = found.library[p]]
    OBVIOUS
  <2> HIDE DEF e
  <2>9. IsWhole(e)
    BY <2>5, <2>8 DEF Database, IsWhole
  <2>10. /\ e.paths = found.paths /\ e.stamp = found.stamp /\ e.flags = found.flags
        /\ e.units = found.units /\ e.library = found.library /\ e.deps = found.deps
        /\ e.c_defining = found.c_defining /\ e.c_referred = found.c_referred
        /\ e.diags = found.diags /\ e.inferred = found.inferred
        /\ e.c_library = [found.c_library EXCEPT ![p] = found.library[p]]
    BY <2>5, <2>8 DEF Database
  <2>11. e \in Database
    <3>1. found.library[p] \in Known \cup {None}
      BY <2>5 DEF Database
    <3>2. e.c_library \in [Paths -> Known \cup {None, Miss}]
      BY <2>5, <2>10, <3>1 DEF Database
    <3>3. QED
      BY <2>5, <2>10, <2>9, <3>2 DEF Database, IsWhole
  <2>12. WrittenKept(e) /\ WrittenCounted(e) /\ DuplicatesTold(e)
    BY <2>4, <2>10 DEF Sound, WrittenKept, WrittenCounted, DuplicatesTold
  <2>13. NoneUnnamed(e)
    BY <2>4, <2>5, <2>10 DEF Sound, NoneUnnamed, Unnamed, Database
  <2>14. CachedAgree(e, but)
    BY <2>4, <2>5, <2>10 DEF Sound, CachedAgree, Database
  <2>15. Sound(e, but)
    BY <2>11, <2>12, <2>13, <2>14 DEF Sound
  <2>16. Follows(d, e, v)
    BY <2>6, <2>10 DEF Follows
  <2>17. found.library[p] \in Known \cup {None}
    BY <2>5 DEF Database
  <2>18. QED
    BY <2>7, <2>15, <2>16, <2>17
<1>4. QED
  BY <1>2, <1>3

-----------------------------------------------------------------------------
(* The sources that define a unit.                                         *)

(* Outcomes that keep what holds of d. *)
AllSound(outcomes, d, but, v) ==
  \A o \in outcomes : Sound(o.db, but) /\ Follows(d, o.db, v)

(* getLibrary of one path more, *)
LEMMA LibraryOfNextIsSound ==
  ASSUME NEW d \in Database, NEW but, NEW v, Versions(v), NEW p \in Paths,
         NEW outcomes, AllSound(outcomes, d, but, v)
  PROVE  AllSound(LibraryOfNext(outcomes, v, p), d, but, v)
<1> SUFFICES ASSUME NEW o \in LibraryOfNext(outcomes, v, p)
             PROVE  Sound(o.db, but) /\ Follows(d, o.db, v)
  BY DEF AllSound
<1>1. PICK outcome \in outcomes :
        \E next \in GetLibrary(outcome.db, v, p) :
          o = [db |-> next.db, ans |-> [outcome.ans EXCEPT ![p] = next.ans]]
  BY DEF LibraryOfNext
<1>2. PICK next \in GetLibrary(outcome.db, v, p) :
        o = [db |-> next.db, ans |-> [outcome.ans EXCEPT ![p] = next.ans]]
  BY <1>1
<1>3. Sound(outcome.db, but) /\ Follows(d, outcome.db, v)
  BY DEF AllSound
<1>4. Sound(next.db, but) /\ Follows(outcome.db, next.db, v)
  BY <1>3, GetLibraryIsSound
<1>5. Follows(d, next.db, v)
  BY <1>3, <1>4, FollowsTransitive DEF Sound
<1>6. QED
  BY <1>2, <1>4, <1>5

(* and of every path of a sequence. *)
LEMMA GetLibrariesIsSound ==
  ASSUME NEW d, NEW but, Sound(d, but), NEW v, Versions(v), NEW order \in Seq(Paths)
  PROVE  AllSound(GetLibraries(d, v, order), d, but, v)
<1> DEFINE N == Len(order)
           first == {[db |-> d, ans |-> [p \in Paths |-> None]]}
           Then(outcomes, n) == LibraryOfNext(outcomes, v, order[n])
           Is(f, m) == f = [n \in 0..m |-> IF n = 0 THEN first ELSE Then(f[n - 1], n)]
           after == CHOOSE f : Is(f, N)
           Defined == {m \in 0..N : \E f : Is(f, m)}
<1>1. N \in Nat /\ \A n \in 1..N : order[n] \in Paths
  OBVIOUS
<1>2. d \in Database
  BY DEF Sound
<1>3. GetLibraries(d, v, order) = after[N]
  BY DEF GetLibraries
<1>4. AllSound(first, d, but, v)
  BY <1>2, FollowsItself DEF AllSound
<1>5. ASSUME NEW n \in 1..N, NEW outcomes, AllSound(outcomes, d, but, v)
      PROVE  AllSound(Then(outcomes, n), d, but, v)
  BY <1>1, <1>2, <1>5, LibraryOfNextIsSound
<1> HIDE DEF N, first, Then
<1>6. 0 \in Defined
  <2> DEFINE g == [n \in 0..0 |-> first]
  <2>1. \A n \in 0..0 : g[n] = IF n = 0 THEN first ELSE Then(g[n - 1], n)
    OBVIOUS
  <2>2. g = [n \in 0..0 |-> g[n]]
    OBVIOUS
  <2> HIDE DEF g
  <2>3. Is(g, 0)
    BY <2>1, <2>2
  <2>4. QED
    BY <1>1, <2>3
<1>7. ASSUME NEW m \in 1..N, m - 1 \in Defined PROVE m \in Defined
  <2>1. PICK f : Is(f, m - 1)
    BY <1>7
  <2> DEFINE g == [n \in 0..m |-> IF n = m THEN Then(f[m - 1], m) ELSE f[n]]
  <2>2. f[0] = first /\ \A n \in 1..(m - 1) : f[n] = Then(f[n - 1], n)
    BY <1>1, <2>1
  <2>3. ASSUME NEW n \in 0..m PROVE g[n] = IF n = 0 THEN first ELSE Then(g[n - 1], n)
    <3>1. CASE n = m
      BY <1>1, <3>1
    <3>2. CASE n # m /\ n # 0
      <4>1. n \in 1..(m - 1) /\ n - 1 \in 0..m /\ n - 1 # m
        BY <1>1, <3>2
      <4>2. g[n] = f[n] /\ g[n - 1] = f[n - 1]
        BY <3>2, <4>1
      <4>3. QED
        BY <2>2, <3>2, <4>1, <4>2
    <3>3. CASE n = 0 /\ n # m
      BY <2>2, <3>3
    <3>4. QED
      BY <3>1, <3>2, <3>3
  <2>4. g = [n \in 0..m |-> g[n]]
    OBVIOUS
  <2> HIDE DEF g
  <2>5. Is(g, m)
    BY <2>3, <2>4
  <2>6. QED
    BY <2>5
<1>8. N \in Defined
  <2> HIDE DEF Defined
  <2>1. \A n \in 0..N : n \in Defined
    BY <1>1, <1>6, <1>7, Induction
  <2>2. QED
    BY <1>1, <2>1
<1>9. Is(after, N)
  BY <1>8
<1> HIDE DEF after
<1> DEFINE S == {n \in 0..N : AllSound(after[n], d, but, v)}
<1>10. 0 \in S
  BY <1>1, <1>4, <1>9
<1>11. ASSUME NEW n \in 1..N, n - 1 \in S PROVE n \in S
  <2>1. after[n] = Then(after[n - 1], n)
    BY <1>1, <1>9
  <2>2. QED
    BY <1>5, <1>11, <2>1
<1> HIDE DEF S
<1>12. \A n \in 0..N : n \in S
  BY <1>1, <1>10, <1>11, Induction
<1>13. QED
  BY <1>1, <1>3, <1>12 DEF S

(* The owners of a unit in any order are a sequence of paths. *)
LEMMA OrdersArePaths ==
  ASSUME NEW S \in SUBSET Paths, NEW order \in SetToSeqs(S) PROVE order \in Seq(Paths)
<1>1. IsFiniteSet(S)
  BY ConfigFilesAssumption, FS_Subset
<1>2. Cardinality(S) \in Nat
  BY <1>1, FS_CardinalityType
<1>3. order \in [1..Cardinality(S) -> S]
  BY DEF SetToSeqs
<1>4. QED
  BY <1>2, <1>3

(* Outcomes that keep what holds of d and answer with sources. *)
AllDefine(outcomes, d, but, v) ==
  \A o \in outcomes : Sound(o.db, but) /\ Follows(d, o.db, v) /\ o.ans \in SUBSET Paths

(* Choosing among the owners by their library keeps a database sound. *)
LEMMA WithLibraryIsSound ==
  ASSUME NEW d, NEW but, Sound(d, but), NEW v, Versions(v), NEW name, NEW library
  PROVE  AllDefine(WithLibrary(d, v, name, library), d, but, v)
<1> DEFINE owners == Owners(d, name)
           First == UNION {GetLibraries(d, v, order) : order \in SetToSeqs(owners)}
           In(outcome) == {p \in owners : outcome.ans[p] = library}
           Again(outcome) == UNION {GetLibraries(outcome.db, v, order) : order \in SetToSeqs(owners)}
<1>1. WithLibrary(d, v, name, library) =
        UNION {IF In(outcome) # {} THEN {[db |-> outcome.db, ans |-> In(outcome)]}
               ELSE {[db |-> second.db, ans |-> owners] : second \in Again(outcome)}
                 : outcome \in First}
  BY DEF WithLibrary
<1>2. owners \in SUBSET Paths
  BY DEF Owners
<1>3. \A outcome : In(outcome) \in SUBSET Paths
  BY <1>2
<1>4. AllSound(First, d, but, v)
  BY <1>2, OrdersArePaths, GetLibrariesIsSound DEF AllSound
<1>5. ASSUME NEW outcome \in First PROVE AllSound(Again(outcome), d, but, v)
  <2>1. Sound(outcome.db, but) /\ Follows(d, outcome.db, v)
    BY <1>4 DEF AllSound
  <2>2. ASSUME NEW second \in Again(outcome)
        PROVE  Sound(second.db, but) /\ Follows(outcome.db, second.db, v)
    BY <1>2, <2>1, OrdersArePaths, GetLibrariesIsSound DEF AllSound
  <2>3. d \in Database /\ outcome.db \in Database
    BY <2>1 DEF Sound
  <2> HIDE DEF Again
  <2>4. ASSUME NEW second \in Again(outcome) PROVE Sound(second.db, but) /\ Follows(d, second.db, v)
    <3>1. Sound(second.db, but) /\ Follows(outcome.db, second.db, v)
      BY <2>2
    <3>2. second.db \in Database
      BY <3>1 DEF Sound
    <3>3. QED
      BY <2>1, <2>3, <3>1, <3>2, FollowsTransitive
  <2>5. QED
    BY <2>4 DEF AllSound
<1> HIDE DEF owners, First, In, Again
<1> SUFFICES ASSUME NEW o \in WithLibrary(d, v, name, library)
             PROVE  Sound(o.db, but) /\ Follows(d, o.db, v) /\ o.ans \in SUBSET Paths
  BY DEF AllDefine
<1>6. PICK outcome \in First :
        o \in IF In(outcome) # {} THEN {[db |-> outcome.db, ans |-> In(outcome)]}
              ELSE {[db |-> second.db, ans |-> owners] : second \in Again(outcome)}
  BY <1>1
<1>7. CASE In(outcome) # {}
  <2>1. o = [db |-> outcome.db, ans |-> In(outcome)]
    BY <1>6, <1>7
  <2>2. QED
    BY <1>3, <1>4, <2>1 DEF AllSound
<1>8. CASE In(outcome) = {}
  <2>1. PICK second \in Again(outcome) : o = [db |-> second.db, ans |-> owners]
    BY <1>6, <1>8
  <2>2. QED
    BY <1>2, <1>5, <2>1 DEF AllSound
<1>9. QED
  BY <1>7, <1>8

(* What a report about a unit says of it. *)
Told(e, library, name) ==
  \A q \in Paths : \A use \in e.deps[q] :
    (use.library = library /\ use.name = name) =>
      [kind |-> "DependencyNotUnique", about |-> name] \in e.diags[q]

(* _reportDependencyNotUnique only adds diagnostics, and tells every user. *)
LEMMA ReportedFields ==
  ASSUME NEW d \in Database, NEW library, NEW name \in Names, NEW choices,
         NEW e, e = ReportedNotUnique(d, library, name, choices)
  PROVE  /\ e \in Database /\ IsCounted(d, e) /\ e.c_referred = d.c_referred
         /\ ~ Cardinality(choices \ Temporary) < 2 => Told(e, library, name)
<1>1. CASE Cardinality(choices \ Temporary) < 2
  <2>1. e = d
    BY <1>1 DEF ReportedNotUnique
  <2>2. QED
    BY <1>1, <2>1 DEF IsCounted
<1>2. CASE ~ Cardinality(choices \ Temporary) < 2
  <2> DEFINE diag == [kind |-> "DependencyNotUnique", about |-> name]
             diags == [p \in Paths |-> IF \E use \in d.deps[p] : use.library = library /\ use.name = name
                                       THEN d.diags[p] \cup {diag} ELSE d.diags[p]]
  <2>1. e = [d EXCEPT !.diags = diags]
    BY <1>2 DEF ReportedNotUnique, Database
  <2>2. diag \in Diagnostic
    BY DEF Diagnostic
  <2>3. \A p \in Paths : \A use \in d.deps[p] :
          (use.library = library /\ use.name = name) => diag \in diags[p]
    OBVIOUS
  <2>4. diags \in [Paths -> SUBSET Diagnostic] /\ \A p \in Paths : d.diags[p] \subseteq diags[p]
    BY <2>2 DEF Database
  <2>5. diag = [kind |-> "DependencyNotUnique", about |-> name]
    OBVIOUS
  <2> HIDE DEF diags, diag
  <2>6. IsWhole(e) /\ e.inferred = d.inferred /\ e.c_referred = d.c_referred /\ e.diags = diags
    BY <2>1 DEF Database, IsWhole
  <2>7. IsCounted(d, e)
    BY <2>1, <2>4 DEF Database, IsCounted
  <2>8. e \in Database
    BY <2>4, <2>6, <2>7 DEF Database, IsWhole, IsCounted
  <2>9. Told(e, library, name)
    BY <2>3, <2>5, <2>6, <2>7 DEF Told, IsCounted
  <2>10. QED
    BY <2>6, <2>7, <2>8, <2>9
<1>3. QED
  BY <1>1, <1>2

(* getPathsDefining, with what it remembers and what it reports. *)
LEMMA GetPathsDefiningIsSound ==
  ASSUME NEW d, NEW but, Sound(d, but), NEW v, Versions(v), NEW name \in Names,
         NEW library \in Known \cup {None}, NEW o \in GetPathsDefining(d, v, name, library)
  PROVE  Sound(o.db, but) /\ Follows(d, o.db, v)
<1> DEFINE key == <<library, name>>
<1>1. d \in Database
  BY DEF Sound
<1>2. CASE d.c_defining[key] # Miss
  <2>1. o.db = d
    BY <1>2 DEF GetPathsDefining
  <2>2. QED
    BY <1>1, <2>1, FollowsItself
<1>3. CASE d.c_defining[key] = Miss
  <2> DEFINE choices == IF library = None \/ Owners(d, name) = {} THEN {[db |-> d, ans |-> Owners(d, name)]}
                        ELSE WithLibrary(d, v, name, library)
             Reported(found) == IF Cardinality(found.ans) > 1
                                THEN ReportedNotUnique(found.db, library, name, found.ans) ELSE found.db
  <2> DEFINE Remembered(found) == [Reported(found) EXCEPT !.c_defining[key] = found.ans]
  <2>1. PICK found \in choices : o = [db |-> Remembered(found), ans |-> found.ans]
    BY <1>3, Zenon DEF GetPathsDefining
  <2> HIDE DEF Remembered
  <2>2. o.db = Remembered(found)
    BY <2>1
  <2>3. o.db = [Reported(found) EXCEPT !.c_defining[key] = found.ans]
    BY <2>2 DEF Remembered
  <2>4. Sound(found.db, but) /\ Follows(d, found.db, v) /\ found.ans \in SUBSET Paths
    <3>1. CASE found \in WithLibrary(d, v, name, library)
      BY <3>1, WithLibraryIsSound DEF AllDefine
    <3>2. CASE found = [db |-> d, ans |-> Owners(d, name)]
      BY <1>1, <3>2, FollowsItself DEF Owners
    <3>3. QED
      BY <3>1, <3>2
  <2>5. found.db \in Database /\ WrittenCounted(found.db)
    BY <2>4 DEF Sound
  <2> DEFINE put == Reported(found)
             ans == found.ans
  <2>6. /\ put \in Database /\ IsCounted(found.db, put) /\ put.c_referred = found.db.c_referred
        /\ (Cardinality(ans) > 1 /\ ~ Cardinality(ans \ Temporary) < 2) => Told(put, library, name)
    <3>1. CASE Cardinality(ans) > 1
      <4>1. put = ReportedNotUnique(found.db, library, name, ans)
        BY <3>1
      <4>2. found.db \in Database
        BY <2>5
      <4> HIDE DEF put, ans
      <4>3. /\ put \in Database /\ IsCounted(found.db, put) /\ put.c_referred = found.db.c_referred
            /\ ~ Cardinality(ans \ Temporary) < 2 => Told(put, library, name)
        BY <4>1, <4>2, ReportedFields
      <4>4. QED
        BY <4>3
    <3>2. CASE ~ Cardinality(ans) > 1
      <4>1. put = found.db
        BY <3>2
      <4> HIDE DEF put
      <4>2. QED
        BY <2>5, <3>2, <4>1 DEF IsCounted
    <3>3. QED
      BY <3>1, <3>2
  <2>7. o.db = [put EXCEPT !.c_defining[key] = ans] /\ ans \in SUBSET Paths
    BY <2>3, <2>4
  <2> HIDE DEF put, ans, choices
  <2>8. WrittenCounted(put)
    BY <2>5, <2>6 DEF WrittenCounted, IsCounted
  <2>9. Sound(put, but) /\ Follows(found.db, put, v)
    BY <2>4, <2>5, <2>6, <2>8, CountedIsSound, CountedFollows
  <2>10. Follows(d, put, v)
    BY <1>1, <2>4, <2>5, <2>6, <2>9, FollowsTransitive
  <2> DEFINE e == [put EXCEPT !.c_defining[key] = ans]
  <2>11. o.db = e /\ e = [put EXCEPT !.c_defining[key] = ans]
    BY <2>7
  <2> HIDE DEF e
  <2>12. IsWhole(e)
    BY <2>6, <2>11 DEF Database, IsWhole
  <2>13. /\ e.paths = put.paths /\ e.stamp = put.stamp /\ e.flags = put.flags
         /\ e.units = put.units /\ e.library = put.library /\ e.deps = put.deps
         /\ e.c_library = put.c_library /\ e.c_referred = put.c_referred
         /\ e.diags = put.diags /\ e.inferred = put.inferred
         /\ e.c_defining = [put.c_defining EXCEPT ![key] = ans]
    BY <2>6, <2>11 DEF Database
  <2>14. e \in Database
    <3>1. e.c_defining \in [(Known \cup {None}) \X Names -> (SUBSET Paths) \cup {Miss}]
      BY <2>6, <2>7, <2>13 DEF Database
    <3>2. QED
      BY <2>6, <2>12, <2>13, <3>1 DEF Database, IsWhole
  <2>15. WrittenKept(e) /\ WrittenCounted(e) /\ NoneUnnamed(e) /\ CachedAgree(e, but)
    BY <2>9, <2>13 DEF Sound, WrittenKept, WrittenCounted, NoneUnnamed, Unnamed, CachedAgree
  <2>16. DuplicatesTold(e)
    <3> SUFFICES ASSUME NEW l \in Libs, NEW n \in Names, e.c_defining[<<l, n>>] # Miss,
                        Cardinality(e.c_defining[<<l, n>>] \ Temporary) > 1,
                        NEW q \in Paths, NEW use \in e.deps[q], use.written = l, use.name = n
                 PROVE  [kind |-> "DependencyNotUnique", about |-> n] \in e.diags[q]
      BY DEF DuplicatesTold
    <3>1. <<l, n>> \in (Known \cup {None}) \X Names
      BY DEF Known
    <3>2. use.library = l
      BY <2>15 DEF WrittenKept
    <3>3. CASE <<l, n>> # key
      <4>1. e.c_defining[<<l, n>>] = put.c_defining[<<l, n>>]
        BY <2>6, <2>13, <3>1, <3>3 DEF Database
      <4>2. QED
        BY <2>9, <2>13, <4>1 DEF Sound, DuplicatesTold
    <3>4. CASE <<l, n>> = key
      <4>1. l = library /\ n = name
        BY <3>4
      <4>2. e.c_defining[<<l, n>>] = ans
        BY <2>6, <2>13, <3>1, <3>4 DEF Database
      <4>3. IsFiniteSet(ans) /\ ans \ Temporary \subseteq ans
        BY <2>7, ConfigFilesAssumption, FS_Subset
      <4>4. /\ IsFiniteSet(ans \ Temporary) /\ Cardinality(ans \ Temporary) \in Nat
            /\ Cardinality(ans) \in Nat /\ Cardinality(ans \ Temporary) <= Cardinality(ans)
        BY <4>3, FS_Subset, FS_CardinalityType
      <4>5. Cardinality(ans \ Temporary) > 1
        BY <4>2
      <4>6. Told(put, library, name)
        BY <2>6, <4>4, <4>5
      <4>7. QED
        BY <2>13, <3>2, <4>1, <4>6 DEF Told
    <3>5. QED
      BY <3>3, <3>4
  <2>17. Sound(e, but) /\ Follows(d, e, v)
    BY <2>10, <2>13, <2>14, <2>15, <2>16 DEF Sound, Follows
  <2>18. QED
    BY <2>11, <2>17
<1>4. QED
  BY <1>2, <1>3

-----------------------------------------------------------------------------
(* Listing a source and starting from a cache.                             *)

(* Fewer paths whose cached library must be the one in force. *)
LEMMA SoundExcusing ==
  ASSUME NEW d, NEW but, NEW more, Sound(d, but), but \subseteq more PROVE Sound(d, more)
BY DEF Sound, CachedAgree

(* What addSource leaves of the database before it parses the source. *)
IsRecorded(d, e, entry) ==
  /\ e.paths = d.paths \cup {entry.path} /\ e.stamp = d.stamp /\ e.deps = d.deps /\ e.units = d.units
  /\ e.diags = d.diags
  /\ e.c_library = d.c_library /\ e.c_referred = d.c_referred /\ e.c_defining = d.c_defining
  /\ e.flags = [d.flags EXCEPT ![entry.path] = entry.flags]
  /\ e.library = [d.library EXCEPT ![entry.path] =
                    IF entry.library # None THEN entry.library ELSE d.library[entry.path]]

(* addSource, up to the parser, keeps a database sound. *)
LEMMA RecordedIsSound ==
  ASSUME NEW d, NEW but, Sound(d, but), NEW entry \in Entry, entry.path \in but, NEW e, e = Recorded(d, entry)
  PROVE  Sound(e, but) /\ IsRecorded(d, e, entry)
<1>1. d \in Database
  BY DEF Sound
<1>2. entry.path \in Paths /\ entry.library \in Libs \cup {None} /\ entry.flags \in SourceFlags
  BY DEF Entry
<1> DEFINE p == entry.path
           library == IF entry.library # None THEN entry.library ELSE d.library[p]
<1>3. e = [d EXCEPT !.paths = @ \cup {p}, !.flags[p] = entry.flags, !.library[p] = library]
  BY <1>1 DEF Recorded, Database
<1>4. p = entry.path /\ library = IF entry.library # None THEN entry.library ELSE d.library[p]
  OBVIOUS
<1>5. p \in Paths /\ library \in Known \cup {None}
  BY <1>1, <1>2 DEF Known, Database
<1> HIDE DEF p, library
<1>6. IsWhole(e)
  BY <1>1, <1>3 DEF Database, IsWhole
<1>7. IsRecorded(d, e, entry) /\ e.inferred = d.inferred
  <2>1. /\ e.paths = d.paths \cup {p} /\ e.stamp = d.stamp /\ e.deps = d.deps /\ e.units = d.units
        /\ e.diags = d.diags /\ e.inferred = d.inferred
        /\ e.c_library = d.c_library /\ e.c_referred = d.c_referred /\ e.c_defining = d.c_defining
        /\ e.flags = [d.flags EXCEPT ![p] = entry.flags]
        /\ e.library = [d.library EXCEPT ![p] = library]
    BY <1>1, <1>3 DEF Database
  <2>2. QED
    BY <1>4, <2>1 DEF IsRecorded
<1>8. e \in Database
  <2>1. e.paths \in SUBSET Paths
    BY <1>1, <1>2, <1>7 DEF Database, IsRecorded
  <2>2. e.flags \in [Paths -> SourceFlags \cup {None}]
    BY <1>1, <1>2, <1>7 DEF Database, IsRecorded
  <2>3. e.library \in [Paths -> Known \cup {None}]
    <3>1. e.library = [d.library EXCEPT ![p] = library]
      BY <1>4, <1>7 DEF IsRecorded
    <3>2. QED
      BY <1>1, <1>5, <3>1 DEF Database
  <2>4. QED
    BY <1>1, <1>6, <1>7, <2>1, <2>2, <2>3 DEF Database, IsWhole, IsRecorded
<1>9. WrittenKept(e) /\ WrittenCounted(e) /\ NoneUnnamed(e) /\ DuplicatesTold(e)
  BY <1>7 DEF Sound, WrittenKept, WrittenCounted, NoneUnnamed, Unnamed, DuplicatesTold, IsRecorded
<1>10. CachedAgree(e, but)
  BY <1>1, <1>7 DEF Sound, CachedAgree, IsRecorded, Database
<1>11. QED
  BY <1>7, <1>8, <1>9, <1>10 DEF Sound

(* What starting from the cache leaves of the database. *)
IsRecovered(d, e) ==
  /\ e.paths = d.paths
  /\ \A p \in Paths : /\ e.stamp[p] \in {Gone, d.stamp[p]}
                      /\ p \in d.paths => /\ e.stamp[p] = d.stamp[p] /\ e.library[p] = d.library[p]
                                          /\ e.flags[p] = d.flags[p]

(* A database that starts from the cache is sound. *)
LEMMA RecoveredIsSound ==
  ASSUME NEW d, NEW but, Sound(d, but), NEW e, e = Recovered(d)
  PROVE  Sound(e, but) /\ IsRecovered(d, e)
<1>1. d \in Database /\ WrittenKept(d)
  BY DEF Sound
<1> DEFINE Kept(f, default) == [p \in Paths |-> IF p \in d.paths THEN f[p] ELSE default]
<1>2. /\ e.paths = d.paths /\ e.units = d.units /\ e.inferred = d.inferred
      /\ e.stamp = Kept(d.stamp, Gone) /\ e.library = Kept(d.library, None)
      /\ e.flags = Kept(d.flags, None) /\ e.deps = Kept(d.deps, {})
      /\ e.diags = EmptyDatabase.diags
      /\ Uncached(e) /\ IsWhole(e)
  BY DEF Recovered, EmptyDatabase, Uncached, IsWhole
<1>3. IsRecovered(d, e)
  BY <1>1, <1>2 DEF IsRecovered, Database
<1>4. e \in Database
  <2>1. /\ e.paths \in SUBSET Paths /\ e.inferred \in SUBSET Paths
        /\ e.units \in [Paths -> SUBSET Names]
    BY <1>1, <1>2 DEF Database
  <2>2. /\ e.stamp \in [Paths -> Nat] /\ e.library \in [Paths -> Known \cup {None}]
        /\ e.flags \in [Paths -> SourceFlags \cup {None}]
        /\ e.deps \in [Paths -> SUBSET Dependency]
    BY <1>1, <1>2 DEF Database, Gone
  <2>3. e.diags \in [Paths -> SUBSET Diagnostic]
    BY <1>2 DEF EmptyDatabase
  <2>4. QED
    BY <1>2, <2>1, <2>2, <2>3, EmptyCaches DEF Database, Uncached, IsWhole
<1>5. WrittenKept(e)
  BY <1>1, <1>2 DEF WrittenKept
<1>6. QED
  BY <1>2, <1>3, <1>4, <1>5, SoundUncached

-----------------------------------------------------------------------------
(* The entries of the project file itself, of which the first m have been  *)
(* listed.                                                                 *)

(* Entries for the same path after the i-th. *)
Later(entries, i, m) == {j \in 1..m : j > i /\ entries[j].path = entries[i].path}

(* The i-th entry is in force once m of them have been listed. *)
IsInForce(d, entries, i, m) ==
  LET entry == entries[i] IN
  /\ entry.path \in d.paths
  /\ (Later(entries, i, m) = {} /\ entry.path \notin VunitPaths) => d.flags[entry.path] = entry.flags
  /\ (entry.library # None /\ entry.path \notin VunitPaths
        /\ \A j \in Later(entries, i, m) : entries[j].library = None) =>
       d.library[entry.path] = entry.library

(* So is every one of the first m whose file is there. *)
InForce(d, v, entries, m) ==
  \A i \in 1..m : v[entries[i].path] # Gone => IsInForce(d, entries, i, m)

(* The paths of entries are sources. *)
LEMMA EntryPaths ==
  ASSUME NEW entries \in Seq(Entry), NEW i \in 1..Len(entries)
  PROVE  entries[i] \in Entry /\ entries[i].path \in Paths
<1>1. entries[i] \in Entry
  OBVIOUS
<1>2. QED
  BY <1>1 DEF Entry

(* Calls leave the entries in force, *)
LEMMA InForceFollows ==
  ASSUME NEW d, NEW e, NEW v, NEW entries \in Seq(Entry), NEW m \in 0..Len(entries),
         InForce(d, v, entries, m), Follows(d, e, v)
  PROVE  InForce(e, v, entries, m)
BY DEF InForce, IsInForce, Follows

(* so does a restart, *)
LEMMA InForceRecovered ==
  ASSUME NEW d, NEW e, NEW v, NEW entries \in Seq(Entry), NEW m \in 0..Len(entries),
         InForce(d, v, entries, m), IsRecovered(d, e)
  PROVE  InForce(e, v, entries, m)
<1>1. ASSUME NEW i \in 1..m PROVE entries[i].path \in Paths
  BY EntryPaths
<1>2. QED
  BY <1>1 DEF InForce, IsInForce, IsRecovered

(* and so do edits, which bring no file back. *)
LEMMA InForceEdited ==
  ASSUME NEW d, NEW v, NEW w, NEW entries \in Seq(Entry), NEW m \in 0..Len(entries),
         InForce(d, v, entries, m), \A p \in Paths : w[p] # Gone => v[p] # Gone
  PROVE  InForce(d, w, entries, m)
<1>1. ASSUME NEW i \in 1..m PROVE entries[i].path \in Paths
  BY EntryPaths
<1>2. QED
  BY <1>1 DEF InForce

(* The next entry is listed. *)
LEMMA InForceRecorded ==
  ASSUME NEW d \in Database, NEW e, NEW v, NEW entries \in Seq(Entry), NEW m \in 0..Len(entries), m < Len(entries),
         InForce(d, v, entries, m), IsRecorded(d, e, entries[m + 1])
  PROVE  InForce(e, v, entries, m + 1)
<1>1. m + 1 \in 1..Len(entries) /\ m \in Nat
  OBVIOUS
<1>2. \A i \in 1..(m + 1) : entries[i] \in Entry /\ entries[i].path \in Paths
  BY EntryPaths
<1> DEFINE added == entries[m + 1]
<1> SUFFICES ASSUME NEW i \in 1..(m + 1), v[entries[i].path] # Gone PROVE IsInForce(e, entries, i, m + 1)
  BY DEF InForce
<1>3. CASE i = m + 1
  <2>1. e.flags[added.path] = added.flags /\ added.path \in e.paths
    BY <1>1, <1>2 DEF IsRecorded, Database
  <2>2. added.library # None => e.library[added.path] = added.library
    BY <1>1, <1>2 DEF IsRecorded, Database
  <2>3. QED
    BY <1>3, <2>1, <2>2 DEF IsInForce
<1>4. CASE i # m + 1
  <2>1. i \in 1..m
    BY <1>1, <1>4
  <2>2. IsInForce(d, entries, i, m)
    BY <2>1 DEF InForce
  <2>3. Later(entries, i, m) \subseteq Later(entries, i, m + 1)
    BY <1>1 DEF Later
  <2>4. entries[i].path \in e.paths
    BY <2>2 DEF IsInForce, IsRecorded
  <2>5. CASE entries[i].path = added.path
    <3>1. m + 1 \in Later(entries, i, m + 1)
      BY <1>1, <2>1, <2>5 DEF Later
    <3>2. added.library = None => e.library[added.path] = d.library[added.path]
      BY <1>1, <1>2 DEF IsRecorded, Database
    <3>3. QED
      BY <2>2, <2>3, <2>4, <2>5, <3>1, <3>2 DEF IsInForce
  <2>6. CASE entries[i].path # added.path
    <3>1. /\ e.flags[entries[i].path] = d.flags[entries[i].path]
          /\ e.library[entries[i].path] = d.library[entries[i].path]
      BY <1>1, <1>2, <2>6 DEF IsRecorded, Database
    <3>2. QED
      BY <2>2, <2>3, <2>4, <3>1 DEF IsInForce
  <2>7. QED
    BY <2>5, <2>6
<1>5. QED
  BY <1>3, <1>4

(* ... or passed over, for its file is gone. *)
LEMMA InForceSkipped ==
  ASSUME NEW d, NEW v, NEW entries \in Seq(Entry), NEW m \in 0..Len(entries), m < Len(entries),
         InForce(d, v, entries, m), v[entries[m + 1].path] = Gone
  PROVE  InForce(d, v, entries, m + 1)
<1> SUFFICES ASSUME NEW i \in 1..(m + 1), v[entries[i].path] # Gone PROVE IsInForce(d, entries, i, m + 1)
  BY DEF InForce
<1>1. i \in 1..m /\ m \in Nat
  OBVIOUS
<1>2. IsInForce(d, entries, i, m)
  BY <1>1 DEF InForce
<1>3. Later(entries, i, m) \subseteq Later(entries, i, m + 1)
  BY <1>1 DEF Later
<1>4. QED
  BY <1>2, <1>3 DEF IsInForce

(* VUnit's own sources take their paths from them and no other. *)
LEMMA InForceVunit ==
  ASSUME NEW d \in Database, NEW e, NEW v, NEW entries \in Seq(Entry), NEW m \in 0..Len(entries),
         InForce(d, v, entries, m), NEW entry \in Entry, entry.path \in VunitPaths, IsRecorded(d, e, entry)
  PROVE  InForce(e, v, entries, m)
<1>1. ASSUME NEW i \in 1..m PROVE entries[i].path \in Paths
  BY EntryPaths
<1> SUFFICES ASSUME NEW i \in 1..m, v[entries[i].path] # Gone PROVE IsInForce(e, entries, i, m)
  BY DEF InForce
<1>2. IsInForce(d, entries, i, m)
  BY DEF InForce
<1>3. entries[i].path \in e.paths
  BY <1>2 DEF IsInForce, IsRecorded
<1>4. CASE entries[i].path = entry.path
  BY <1>3, <1>4 DEF IsInForce
<1>5. CASE entries[i].path # entry.path
  <2>1. /\ e.flags[entries[i].path] = d.flags[entries[i].path]
        /\ e.library[entries[i].path] = d.library[entries[i].path]
    BY <1>1, <1>5 DEF IsRecorded, Database, Entry
  <2>2. QED
    BY <1>2, <1>3, <2>1 DEF IsInForce
<1>6. QED
  BY <1>4, <1>5

-----------------------------------------------------------------------------
(* The invariant: what holds of the database but for the source that is    *)
(* being added and those whose files are gone, and that the entries of the *)
(* project file itself are listed in turn and stay in force.               *)

(* Sources that are being added, or whose file is gone. *)
Excused(r, v) == {p \in Paths : (r.adding /\ Head(r.todo).path = p) \/ v[p] = Gone}

(* Every other source of the project has been parsed. *)
Unparsed(d, but) == \A p \in d.paths : d.stamp[p] = Gone => p \in but

(* The own entries of the project file that is read. *)
Own(r) == RootEntries[r.config]

(* The entries that are left are the last ones. *)
OwnInTurn(r) ==
  /\ r.pc = "root" =>
       /\ Len(r.todo) <= Len(Own(r))
       /\ \A i \in 1..Len(r.todo) : r.todo[i] = Own(r)[Len(Own(r)) - Len(r.todo) + i]
  /\ r.pc = "vunit" => \A i \in 1..Len(r.todo) : r.todo[i].path \in VunitPaths

(* How many of its own entries have been listed. *)
Progress(r) ==
  IF r.pc = "root" THEN Len(Own(r)) - Len(r.todo) + (IF r.adding THEN 1 ELSE 0) ELSE Len(Own(r))

(* Those that were listed are in force. *)
OwnInForce(r, d, v) ==
  (r.config # 0 /\ r.pc # "including") => InForce(d, v, Own(r), Progress(r))

(* What is known of a reading by itself. *)
ReadingInv(r) ==
  /\ r \in Reading
  /\ r.pc \in Going => r.config # 0
  /\ r.adding => r.pc \in Going /\ r.todo # <<>>
  /\ OwnInTurn(r)

(* The inductive invariant. *)
IndInv ==
  /\ TypeOK /\ ReadingInv(reading)
  /\ Sound(db, Excused(reading, disk)) /\ Unparsed(db, Excused(reading, disk))
  /\ OwnInForce(reading, db, disk)

(* Progress is a number of own entries. *)
LEMMA ProgressWithin ==
  ASSUME NEW r, ReadingInv(r), r.config # 0
  PROVE  Own(r) \in Seq(Entry) /\ Progress(r) \in 0..Len(Own(r))
<1>1. r.config \in DOMAIN RootFiles /\ r.todo \in Seq(Entry) /\ r.adding \in BOOLEAN
  BY DEF ReadingInv, Reading
<1>2. Own(r) \in Seq(Entry)
  BY <1>1, RootEntriesAreEntries DEF Own
<1>3. Len(Own(r)) \in Nat /\ Len(r.todo) \in Nat /\ (r.todo # <<>> => Len(r.todo) > 0)
  BY <1>1, <1>2
<1>4. r.adding => Len(r.todo) > 0
  BY <1>3 DEF ReadingInv
<1>5. r.pc = "root" => Len(r.todo) <= Len(Own(r))
  BY DEF ReadingInv, OwnInTurn
<1>6. Progress(r) \in 0..Len(Own(r))
  BY <1>3, <1>4, <1>5 DEF Progress
<1>7. QED
  BY <1>2, <1>6

(* The first of the entries that are left, and the others. *)
LEMMA TodoFacts ==
  ASSUME NEW todo \in Seq(Entry), todo # <<>>
  PROVE  /\ Head(todo) \in Entry /\ Head(todo) = todo[1] /\ Head(todo).path \in Paths
         /\ Tail(todo) \in Seq(Entry) /\ Len(Tail(todo)) = Len(todo) - 1 /\ Len(todo) \in Nat \ {0}
         /\ \A i \in 1..Len(Tail(todo)) : Tail(todo)[i] = todo[i + 1]
<1>1. Head(todo) \in Entry
  OBVIOUS
<1>2. Head(todo).path \in Paths
  BY <1>1 DEF Entry
<1>3. QED
  BY <1>1, <1>2

(* What the invariant needs of a step that only reads. *)
LEMMA ReadingKeeps ==
  ASSUME IndInv, UNCHANGED <<disk, edits, root, db>>, ReadingInv(reading'),
         ~ reading.adding, ~ reading'.adding, OwnInForce(reading', db, disk)
  PROVE  IndInv'
<1>1. Excused(reading', disk) = Excused(reading, disk)
  BY DEF Excused
<1>2. Sound(db, Excused(reading', disk)) /\ Unparsed(db, Excused(reading', disk))
  BY <1>1 DEF IndInv
<1>3. TypeOK'
  BY DEF IndInv, TypeOK, ReadingInv
<1>4. QED
  BY <1>2, <1>3 DEF IndInv

(* The value of reading between two readings. *)
LEMMA NotReadingIsReading == NotReading \in Reading
<1>1. <<>> \in Seq(Entry)
  OBVIOUS
<1>2. QED
  BY <1>1 DEF NotReading, Reading

(* A reading starts with the places that the project file includes. *)
LEMMA StartKeeps == IndInv /\ Start => IndInv'
<1> SUFFICES ASSUME IndInv, Start PROVE IndInv'
  OBVIOUS
<1>1. ReadingInv(reading) /\ root \in DOMAIN RootFiles
  BY DEF IndInv, TypeOK
<1>2. ~ reading.adding /\ UNCHANGED <<disk, edits, root, db>>
  BY <1>1 DEF Start, ReadingInv
<1>3. CASE Reads[root] = Refused
  <2>1. reading' = [NotReading EXCEPT !.pc = "failed"]
    BY <1>3 DEF Start
  <2>2. /\ reading'.config = 0 /\ ~ reading'.adding /\ reading'.pc = "failed"
        /\ reading' \in Reading
    <3>1. NotReading.config = 0 /\ ~ NotReading.adding
      BY DEF NotReading
    <3>2. QED
      BY <2>1, <3>1, NotReadingIsReading DEF Reading
  <2>3. ReadingInv(reading') /\ OwnInForce(reading', db, disk)
    BY <2>2 DEF ReadingInv, OwnInTurn, OwnInForce, Going
  <2>4. QED
    BY <1>2, <2>2, <2>3, ReadingKeeps
<1>4. CASE Reads[root] # Refused
  <2> DEFINE paths == SpelledAll(<<Root>>, Reads[root].config.include)
  <2>1. reading' = [NotReading EXCEPT !.pc = "including", !.config = root, !.paths = paths]
    BY <1>4 DEF Start
  <2>2. paths \in SUBSET Place
    <3>1. Reads[root].config.include \in Seq(Item)
      BY <1>1, <1>4, RootEntriesAreEntries DEF Configuration
    <3>2. <<Root>> \in Seq(Folders)
      BY ProjectAssumption
    <3>3. QED
      BY <3>1, <3>2, SpelledPlaces
  <2> HIDE DEF paths
  <2>3. root # 0
    BY <1>1, ProjectAssumption
  <2>4. /\ reading'.config # 0 /\ ~ reading'.adding /\ reading'.pc = "including"
        /\ reading' \in Reading
    <3>1. ~ NotReading.adding
      BY DEF NotReading
    <3>2. QED
      BY <1>1, <2>1, <2>2, <2>3, <3>1, NotReadingIsReading DEF Reading, Going
  <2>5. ReadingInv(reading') /\ OwnInForce(reading', db, disk)
    BY <2>4 DEF ReadingInv, OwnInTurn, OwnInForce
  <2>6. QED
    BY <1>2, <2>4, <2>5, ReadingKeeps
<1>5. QED
  BY <1>3, <1>4

(* An included file is read. *)
LEMMA IncludeKeeps == IndInv /\ Include => IndInv'
<1> SUFFICES ASSUME IndInv, Include PROVE IndInv'
  OBVIOUS
<1>1. /\ ReadingInv(reading) /\ reading \in Reading /\ reading.pc = "including" /\ reading.todo = <<>>
      /\ UNCHANGED <<disk, edits, root, db>>
  BY DEF IndInv, Include, ReadingInv
<1>2. ~ reading.adding /\ reading.config # 0
  BY <1>1 DEF ReadingInv, Going
<1>3. PICK path \in reading.paths :
        reading' = [reading EXCEPT !.checked = reading.checked \cup {path},
                      !.paths = (@ \ {path}) \cup NewlyIncluded(path, reading.checked \cup {path}),
                      !.todo = EntriesAt(path)]
  BY DEF Include
<1>4. path \in Place
  BY <1>1 DEF Reading
<1>5. /\ NewlyIncluded(path, reading.checked \cup {path}) \in SUBSET Place
      /\ EntriesAt(path) \in Seq(Entry)
  BY <1>4, NewlyIncludedPlaces, EntriesAtEntries
<1>6. /\ reading' \in Reading /\ reading'.pc = "including" /\ ~ reading'.adding
      /\ reading'.config # 0
  BY <1>1, <1>2, <1>3, <1>4, <1>5 DEF Reading
<1>7. ReadingInv(reading') /\ OwnInForce(reading', db, disk)
  BY <1>6 DEF ReadingInv, OwnInTurn, OwnInForce
<1>8. QED
  BY <1>1, <1>2, <1>6, <1>7, ReadingKeeps

(* None of the own entries is listed when their turn comes. *)
LEMMA ExpandRootKeeps == IndInv /\ ExpandRoot => IndInv'
<1> SUFFICES ASSUME IndInv, ExpandRoot PROVE IndInv'
  OBVIOUS
<1>1. /\ ReadingInv(reading) /\ reading \in Reading /\ reading.pc = "including" /\ reading.todo = <<>>
      /\ UNCHANGED <<disk, edits, root, db>>
      /\ reading' = [reading EXCEPT !.pc = "root", !.todo = RootEntries[reading.config]]
  BY DEF IndInv, ExpandRoot, ReadingInv
<1>2. ~ reading.adding /\ reading.config # 0
  BY <1>1 DEF ReadingInv, Going
<1>3. Own(reading) \in Seq(Entry)
  BY <1>1, <1>2, ProgressWithin
<1>4. /\ reading'.todo = Own(reading) /\ reading'.pc = "root" /\ reading'.config = reading.config
      /\ ~ reading'.adding /\ Own(reading') = Own(reading)
  BY <1>1, <1>2 DEF Reading, Own
<1>5. reading' \in Reading
  BY <1>1, <1>3 DEF Reading, Own, Going
<1>6. Len(Own(reading)) \in Nat
  BY <1>3
<1>7. OwnInTurn(reading') /\ Progress(reading') = 0
  BY <1>4, <1>6 DEF OwnInTurn, Progress
<1>8. ReadingInv(reading') /\ OwnInForce(reading', db, disk)
  BY <1>2, <1>4, <1>5, <1>7 DEF ReadingInv, OwnInForce, InForce
<1>9. QED
  BY <1>1, <1>2, <1>4, <1>8, ReadingKeeps

(* All of them are when VUnit's turn comes, *)
LEMMA ExpandVunitKeeps == IndInv /\ ExpandVunit => IndInv'
<1> SUFFICES ASSUME IndInv, ExpandVunit PROVE IndInv'
  OBVIOUS
<1> DEFINE entries == VunitEntries(BuilderFor(Reads[reading.config].builder))
<1>1. /\ ReadingInv(reading) /\ reading \in Reading /\ reading.pc = "root" /\ reading.todo = <<>>
      /\ OwnInForce(reading, db, disk) /\ UNCHANGED <<disk, edits, root, db>>
      /\ reading' = [reading EXCEPT !.pc = "vunit", !.todo = entries]
  BY DEF IndInv, ExpandVunit, ReadingInv
<1>2. ~ reading.adding /\ reading.config # 0
  BY <1>1 DEF ReadingInv, Going
<1>3. entries \in Seq({e \in Entry : e.path \in VunitPaths})
  BY VunitEntriesAreVunits
<1> HIDE DEF entries
<1>4. entries \in Seq(Entry) /\ \A i \in 1..Len(entries) : entries[i].path \in VunitPaths
  BY <1>3
<1>5. /\ reading' \in Reading /\ reading'.pc = "vunit" /\ reading'.config = reading.config
      /\ ~ reading'.adding /\ reading'.todo = entries
  BY <1>1, <1>2, <1>4 DEF Reading, Going
<1>6. Own(reading) \in Seq(Entry) /\ Own(reading') = Own(reading)
  BY <1>1, <1>2, <1>5, ProgressWithin DEF Own
<1>7. Len(Own(reading)) \in Nat
  BY <1>6
<1>8. Len(reading.todo) = 0
  BY <1>1
<1>9. Progress(reading) = Len(Own(reading)) /\ Progress(reading') = Len(Own(reading))
  BY <1>1, <1>2, <1>5, <1>6, <1>7, <1>8 DEF Progress
<1>10. OwnInForce(reading', db, disk)
  BY <1>1, <1>2, <1>5, <1>6, <1>9 DEF OwnInForce
<1>11. ReadingInv(reading')
  BY <1>2, <1>4, <1>5 DEF ReadingInv, OwnInTurn
<1>12. QED
  BY <1>1, <1>2, <1>5, <1>10, <1>11, ReadingKeeps

(* and when the reading ends. *)
LEMMA FinishKeeps == IndInv /\ Finish => IndInv'
<1> SUFFICES ASSUME IndInv, Finish PROVE IndInv'
  OBVIOUS
<1>1. /\ ReadingInv(reading) /\ reading \in Reading /\ reading.pc = "vunit" /\ reading.todo = <<>>
      /\ OwnInForce(reading, db, disk) /\ UNCHANGED <<disk, edits, root, db>>
      /\ reading' = [NotReading EXCEPT !.pc = "read", !.config = reading.config]
  BY DEF IndInv, Finish, ReadingInv
<1>2. ~ reading.adding /\ reading.config # 0
  BY <1>1 DEF ReadingInv, Going
<1>3. /\ reading' \in Reading /\ reading'.pc = "read" /\ reading'.config = reading.config
      /\ ~ reading'.adding
  BY <1>1 DEF Reading, NotReading
<1>4. Own(reading') = Own(reading) /\ Progress(reading') = Progress(reading)
  BY <1>1, <1>3 DEF Own, Progress
<1>5. ReadingInv(reading') /\ OwnInForce(reading', db, disk)
  BY <1>1, <1>2, <1>3, <1>4 DEF ReadingInv, OwnInTurn, OwnInForce, Going
<1>6. QED
  BY <1>1, <1>2, <1>3, <1>5, ReadingKeeps

-----------------------------------------------------------------------------
(* The steps that change the database or the files.                        *)

(* The type of the two variables the calls depend on. *)
LEMMA DiskIsVersions == ASSUME TypeOK PROVE Versions(disk) /\ db \in Database
BY DEF TypeOK, Versions

(* The first of the entries that are left is done with. *)
LEMMA OneLess ==
  ASSUME NEW r, ReadingInv(r), r.config # 0, r.todo # <<>>,
         NEW s, s.pc = r.pc, s.config = r.config, s.todo = Tail(r.todo), s.adding = FALSE
  PROVE  /\ OwnInTurn(s) /\ Own(s) = Own(r)
         /\ r.pc = "root" => Progress(s) = Progress(r) + (IF r.adding THEN 0 ELSE 1)
         /\ r.pc # "root" => Progress(s) = Progress(r)
<1>1. r.todo \in Seq(Entry) /\ OwnInTurn(r) /\ r.adding \in BOOLEAN
  BY DEF ReadingInv, Reading
<1>2. Own(r) \in Seq(Entry)
  BY ProgressWithin
<1>3. Own(s) = Own(r)
  BY DEF Own
<1> DEFINE own == Len(Own(r))
           all == Len(r.todo)
           left == Len(s.todo)
<1>4. own \in Nat /\ all \in Nat \ {0} /\ left = all - 1
  BY <1>1, <1>2, TodoFacts
<1>5. \A i \in 1..left : s.todo[i] = r.todo[i + 1]
  BY <1>1, TodoFacts
<1>6. r.pc = "root" => all <= own /\ \A i \in 1..all : r.todo[i] = Own(r)[own - all + i]
  BY <1>1 DEF OwnInTurn
<1>7. r.pc = "vunit" => \A i \in 1..all : r.todo[i].path \in VunitPaths
  BY <1>1 DEF OwnInTurn
<1>8. /\ Progress(r) = IF r.pc = "root" THEN own - all + (IF r.adding THEN 1 ELSE 0) ELSE own
      /\ Progress(s) = IF r.pc = "root" THEN own - left + 0 ELSE own
  BY <1>3 DEF Progress
<1>9. OwnInTurn(s) <=>
        /\ r.pc = "root" => left <= own /\ \A i \in 1..left : s.todo[i] = Own(r)[own - left + i]
        /\ r.pc = "vunit" => \A i \in 1..left : s.todo[i].path \in VunitPaths
  BY <1>3 DEF OwnInTurn
<1> HIDE DEF own, all, left
<1>10. ASSUME NEW i \in 1..left
       PROVE  i + 1 \in 1..all /\ own - all + (i + 1) = own - left + i
  BY <1>4
<1>11. OwnInTurn(s)
  <2>1. r.pc = "root" => left <= own
    BY <1>4, <1>6
  <2>2. ASSUME r.pc = "root", NEW i \in 1..left PROVE s.todo[i] = Own(r)[own - left + i]
    <3>1. r.todo[i + 1] = Own(r)[own - all + (i + 1)]
      BY <1>6, <1>10, <2>2
    <3>2. QED
      BY <1>5, <1>10, <3>1
  <2>3. ASSUME r.pc = "vunit", NEW i \in 1..left PROVE s.todo[i].path \in VunitPaths
    BY <1>5, <1>7, <1>10, <2>3
  <2>4. QED
    BY <1>9, <2>1, <2>2, <2>3
<1>12. r.pc = "root" => Progress(s) = Progress(r) + (IF r.adding THEN 0 ELSE 1)
  BY <1>1, <1>4, <1>8
<1>13. QED
  BY <1>3, <1>8, <1>11, <1>12

(* The next entry of the project file, or of VUnit. *)
LEMMA NextOwn ==
  ASSUME NEW r, ReadingInv(r), r.config # 0, r.todo # <<>>, r.adding = FALSE
  PROVE  /\ r.pc = "root" => /\ Progress(r) < Len(Own(r))
                             /\ Own(r)[Progress(r) + 1] = Head(r.todo)
         /\ r.pc = "vunit" => Head(r.todo).path \in VunitPaths
<1>1. r.todo \in Seq(Entry) /\ OwnInTurn(r)
  BY DEF ReadingInv, Reading
<1>2. Own(r) \in Seq(Entry)
  BY ProgressWithin
<1> DEFINE own == Len(Own(r))
           all == Len(r.todo)
<1>3. own \in Nat /\ all \in Nat \ {0} /\ Head(r.todo) = r.todo[1]
  BY <1>1, <1>2, TodoFacts
<1>4. r.pc = "root" => all <= own /\ \A i \in 1..all : r.todo[i] = Own(r)[own - all + i]
  BY <1>1 DEF OwnInTurn
<1>5. r.pc = "vunit" => \A i \in 1..all : r.todo[i].path \in VunitPaths
  BY <1>1 DEF OwnInTurn
<1>6. r.pc = "root" => Progress(r) = own - all + 0
  BY DEF Progress
<1>7. Len(Own(r)) = own
  OBVIOUS
<1> HIDE DEF own, all
<1>8. 1 \in 1..all
  BY <1>3
<1>9. CASE r.pc = "root"
  <2>1. Progress(r) < own /\ Progress(r) + 1 = own - all + 1
    BY <1>3, <1>4, <1>6, <1>9
  <2>2. r.todo[1] = Own(r)[own - all + 1]
    BY <1>4, <1>8, <1>9
  <2>3. QED
    BY <1>3, <1>7, <1>9, <2>1, <2>2
<1>10. CASE r.pc # "root"
  BY <1>3, <1>5, <1>8, <1>10
<1>11. QED
  BY <1>9, <1>10

(* A source is recorded, or passed over when its file is gone. *)
LEMMA RecordKeeps == IndInv /\ Record => IndInv'
<1> SUFFICES ASSUME IndInv, Record PROVE IndInv'
  OBVIOUS
<1> DEFINE todo == reading.todo
           entry == Head(todo)
           but == Excused(reading, disk)
<1>1. /\ ReadingInv(reading) /\ reading \in Reading /\ reading.pc \in Going /\ todo # <<>>
      /\ ~ reading.adding /\ OwnInForce(reading, db, disk) /\ UNCHANGED <<disk, edits, root>>
      /\ Sound(db, but) /\ Unparsed(db, but) /\ db \in Database
  BY DEF IndInv, TypeOK, Record, ReadingInv
<1>2. todo \in Seq(Entry) /\ reading.config # 0
  BY <1>1 DEF ReadingInv, Reading
<1>3. /\ entry \in Entry /\ entry = todo[1] /\ entry.path \in Paths
      /\ Tail(todo) \in Seq(Entry) /\ Len(Tail(todo)) = Len(todo) - 1 /\ Len(todo) \in Nat \ {0}
      /\ \A i \in 1..Len(Tail(todo)) : Tail(todo)[i] = todo[i + 1]
  BY <1>1, <1>2, TodoFacts
<1>4. Own(reading) \in Seq(Entry) /\ Progress(reading) \in 0..Len(Own(reading))
  BY <1>1, <1>2, ProgressWithin
<1>5. OwnInTurn(reading) /\ reading.adding = FALSE
  BY <1>1 DEF ReadingInv, Reading
<1>6. /\ reading.pc = "root" => /\ Progress(reading) < Len(Own(reading))
                                /\ Own(reading)[Progress(reading) + 1] = entry
      /\ reading.pc = "vunit" => entry.path \in VunitPaths
  BY <1>1, <1>2, <1>5, NextOwn
<1>7. CASE disk[entry.path] = Gone
  <2>1. db' = db /\ reading' = [reading EXCEPT !.todo = Tail(todo)]
    BY <1>1, <1>7 DEF Record, Reading
  <2>2. /\ reading' \in Reading /\ reading'.pc = reading.pc /\ reading'.config = reading.config
        /\ ~ reading'.adding /\ reading'.todo = Tail(todo)
    BY <1>1, <1>3, <2>1 DEF Reading
  <2>3. reading'.adding = FALSE
    BY <2>2 DEF Reading
  <2>4. /\ OwnInTurn(reading') /\ Own(reading') = Own(reading)
        /\ reading.pc = "root" => Progress(reading') = Progress(reading) + (IF reading.adding THEN 0 ELSE 1)
        /\ reading.pc # "root" => Progress(reading') = Progress(reading)
    BY <1>1, <1>2, <2>2, <2>3, OneLess
  <2>5. OwnInForce(reading', db, disk)
    <3>1. CASE reading.pc = "including"
      BY <2>2, <3>1 DEF OwnInForce
    <3>2. CASE reading.pc = "root"
      <4>1. Progress(reading') = Progress(reading) + 1
        BY <1>1, <2>4, <3>2
      <4>2. InForce(db, disk, Own(reading), Progress(reading))
        BY <1>1, <1>2, <3>2 DEF OwnInForce
      <4>3. InForce(db, disk, Own(reading), Progress(reading) + 1)
        BY <1>4, <1>6, <1>7, <3>2, <4>2, InForceSkipped
      <4>4. QED
        BY <2>4, <4>1, <4>3 DEF OwnInForce
    <3>3. CASE reading.pc = "vunit"
      <4>1. Progress(reading') = Progress(reading)
        BY <2>4, <3>3
      <4>2. QED
        BY <1>1, <2>2, <2>4, <4>1 DEF OwnInForce
    <3>4. QED
      BY <1>1, <3>1, <3>2, <3>3 DEF Going
  <2>6. ReadingInv(reading')
    BY <1>1, <1>2, <2>2, <2>4 DEF ReadingInv
  <2>7. Excused(reading', disk) = but
    BY <1>1, <2>2 DEF Excused
  <2>8. TypeOK'
    BY <1>1, <2>1, <2>6 DEF IndInv, TypeOK, ReadingInv
  <2>9. QED
    BY <1>1, <2>1, <2>5, <2>6, <2>7, <2>8 DEF IndInv
<1>8. CASE disk[entry.path] # Gone
  <2>1. db' = Recorded(db, entry) /\ reading' = [reading EXCEPT !.adding = TRUE]
    BY <1>1, <1>8 DEF Record
  <2>2. /\ reading' \in Reading /\ reading'.pc = reading.pc /\ reading'.config = reading.config
        /\ reading'.adding /\ reading'.todo = todo
    BY <1>1, <2>1 DEF Reading
  <2> DEFINE more == Excused(reading', disk)
  <2>3. more = but \cup {entry.path}
    BY <1>1, <1>3, <2>2 DEF Excused
  <2>4. Own(reading') = Own(reading)
    BY <2>2 DEF Own
  <2> HIDE DEF more, but
  <2>5. Sound(db, more) /\ entry.path \in more
    BY <1>1, <2>3, SoundExcusing
  <2>6. Sound(db', more) /\ IsRecorded(db, db', entry)
    BY <1>3, <2>1, <2>5, RecordedIsSound
  <2>7. Unparsed(db', more)
    BY <1>1, <2>3, <2>6 DEF Unparsed, IsRecorded
  <2>8. OwnInForce(reading', db', disk)
    <3>1. CASE reading.pc = "including"
      BY <2>2, <3>1 DEF OwnInForce
    <3>2. CASE reading.pc = "root"
      <4>1. Progress(reading') = Progress(reading) + 1
        <5>1. Len(Own(reading)) \in Nat
          BY <1>4
        <5>2. QED
          BY <1>1, <1>3, <2>2, <2>4, <3>2, <5>1 DEF Progress
      <4>2. InForce(db, disk, Own(reading), Progress(reading))
        BY <1>1, <1>2, <3>2 DEF OwnInForce
      <4>3. InForce(db', disk, Own(reading), Progress(reading) + 1)
        BY <1>1, <1>4, <1>6, <2>6, <3>2, <4>2, InForceRecorded
      <4>4. QED
        BY <2>4, <4>1, <4>3 DEF OwnInForce
    <3>3. CASE reading.pc = "vunit"
      <4>1. Progress(reading') = Progress(reading)
        BY <2>2, <2>4, <3>3 DEF Progress
      <4>2. InForce(db, disk, Own(reading), Progress(reading))
        BY <1>1, <1>2, <3>3 DEF OwnInForce
      <4>3. InForce(db', disk, Own(reading), Progress(reading))
        BY <1>1, <1>3, <1>4, <1>6, <2>6, <3>3, <4>2, InForceVunit
      <4>4. QED
        BY <2>4, <4>1, <4>3 DEF OwnInForce
    <3>4. QED
      BY <1>1, <3>1, <3>2, <3>3 DEF Going
  <2>9. ReadingInv(reading')
    <3>1. OwnInTurn(reading')
      BY <1>5, <2>2, <2>4 DEF OwnInTurn
    <3>2. QED
      BY <1>1, <1>2, <2>2, <3>1 DEF ReadingInv
  <2>10. TypeOK'
    <3>1. db' \in Database /\ db'.stamp = db.stamp
      BY <2>6 DEF Sound, IsRecorded
    <3>2. QED
      BY <1>1, <2>9, <3>1 DEF IndInv, TypeOK, ReadingInv
  <2>11. disk' = disk
    BY <1>1
  <2>12. QED
    BY <2>6, <2>7, <2>8, <2>9, <2>10, <2>11 DEF IndInv, more
<1>9. QED
  BY <1>7, <1>8

(* The source that was recorded is parsed, or the reading fails. *)
LEMMA ParseKeeps == IndInv /\ Parse => IndInv'
<1> SUFFICES ASSUME IndInv, Parse PROVE IndInv'
  OBVIOUS
<1> DEFINE todo == reading.todo
           path == Head(todo).path
           but == Excused(reading, disk)
<1>1. /\ ReadingInv(reading) /\ reading \in Reading /\ reading.pc \in Going /\ todo # <<>>
      /\ reading.adding /\ OwnInForce(reading, db, disk) /\ UNCHANGED <<disk, edits, root>>
      /\ Sound(db, but) /\ Unparsed(db, but) /\ db \in Database /\ Versions(disk)
  BY DiskIsVersions DEF IndInv, Parse, ReadingInv
<1>2. todo \in Seq(Entry) /\ reading.config # 0
  BY <1>1 DEF ReadingInv, Reading
<1>3. /\ path \in Paths
      /\ Tail(todo) \in Seq(Entry) /\ Len(Tail(todo)) = Len(todo) - 1 /\ Len(todo) \in Nat \ {0}
      /\ \A i \in 1..Len(Tail(todo)) : Tail(todo)[i] = todo[i + 1]
  BY <1>1, <1>2, TodoFacts
<1>4. Own(reading) \in Seq(Entry) /\ Progress(reading) \in 0..Len(Own(reading))
  BY <1>1, <1>2, ProgressWithin
<1>5. CASE disk[path] # Gone
  <2>1. db' = Parsed(db, disk, path) /\ reading' = [reading EXCEPT !.todo = Tail(todo), !.adding = FALSE]
    BY <1>1, <1>5 DEF Parse, Reading
  <2>2. /\ reading' \in Reading /\ reading'.pc = reading.pc /\ reading'.config = reading.config
        /\ ~ reading'.adding /\ reading'.todo = Tail(todo)
    BY <1>1, <1>3, <2>1 DEF Reading
  <2>3. Own(reading') = Own(reading)
    BY <2>2 DEF Own
  <2>4. /\ Sound(db', but) /\ Follows(db, db', disk) /\ Uncached(db')
        /\ db' \in Database /\ IsParsed(db, db', disk, path)
    BY <1>1, <1>3, <1>5, <2>1, ParsedIsSound, ParsedFields
  <2>5. Sound(db', Excused(reading', disk))
    BY <2>4, SoundUncached DEF Sound
  <2>6. Unparsed(db', Excused(reading', disk))
    <3>1. db'.stamp[path] # Gone
      BY <1>1, <1>3, <1>5, <2>4 DEF IsParsed, Database
    <3>2. \A p \in db'.paths : p \in Paths /\ p \in db.paths /\ (db'.stamp[p] = Gone => db.stamp[p] = Gone)
      BY <1>1, <2>4 DEF Follows, Database
    <3>3. \A p \in but : p = path \/ disk[p] = Gone
      BY <1>1 DEF Excused
    <3>4. QED
      BY <1>1, <3>1, <3>2, <3>3 DEF Unparsed, Excused
  <2>7. OwnInTurn(reading') /\ Progress(reading') = Progress(reading)
    <3>1. reading'.adding = FALSE
      BY <2>2 DEF Reading
    <3>2. /\ OwnInTurn(reading')
          /\ reading.pc = "root" => Progress(reading') = Progress(reading) + (IF reading.adding THEN 0 ELSE 1)
          /\ reading.pc # "root" => Progress(reading') = Progress(reading)
      BY <1>1, <1>2, <2>2, <3>1, OneLess
    <3>3. QED
      BY <1>1, <1>4, <3>2
  <2>8. OwnInForce(reading', db', disk)
    <3>1. InForce(db, disk, Own(reading), Progress(reading)) =>
            InForce(db', disk, Own(reading), Progress(reading))
      BY <1>4, <2>4, InForceFollows
    <3>2. QED
      BY <1>1, <2>2, <2>3, <2>7, <3>1 DEF OwnInForce
  <2>9. ReadingInv(reading')
    BY <1>1, <1>2, <2>2, <2>7 DEF ReadingInv
  <2>10. TypeOK'
    <3>1. \A p \in Paths : db'.stamp[p] <= disk[p] \/ disk[p] = Gone
      BY <1>1, <1>3, <2>4 DEF IndInv, TypeOK, IsParsed, Database, Versions
    <3>2. QED
      BY <1>1, <2>4, <2>9, <3>1 DEF IndInv, TypeOK, ReadingInv
  <2>11. disk' = disk
    BY <1>1
  <2>12. QED
    BY <2>5, <2>6, <2>8, <2>9, <2>10, <2>11 DEF IndInv
<1>6. CASE disk[path] = Gone
  <2>1. db' = db /\ reading' = [NotReading EXCEPT !.pc = "failed"]
    BY <1>1, <1>6 DEF Parse
  <2>2. /\ reading'.config = 0 /\ ~ reading'.adding /\ reading'.pc = "failed"
        /\ reading' \in Reading
    <3>1. NotReading.config = 0 /\ ~ NotReading.adding
      BY DEF NotReading
    <3>2. QED
      BY <2>1, <3>1, NotReadingIsReading DEF Reading
  <2>3. ReadingInv(reading') /\ OwnInForce(reading', db, disk)
    BY <2>2 DEF ReadingInv, OwnInTurn, OwnInForce, Going
  <2>4. but = Excused(reading', disk)
    BY <1>1, <1>3, <1>6, <2>2 DEF Excused
  <2>5. TypeOK'
    BY <1>1, <2>1, <2>3 DEF IndInv, TypeOK, ReadingInv
  <2>6. QED
    BY <1>1, <2>1, <2>3, <2>4, <2>5 DEF IndInv
<1>7. QED
  BY <1>5, <1>6

(* What the invariant needs of a call of the database. *)
LEMMA CallKeeps ==
  ASSUME IndInv, UNCHANGED <<disk, edits, root, reading>>,
         Sound(db', Excused(reading, disk)), Follows(db, db', disk)
  PROVE  IndInv'
<1>1. /\ TypeOK /\ ReadingInv(reading) /\ Unparsed(db, Excused(reading, disk))
      /\ OwnInForce(reading, db, disk) /\ db' \in Database
  BY DEF IndInv, Sound
<1>2. Unparsed(db', Excused(reading, disk))
  BY <1>1 DEF Unparsed, Follows
<1>3. OwnInForce(reading, db', disk)
  <2> SUFFICES ASSUME reading.config # 0, reading.pc # "including"
               PROVE  InForce(db', disk, Own(reading), Progress(reading))
    BY DEF OwnInForce
  <2>1. Own(reading) \in Seq(Entry) /\ Progress(reading) \in 0..Len(Own(reading))
    BY <1>1, ProgressWithin
  <2>2. InForce(db, disk, Own(reading), Progress(reading))
    BY <1>1 DEF OwnInForce
  <2>3. QED
    BY <2>1, <2>2, InForceFollows
<1>4. \A p \in Paths : db'.stamp[p] <= disk[p] \/ disk[p] = Gone
  <2> TAKE p \in Paths
  <2>1. db'.stamp[p] \in {Gone, db.stamp[p], disk[p]}
    BY DEF Follows
  <2>2. (db.stamp[p] <= disk[p] \/ disk[p] = Gone) /\ disk[p] \in Nat
    BY <1>1 DEF TypeOK
  <2>3. QED
    BY <2>1, <2>2 DEF Gone
<1>5. TypeOK'
  BY <1>1, <1>4 DEF TypeOK
<1>6. QED
  BY <1>1, <1>2, <1>3, <1>5 DEF IndInv

(* A call of getLibrary. *)
LEMMA AskedIsSound ==
  ASSUME IndInv, NEW p \in Asked, AskLibrary(p)
  PROVE  Sound(db', Excused(reading, disk)) /\ Follows(db, db', disk)
<1>1. p \in Paths /\ Versions(disk) /\ Sound(db, Excused(reading, disk))
  BY ProjectAssumption, DiskIsVersions DEF IndInv
<1>2. PICK outcome \in GetLibrary(db, disk, p) : db' = outcome.db
  BY DEF AskLibrary
<1>3. QED
  BY <1>1, <1>2, GetLibraryIsSound

(* Resolving a dependency: getLibrary, then getPathsDefining. *)
LEMMA ResolvedIsSound ==
  ASSUME IndInv, NEW p \in Resolved, Resolve(p)
  PROVE  Sound(db', Excused(reading, disk)) /\ Follows(db, db', disk)
<1> DEFINE but == Excused(reading, disk)
           Owns(use) == IF use.library # None THEN {[db |-> db, ans |-> use.library]}
                        ELSE GetLibrary(db, disk, p)
<1>1. p \in Paths /\ Versions(disk) /\ Sound(db, but) /\ db \in Database
  BY ProjectAssumption, DiskIsVersions DEF IndInv
<1>2. PICK use \in db.deps[p] :
        \E own \in Owns(use) : \E found \in GetPathsDefining(own.db, disk, use.name, own.ans) : db' = found.db
  BY DEF Resolve
<1>3. PICK own \in Owns(use) : \E found \in GetPathsDefining(own.db, disk, use.name, own.ans) : db' = found.db
  BY <1>2
<1>4. PICK found \in GetPathsDefining(own.db, disk, use.name, own.ans) : db' = found.db
  BY <1>3
<1>5. use \in Dependency
  BY <1>1 DEF Database
<1>6. use.name \in Names /\ use.library \in Known \cup {None}
  BY <1>5 DEF Dependency
<1> HIDE DEF but
<1>7. Sound(own.db, but) /\ Follows(db, own.db, disk) /\ own.ans \in Known \cup {None}
  <2>1. CASE use.library # None
    <3>1. own.db = db /\ own.ans = use.library
      BY <2>1
    <3>2. QED
      BY <1>1, <1>6, <3>1, FollowsItself
  <2>2. CASE use.library = None
    <3>1. own \in GetLibrary(db, disk, p)
      BY <2>2
    <3>2. QED
      BY <1>1, <3>1, GetLibraryIsSound
  <2>3. QED
    BY <2>1, <2>2
<1>8. Sound(found.db, but) /\ Follows(own.db, found.db, disk)
  BY <1>1, <1>6, <1>7, GetPathsDefiningIsSound
<1>9. own.db \in Database /\ found.db \in Database
  BY <1>7, <1>8 DEF Sound
<1>10. Follows(db, found.db, disk)
  BY <1>1, <1>7, <1>8, <1>9, FollowsTransitive
<1>11. QED
  BY <1>4, <1>8, <1>10 DEF but

(* An edit or a deletion excuses more sources, never fewer. *)
LEMMA EditKeeps == ASSUME IndInv, NEW p \in Editable, Edit(p) PROVE IndInv'
<1>1. /\ TypeOK /\ ReadingInv(reading) /\ Unparsed(db, Excused(reading, disk))
      /\ Sound(db, Excused(reading, disk)) /\ OwnInForce(reading, db, disk)
      /\ UNCHANGED <<root, db, reading>>
  BY DEF IndInv, Edit
<1>2. PICK w \in ({disk[p] + 1} \cap DOMAIN Texts[p]) \cup {Gone} : disk' = [disk EXCEPT ![p] = w]
  BY DEF Edit
<1>3. p \in Paths /\ disk[p] # Gone
  BY ProjectAssumption DEF Edit
<1>4. \A q \in Paths : disk'[q] # Gone => disk[q] # Gone
  BY <1>1, <1>2, <1>3 DEF TypeOK
<1>5. Excused(reading, disk) \subseteq Excused(reading, disk')
  BY <1>4 DEF Excused
<1>6. Sound(db, Excused(reading, disk')) /\ Unparsed(db, Excused(reading, disk'))
  BY <1>1, <1>5, SoundExcusing DEF Unparsed
<1>7. OwnInForce(reading, db, disk')
  <2> SUFFICES ASSUME reading.config # 0, reading.pc # "including"
               PROVE  InForce(db, disk', Own(reading), Progress(reading))
    BY DEF OwnInForce
  <2>1. Own(reading) \in Seq(Entry) /\ Progress(reading) \in 0..Len(Own(reading))
    BY <1>1, ProgressWithin
  <2>2. InForce(db, disk, Own(reading), Progress(reading))
    BY <1>1 DEF OwnInForce
  <2>3. QED
    BY <1>4, <2>1, <2>2, InForceEdited
<1>8. TypeOK'
  <2>1. w \in Nat /\ w \in {Gone} \cup DOMAIN Texts[p]
    BY <1>1, <1>2, <1>3 DEF TypeOK, Gone
  <2>2. disk' \in [Paths -> Nat] /\ \A q \in Paths : disk'[q] \in {Gone} \cup DOMAIN Texts[q]
    BY <1>1, <1>2, <2>1 DEF TypeOK
  <2>3. \A q \in Paths : db.stamp[q] <= disk'[q] \/ disk'[q] = Gone
    <3> TAKE q \in Paths
    <3>1. db.stamp[q] \in Nat /\ disk[q] \in Nat
      BY <1>1 DEF TypeOK, Database
    <3>2. CASE q = p
      <4>1. disk'[q] = w /\ db.stamp[q] <= disk[q]
        BY <1>1, <1>2, <1>3, <3>2 DEF TypeOK
      <4>2. w = Gone \/ w = disk[q] + 1
        BY <3>2
      <4>3. QED
        BY <3>1, <4>1, <4>2
    <3>3. CASE q # p
      BY <1>1, <1>2, <3>3 DEF TypeOK
    <3>4. QED
      BY <3>2, <3>3
  <2>4. edits' \in 0..MaxEdits
    BY <1>1, ProjectAssumption DEF TypeOK, Edit
  <2>5. QED
    BY <1>1, <2>2, <2>3, <2>4 DEF TypeOK
<1>9. QED
  BY <1>1, <1>6, <1>7, <1>8 DEF IndInv

(* The project file changes; it is read by a later step. *)
LEMMA EditConfigKeeps == ASSUME IndInv, EditConfig PROVE IndInv'
<1>1. root' = root + 1 /\ root < Len(RootFiles) /\ UNCHANGED <<disk, edits, db, reading>>
  BY DEF EditConfig
<1>2. root' \in DOMAIN RootFiles
  <2>1. DOMAIN RootFiles = 1..Len(RootFiles) /\ Len(RootFiles) \in Nat
    BY ProjectAssumption
  <2>2. root \in DOMAIN RootFiles
    BY DEF IndInv, TypeOK
  <2>3. QED
    BY <1>1, <2>1, <2>2
<1>3. QED
  BY <1>1, <1>2 DEF IndInv, TypeOK

(* A restart from the cache. *)
LEMMA RestartKeeps == ASSUME IndInv, Restart PROVE IndInv'
<1>1. /\ TypeOK /\ ReadingInv(reading) /\ reading \in Reading
      /\ Sound(db, Excused(reading, disk)) /\ OwnInForce(reading, db, disk) /\ db \in Database
      /\ UNCHANGED <<disk, edits, root>> /\ db' = Recovered(db)
      /\ \A p \in db.paths : db.stamp[p] # Gone
  BY DEF IndInv, Restart, ReadingInv, TypeOK
<1> DEFINE config == IF reading.pc = "read" THEN reading.config ELSE 0
<1>2. reading' = [NotReading EXCEPT !.config = config]
  BY DEF Restart
<1>3. config \in {0} \cup DOMAIN RootFiles
  BY <1>1 DEF Reading
<1>4. config # 0 => reading.pc = "read" /\ reading.config = config
  OBVIOUS
<1> HIDE DEF config
<1>5. /\ reading' \in Reading /\ reading'.config = config /\ ~ reading'.adding /\ reading'.pc = "idle"
  <2>1. NotReading.pc = "idle" /\ ~ NotReading.adding
    BY DEF NotReading
  <2>2. QED
    BY <1>2, <1>3, <2>1, NotReadingIsReading DEF Reading
<1>6. ReadingInv(reading')
  BY <1>5 DEF ReadingInv, OwnInTurn, Going
<1>7. Sound(db', Excused(reading, disk)) /\ IsRecovered(db, db')
  BY <1>1, RecoveredIsSound
<1>8. Sound(db', Excused(reading', disk))
  <2>1. Uncached(db')
    BY <1>1 DEF Recovered, Uncached, EmptyDatabase
  <2>2. QED
    BY <1>7, <2>1, SoundUncached DEF Sound
<1>9. Unparsed(db', Excused(reading', disk))
  <2>1. \A p \in db'.paths : p \in Paths /\ p \in db.paths /\ db'.stamp[p] = db.stamp[p]
    BY <1>1, <1>7 DEF IsRecovered, Database
  <2>2. QED
    BY <1>1, <2>1 DEF Unparsed
<1>10. OwnInForce(reading', db', disk)
  <2> SUFFICES ASSUME config # 0 PROVE InForce(db', disk, Own(reading'), Progress(reading'))
    BY <1>5 DEF OwnInForce
  <2>1. reading.pc = "read" /\ reading.config = config
    BY <1>4
  <2>2. Own(reading') = Own(reading) /\ Progress(reading') = Progress(reading)
    BY <1>5, <2>1 DEF Own, Progress
  <2>3. InForce(db, disk, Own(reading), Progress(reading))
    BY <1>1, <2>1 DEF OwnInForce
  <2>4. Own(reading) \in Seq(Entry) /\ Progress(reading) \in 0..Len(Own(reading))
    BY <1>1, <2>1, ProgressWithin
  <2>5. QED
    BY <1>7, <2>2, <2>3, <2>4, InForceRecovered
<1>11. TypeOK'
  <2>1. \A p \in Paths : db'.stamp[p] <= disk[p] \/ disk[p] = Gone
    BY <1>1, <1>7 DEF TypeOK, IsRecovered, Gone
  <2>2. db' \in Database
    BY <1>7 DEF Sound
  <2>3. QED
    BY <1>1, <1>6, <2>1, <2>2 DEF TypeOK, ReadingInv
<1>12. QED
  BY <1>1, <1>6, <1>8, <1>9, <1>10, <1>11 DEF IndInv

-----------------------------------------------------------------------------
(* The invariant holds at first, *)
LEMMA InitIsInd == Init => IndInv
<1> SUFFICES ASSUME Init PROVE IndInv
  OBVIOUS
<1>1. /\ reading.config = 0 /\ ~ reading.adding /\ reading.pc = "idle" /\ reading \in Reading
  BY NotReadingIsReading DEF Init, NotReading
<1>2. ReadingInv(reading) /\ OwnInForce(reading, db, disk)
  BY <1>1 DEF ReadingInv, OwnInTurn, OwnInForce, Going
<1>3. Sound(db, Excused(reading, disk)) /\ db.paths = {} /\ \A p \in Paths : db.stamp[p] = Gone
  BY EmptyDatabaseIsSound DEF Init, EmptyDatabase
<1>4. Unparsed(db, Excused(reading, disk))
  BY <1>3 DEF Unparsed
<1>5. disk \in [Paths -> Nat] /\ \A p \in Paths : disk[p] \in {Gone} \cup DOMAIN Texts[p]
  <2>1. \A p \in Paths : 1 \in DOMAIN Texts[p]
    <3> TAKE p \in Paths
    <3>1. Texts[p] \in Seq(Text) /\ Len(Texts[p]) > 0
      BY LibrariesAssumption
    <3>2. Len(Texts[p]) \in Nat /\ DOMAIN Texts[p] = 1..Len(Texts[p])
      BY <3>1
    <3>3. QED
      BY <3>1, <3>2
  <2>2. QED
    BY <2>1 DEF Init
<1>6. root \in DOMAIN RootFiles /\ edits \in 0..MaxEdits
  <2>1. DOMAIN RootFiles = 1..Len(RootFiles) /\ Len(RootFiles) \in Nat \ {0}
    BY ProjectAssumption
  <2>2. QED
    BY <2>1, ProjectAssumption DEF Init
<1>7. \A p \in Paths : db.stamp[p] <= disk[p]
  BY <1>3, <1>5 DEF Gone
<1>8. TypeOK
  BY <1>2, <1>3, <1>5, <1>6, <1>7 DEF TypeOK, ReadingInv, Sound
<1>9. QED
  BY <1>2, <1>3, <1>4, <1>8 DEF IndInv

(* every step keeps it, *)
LEMMA NextIsInd == IndInv /\ [Next]_vars => IndInv'
<1> SUFFICES ASSUME IndInv, [Next]_vars PROVE IndInv'
  OBVIOUS
<1>1. CASE Configure
  BY <1>1, StartKeeps, IncludeKeeps, ExpandRootKeeps, ExpandVunitKeeps, FinishKeeps, RecordKeeps,
     ParseKeeps DEF Configure
<1>2. CASE \E p \in Asked : AskLibrary(p)
  <2>1. PICK p \in Asked : AskLibrary(p)
    BY <1>2
  <2>2. UNCHANGED <<disk, edits, root, reading>>
    BY <2>1 DEF AskLibrary
  <2>3. QED
    BY <2>1, <2>2, AskedIsSound, CallKeeps
<1>3. CASE \E p \in Resolved : Resolve(p)
  <2>1. PICK p \in Resolved : Resolve(p)
    BY <1>3
  <2>2. UNCHANGED <<disk, edits, root, reading>>
    BY <2>1 DEF Resolve
  <2>3. QED
    BY <2>1, <2>2, ResolvedIsSound, CallKeeps
<1>4. CASE \E p \in Editable : Edit(p)
  BY <1>4, EditKeeps
<1>5. CASE EditConfig
  BY <1>5, EditConfigKeeps
<1>6. CASE Restart
  BY <1>6, RestartKeeps
<1>7. CASE UNCHANGED vars
  BY <1>7 DEF vars, IndInv, TypeOK
<1>8. QED
  BY <1>1, <1>2, <1>3, <1>4, <1>5, <1>6, <1>7 DEF Next

(* so it always holds. *)
LEMMA InvariantHolds == Spec => []IndInv
BY InitIsInd, NextIsInd, PTL DEF Spec

(* Every variable of the configured database keeps its type, and no source *)
(* is remembered with an mtime later than its file.                        *)
THEOREM TypeCorrect == Spec => []TypeOK
<1>1. IndInv => TypeOK
  BY DEF IndInv
<1>2. QED
  BY <1>1, InvariantHolds, PTL

(* A library getLibrary remembers (database.py:486-523) is the one in      *)
(* force, but for the source that is being added and those whose file is   *)
(* gone: every operation that changes a library clears or fills the cache. *)
THEOREM CachedLibrariesAreInForce == Spec => []CachedLibrariesAgree
<1>1. IndInv => CachedLibrariesAgree
  BY DEF IndInv, Sound, CachedAgree, Excused, CachedLibrariesAgree, BeingAdded
<1>2. QED
  BY <1>1, InvariantHolds, PTL

(* getLibrary remembers None of a source only while no parsed source names *)
(* a library with one of its units: a cached count is never older than the *)
(* uses it counts.                                                         *)
THEOREM NoneMeansUnused == Spec => []NoneOnlyWithoutUse
<1>1. IndInv => NoneOnlyWithoutUse
  BY DEF IndInv, Sound, NoneUnnamed, Unnamed, NoneOnlyWithoutUse
<1>2. QED
  BY <1>1, InvariantHolds, PTL

(* While getPathsDefining remembers several owners of a unit that are not  *)
(* temporary, every source that names the unit with that library has the   *)
(* diagnostic (database.py:551-634).                                       *)
THEOREM UsersOfDuplicatesAreTold == Spec => []DuplicatesAreReported
<1>1. IndInv => DuplicatesAreReported
  BY DEF IndInv, Sound, DuplicatesTold, DuplicatesAreReported
<1>2. QED
  BY <1>1, InvariantHolds, PTL

(* The database can be saved, for each of its sources has a timestamp, but *)
(* between the two steps of addSource and where a file is gone.            *)
THEOREM CacheCanBeSaved == Spec => []OnlyTheSourceBeingAddedIsUnparsed
<1>1. IndInv => OnlyTheSourceBeingAddedIsUnparsed
  BY DEF IndInv, Unparsed, Excused, OnlyTheSourceBeingAddedIsUnparsed, BeingAdded
<1>2. QED
  BY <1>1, InvariantHolds, PTL

(* Once a configuration has been read the project file's own entries are   *)
(* in force over all that was included, inferred or recovered              *)
(* (core.py:125-180), whatever happened between two entries.               *)
THEOREM OwnEntriesPrevail == Spec => []RootPrevails
<1>1. IndInv => RootPrevails
  <2> SUFFICES ASSUME IndInv, HasRead PROVE RootPrevails
    BY DEF RootPrevails
  <2> DEFINE entries == RootEntries[reading.config]
  <2>1. reading.config # 0 /\ reading.pc \notin Going /\ ReadingInv(reading)
    BY DEF HasRead, IndInv
  <2>2. entries \in Seq(Entry) /\ Own(reading) = entries
    BY <2>1, ProgressWithin DEF Own
  <2>3. Progress(reading) = Len(entries)
    BY <2>1, <2>2 DEF Progress, Going
  <2>4. InForce(db, disk, entries, Len(entries))
    BY <2>1, <2>2, <2>3 DEF IndInv, OwnInForce, Going
  <2> HIDE DEF entries
  <2>5. DOMAIN entries = 1..Len(entries)
    BY <2>2
  <2>6. \A i \in DOMAIN entries : disk[entries[i].path] # Gone => IsInForce(db, entries, i, Len(entries))
    BY <2>4, <2>5 DEF InForce
  <2>7. \A i \in DOMAIN entries :
          Later(entries, i, Len(entries)) = {j \in DOMAIN entries : j > i /\ entries[j].path = entries[i].path}
    BY <2>5 DEF Later
  <2>8. \A i \in DOMAIN entries :
          LET entry == entries[i]
              later == {j \in DOMAIN entries : j > i /\ entries[j].path = entry.path}
          IN  disk[entry.path] # Gone =>
                /\ entry.path \in db.paths
                /\ (later = {} /\ entry.path \notin VunitPaths) => db.flags[entry.path] = entry.flags
                /\ (entry.library # None /\ entry.path \notin VunitPaths
                     /\ \A j \in later : entries[j].library = None) =>
                     db.library[entry.path] = entry.library
    BY <2>6, <2>7 DEF IsInForce
  <2>9. QED
    BY <2>8 DEF entries, RootPrevails
<1>2. QED
  BY <1>1, InvariantHolds, PTL

(* What a step may do to the library of a source. *)
LibraryChanges ==
  \A p \in Paths : (db.library[p] # None /\ db'.library[p] # db.library[p]) =>
     \/ p \notin db'.paths
     \/ BeingAdded(p)' /\ ~ BeingAdded(p)

(* Every step changes libraries as LibraryChanges says. *)
LEMMA NextChangesLibraries == IndInv /\ [Next]_vars => LibraryChanges
<1> SUFFICES ASSUME IndInv, [Next]_vars PROVE LibraryChanges
  OBVIOUS
<1>1. Sound(db, Excused(reading, disk)) /\ db \in Database /\ ReadingInv(reading) /\ reading \in Reading
      /\ Versions(disk)
  BY DiskIsVersions DEF IndInv, TypeOK, ReadingInv
<1>2. CASE db' = db
  BY <1>2 DEF LibraryChanges
<1>3. CASE Follows(db, db', disk)
  BY <1>3 DEF LibraryChanges, Follows
<1>4. CASE Record /\ db' # db
  <2> DEFINE entry == Head(reading.todo)
  <2>1. /\ db' = Recorded(db, entry) /\ reading' = [reading EXCEPT !.adding = TRUE]
        /\ ~ reading.adding /\ reading.todo # <<>>
    BY <1>4 DEF Record
  <2>2. entry \in Entry /\ entry.path \in Paths
    BY <1>1, <2>1, TodoFacts DEF Reading
  <2>3. reading'.adding /\ reading'.todo = reading.todo
    BY <1>1, <2>1 DEF Reading
  <2>4. \A p \in Paths : p # entry.path => db'.library[p] = db.library[p]
    BY <1>1, <2>1, <2>2 DEF Recorded, Database
  <2>5. \A p \in Paths : p = entry.path => BeingAdded(p)' /\ ~ BeingAdded(p)
    BY <2>1, <2>3 DEF BeingAdded
  <2>6. QED
    BY <2>4, <2>5 DEF LibraryChanges
<1>5. CASE Parse /\ db' # db
  <2> DEFINE path == Head(reading.todo).path
  <2>1. db' = Parsed(db, disk, path) /\ disk[path] # Gone /\ reading.adding
    BY <1>5 DEF Parse
  <2>2. path \in Paths
    BY <1>1, <2>1, TodoFacts DEF Reading, ReadingInv
  <2>3. Follows(db, db', disk)
    BY <1>1, <2>1, <2>2, ParsedIsSound
  <2>4. QED
    BY <1>3, <2>3
<1>6. CASE Restart
  <2>1. IsRecovered(db, db')
    BY <1>1, <1>6, RecoveredIsSound DEF Restart
  <2>2. QED
    BY <2>1 DEF LibraryChanges, IsRecovered
<1>7. CASE \E p \in Asked : AskLibrary(p)
  BY <1>3, <1>7, AskedIsSound
<1>8. CASE \E p \in Resolved : Resolve(p)
  BY <1>3, <1>8, ResolvedIsSound
<1>9. QED
  BY <1>2, <1>4, <1>5, <1>6, <1>7, <1>8
     DEF Next, Configure, Start, Include, ExpandRoot, ExpandVunit, Finish, Edit, EditConfig, vars

(* A library that was given or worked out is replaced only when the source *)
(* is listed again, and lost only when its file is found gone.             *)
THEOREM LibrariesAreKept == Spec => LibraryChangesOnlyByListing
<1>1. IndInv /\ [Next]_vars => LibraryChanges
  BY NextChangesLibraries
<1>2. LibraryChanges <=>
        \A p \in Paths : (db.library[p] # None /\ db'.library[p] # db.library[p]) =>
          \/ p \notin db'.paths
          \/ BeingAdded(p)' /\ ~ BeingAdded(p)
  BY DEF LibraryChanges
<1>3. QED
  BY <1>1, <1>2, InvariantHolds, PTL DEF Spec, LibraryChangesOnlyByListing

-----------------------------------------------------------------------------
(* What a reading leaves out: nothing.                                     *)

(* A path may go through every file and folder there is: that of a file    *)
(* that can be reached is short enough to be opened.                       *)
PathsFit == IsFiniteSet(Files \cup Folders) /\ MaxHops >= Cardinality(Files \cup Folders) + 2

(* The place that stands for a file in what is meant by including. *)
Canonical(n) == [node |-> n, hops |-> <<FolderAt(n)>>]

(* What is read at a place does not depend on how it is spelled.           *)
LEMMA LoadedByNode ==
  ASSUME NEW p \in Place, Len(p.hops) <= MaxHops
  PROVE  /\ Loaded(Canonical(p.node)) = Loaded(p) /\ EntriesAt(Canonical(p.node)) = EntriesAt(p)
         /\ Canonical(p.node) \in Place
<1> DEFINE c == Canonical(p.node)
<1>1. p.node \in Files \cup Folders /\ p.hops \in Seq(Folders) /\ MaxHops \in Nat \ {0}
  BY ConfigFilesAssumption DEF Place
<1>2. FolderAt(p.node) \in Folders
  BY <1>1, ConfigFilesAssumption DEF FolderAt
<1>3. c.node = p.node /\ c.hops = <<FolderAt(p.node)>> /\ Len(c.hops) = 1 /\ c \in Place
  BY <1>1, <1>2 DEF Canonical, Place
<1> HIDE DEF c
<1>4. ~ (Len(p.hops) > MaxHops) /\ ~ (Len(c.hops) > MaxHops)
  BY <1>1, <1>3
<1>5. FileAt(c) = FileAt(p)
  BY <1>3 DEF FileAt
<1>6. Loaded(c) = Loaded(p)
  BY <1>3, <1>4, <1>5 DEF Loaded
<1>7. EntriesAt(c) = EntriesAt(p)
  BY <1>3, <1>6 DEF EntriesAt
<1>8. QED
  BY <1>3, <1>6, <1>7 DEF c

(* Spelling an included path adds one folder at most.                      *)
LEMMA SpelledLength ==
  ASSUME NEW hops \in Seq(Folders), NEW item \in Item
  PROVE  Spelled(hops, item).node = item.node /\ Len(Spelled(hops, item).hops) <= Len(hops) + 1
<1>1. Len(hops) \in Nat
  OBVIOUS
<1> DEFINE folder == FolderAt(item.node)
<1>2. Len(<<folder>>) = 1 /\ Len(Append(hops, folder)) = Len(hops) + 1
  <2>1. folder \in Folders
    BY ConfigFilesAssumption DEF FolderAt, Item
  <2>2. QED
    BY <2>1
<1>3. QED
  BY <1>1, <1>2 DEF Spelled

(* Everything that the read places include is among them.                  *)
IsClosed(places) ==
  \A q \in places : \A config \in Loaded(q) : SpelledAll(q.hops, config.include) \subseteq places

(* So whatever can be reached has been read, by a path short enough. *)
LEMMA ReachedIsRead ==
  ASSUME PathsFit, NEW config \in Configuration, NEW places \in SUBSET Place,
         SpelledAll(<<Root>>, config.include) \subseteq places, IsClosed(places)
  PROVE  \A n \in Reachable(config) : \E q \in places : q.node = n /\ Len(q.hops) <= MaxHops
<1> DEFINE Nodes == Files \cup Folders
           N == Cardinality(Nodes)
           D == SUBSET Nodes
           start == {item.node : item \in Range(config.include)}
           More(nodes) == {item.node : item \in UNION {Range(read.include) :
                             read \in UNION {Loaded(Canonical(n)) : n \in nodes}}}
           Further(nodes) == nodes \cup More(nodes)
           Is(f) == f = [i \in 0..N |-> IF i = 0 THEN start ELSE Further(f[i - 1])]
           reach == CHOOSE f : Is(f)
           step == [x \in D \X (1..N) |-> Further(x[1])]
<1>1. N \in Nat /\ MaxHops \in Nat /\ MaxHops >= N + 2
  BY FS_CardinalityType, ConfigFilesAssumption DEF PathsFit
<1>2. Reachable(config) = reach[N]
  BY DEF Reachable, Canonical
<1>3. config.include \in Seq(Item)
  BY DEF Configuration
<1>4. start \in D
  <2>1. \A item \in Item : item.node \in Nodes
    BY DEF Item
  <2>2. Range(config.include) \subseteq Item
    BY <1>3 DEF Range
  <2>3. QED
    BY <2>1, <2>2
<1>5. ASSUME NEW nodes \in D, NEW n \in More(nodes)
      PROVE  \E m \in nodes : \E read \in Loaded(Canonical(m)) : \E i \in DOMAIN read.include :
               /\ read.include[i].node = n /\ read.include \in Seq(Item) /\ n \in Nodes
  <2>1. PICK item \in UNION {Range(read.include) : read \in UNION {Loaded(Canonical(m)) : m \in nodes}} :
          item.node = n
    BY <1>5
  <2>2. PICK m \in nodes : \E read \in Loaded(Canonical(m)) : item \in Range(read.include)
    BY <2>1
  <2>8. PICK read \in Loaded(Canonical(m)) : item \in Range(read.include)
    BY <2>2
  <2>3. PICK i \in DOMAIN read.include : read.include[i] = item
    BY <2>8 DEF Range
  <2>4. Canonical(m) \in Place
    <3>1. FolderAt(m) \in Folders /\ m \in Nodes
      BY ConfigFilesAssumption DEF FolderAt
    <3>2. QED
      BY <3>1 DEF Canonical, Place
  <2>5. read.include \in Seq(Item)
    BY <2>4, LoadedIsRead DEF Configuration
  <2>6. n \in Nodes
    <3>1. item \in Item
      BY <2>3, <2>5
    <3>2. QED
      BY <2>1, <3>1 DEF Item
  <2>7. QED
    BY <2>1, <2>2, <2>3, <2>5, <2>6
<1> HIDE DEF More
<1>6. ASSUME NEW nodes \in D PROVE Further(nodes) \in D
  BY <1>5
<1> HIDE DEF N, D, start, Further
<1>7. step \in [D \X (1..N) -> D] /\ \A x \in D, n \in 1..N : step[<<x, n>>] = Further(x)
  BY <1>6
<1> HIDE DEF step
<1>8. PICK g \in [0..N -> D] : Follow(g, start, N, step)
  BY <1>1, <1>4, <1>7, Recursion
<1>9. ASSUME NEW i \in 0..N PROVE g[i] = IF i = 0 THEN start ELSE Further(g[i - 1])
  <2>1. CASE i = 0
    BY <1>8, <2>1 DEF Follow
  <2>2. CASE i # 0
    <3>1. i \in 1..N /\ i - 1 \in 0..N
      BY <1>1, <2>2
    <3>2. g[i] = step[<<g[i - 1], i>>] /\ g[i - 1] \in D
      BY <1>8, <3>1 DEF Follow
    <3>3. QED
      BY <1>7, <2>2, <3>1, <3>2
  <2>3. QED
    BY <2>1, <2>2
<1>10. g = [i \in 0..N |-> g[i]]
  BY <1>8
<1>11. Is(g)
  BY <1>9, <1>10
<1>12. Is(reach)
  BY <1>11
<1> HIDE DEF reach
<1> DEFINE IsRead(n, i) == \E q \in places : q.node = n /\ Len(q.hops) <= i + 2
           S == {i \in 0..N : reach[i] \in D /\ \A n \in reach[i] : IsRead(n, i)}
<1>13. 0 \in S
  <2>1. reach[0] = start
    BY <1>1, <1>12
  <2>2. ASSUME NEW n \in start PROVE IsRead(n, 0)
    <3>1. PICK j \in DOMAIN config.include : config.include[j].node = n
      BY <2>2 DEF start, Range
    <3>2. Spelled(<<Root>>, config.include[j]) \in places
      BY <3>1 DEF SpelledAll
    <3>3. config.include[j] \in Item /\ <<Root>> \in Seq(Folders) /\ Len(<<Root>>) = 1
      BY <1>3, <3>1, ProjectAssumption
    <3>4. /\ Spelled(<<Root>>, config.include[j]).node = n
          /\ Len(Spelled(<<Root>>, config.include[j]).hops) <= 2
      <4>1. /\ Spelled(<<Root>>, config.include[j]).node = n
            /\ Len(Spelled(<<Root>>, config.include[j]).hops) <= Len(<<Root>>) + 1
        BY <3>1, <3>3, SpelledLength
      <4>2. QED
        BY <3>3, <4>1
    <3>5. QED
      BY <3>2, <3>4
  <2>3. QED
    BY <1>1, <1>4, <2>1, <2>2
<1>14. ASSUME NEW i \in 1..N, i - 1 \in S PROVE i \in S
  <2>1. reach[i - 1] \in D /\ (\A n \in reach[i - 1] : IsRead(n, i - 1)) /\ i \in Nat /\ i <= N
    BY <1>1, <1>14
  <2>2. reach[i] = Further(reach[i - 1])
    BY <1>1, <1>12
  <2>3. ASSUME NEW n \in reach[i] PROVE IsRead(n, i)
    <3>1. CASE n \in reach[i - 1]
      <4>1. PICK q \in places : q.node = n /\ Len(q.hops) <= (i - 1) + 2
        BY <2>1, <3>1
      <4>2. Len(q.hops) \in Nat
        BY DEF Place
      <4>3. Len(q.hops) <= i + 2
        BY <2>1, <4>1, <4>2
      <4>4. QED
        BY <4>1, <4>3
    <3>2. CASE n \notin reach[i - 1]
      <4>1. n \in More(reach[i - 1])
        BY <2>2, <3>2 DEF Further
      <4>2. PICK m \in reach[i - 1] : \E read \in Loaded(Canonical(m)) : \E j \in DOMAIN read.include :
              read.include[j].node = n /\ read.include \in Seq(Item)
        BY <1>5, <2>1, <4>1 DEF D
      <4>13. PICK read \in Loaded(Canonical(m)) : \E j \in DOMAIN read.include :
               read.include[j].node = n /\ read.include \in Seq(Item)
        BY <4>2
      <4>14. PICK j \in DOMAIN read.include : read.include[j].node = n /\ read.include \in Seq(Item)
        BY <4>13
      <4>3. PICK q \in places : q.node = m /\ Len(q.hops) <= (i - 1) + 2
        BY <2>1
      <4>4. q \in Place /\ q.hops \in Seq(Folders) /\ Len(q.hops) \in Nat 
        BY DEF Place
      <4>5. Len(q.hops) <= i + 1 /\ Len(q.hops) <= MaxHops
        BY <1>1, <2>1, <4>3, <4>4
      <4>6. read \in Loaded(q)
        BY <4>3, <4>4, <4>5, LoadedByNode
      <4> DEFINE found == Spelled(q.hops, read.include[j])
      <4>7. found \in places
        BY <4>6 DEF IsClosed, SpelledAll
      <4>8. read.include[j] \in Item
        BY <4>14
      <4>9. found.node = n /\ Len(found.hops) <= Len(q.hops) + 1
        BY <4>4, <4>8, <4>14, SpelledLength
      <4>10. Len(found.hops) \in Nat
        BY <4>7 DEF Place
      <4>11. Len(found.hops) <= i + 2
        <5> HIDE DEF found
        <5>1. QED
          BY <2>1, <4>4, <4>5, <4>9, <4>10
      <4>12. QED
        BY <4>7, <4>9, <4>11
    <3>3. QED
      BY <3>1, <3>2
  <2>4. reach[i] \in D
    BY <1>6, <2>1, <2>2
  <2>5. QED
    BY <2>3, <2>4
<1> HIDE DEF S
<1>15. \A i \in 0..N : i \in S
  BY <1>1, <1>13, <1>14, Induction
<1>16. \A n \in reach[N] : IsRead(n, N)
  BY <1>1, <1>15 DEF S
<1>17. ASSUME NEW n \in reach[N] PROVE \E q \in places : q.node = n /\ Len(q.hops) <= MaxHops
  <2>1. PICK q \in places : q.node = n /\ Len(q.hops) <= N + 2
    BY <1>16
  <2>2. Len(q.hops) \in Nat
    BY DEF Place
  <2>3. QED
    BY <1>1, <2>1, <2>2
<1>18. QED
  BY <1>2, <1>17

(* A source that is listed is in the project, or its file is gone.         *)
IsPresent(p, d, v) == p \in Paths /\ (v[p] = Gone \/ p \in d.paths)

(* What is yet to be read, once all that is included by what was read is   *)
(* counted.                                                                *)
IncludedInTurn(r) ==
  r.pc \in Going =>
    /\ SpelledAll(<<Root>>, Reads[r.config].config.include) \subseteq r.checked \cup r.paths
    /\ \A q \in r.checked : \A config \in Loaded(q) :
         SpelledAll(q.hops, config.include) \subseteq r.checked \cup r.paths
    /\ r.pc # "including" => r.paths = {}

(* What was read lists sources that are present or about to be added.      *)
ListedInTurn(r, d, v) ==
  r.pc \in Going =>
    /\ \A q \in r.checked : \A i \in DOMAIN EntriesAt(q) :
         \/ IsPresent(EntriesAt(q)[i].path, d, v)
         \/ \E j \in DOMAIN r.todo : r.todo[j].path = EntriesAt(q)[i].path
    /\ r.adding => IsPresent(Head(r.todo).path, d, v)

(* When the reading has ended all that is listed is present.               *)
ListedIsPresent(r, d, v) ==
  (r.config # 0 /\ r.pc \notin Going) => \A p \in Listed[r.config] : IsPresent(p, d, v)

ListedInv ==
  /\ IncludedInTurn(reading) /\ ListedInTurn(reading, db, disk) /\ ListedIsPresent(reading, db, disk)

(* What is present stays so. *)
StaysPresent == \A p \in Paths : IsPresent(p, db, disk) => IsPresent(p, db', disk')

(* No step takes a source out of the project while its file is there.      *)
LEMMA PresentStays == ASSUME IndInv, [Next]_vars PROVE StaysPresent
<1>1. Sound(db, Excused(reading, disk)) /\ db \in Database /\ ReadingInv(reading) /\ reading \in Reading
      /\ Versions(disk)
  BY DiskIsVersions DEF IndInv, TypeOK, ReadingInv
<1>2. CASE UNCHANGED <<db, disk>>
  BY <1>2 DEF StaysPresent
<1>3. ASSUME Follows(db, db', disk), disk' = disk PROVE StaysPresent
  BY <1>3 DEF StaysPresent, IsPresent, Follows
<1>4. CASE Record /\ db' # db
  <2>1. db' = Recorded(db, Head(reading.todo)) /\ disk' = disk /\ reading.todo # <<>>
    BY <1>4 DEF Record
  <2>2. db.paths \subseteq db'.paths
    BY <1>1, <2>1 DEF Recorded, Database
  <2>3. QED
    BY <2>1, <2>2 DEF StaysPresent, IsPresent
<1>5. CASE Parse /\ db' # db
  <2> DEFINE path == Head(reading.todo).path
  <2>1. db' = Parsed(db, disk, path) /\ disk[path] # Gone /\ reading.adding /\ disk' = disk
    BY <1>5 DEF Parse
  <2>2. path \in Paths
    BY <1>1, <2>1, TodoFacts DEF Reading, ReadingInv
  <2>3. Follows(db, db', disk)
    BY <1>1, <2>1, <2>2, ParsedIsSound
  <2>4. QED
    BY <1>3, <2>1, <2>3
<1>6. CASE Restart
  <2>1. IsRecovered(db, db') /\ disk' = disk
    BY <1>1, <1>6, RecoveredIsSound DEF Restart
  <2>2. QED
    BY <2>1 DEF StaysPresent, IsPresent, IsRecovered
<1>7. CASE \E p \in Asked : AskLibrary(p)
  BY <1>3, <1>7, AskedIsSound DEF AskLibrary
<1>8. CASE \E p \in Resolved : Resolve(p)
  BY <1>3, <1>8, ResolvedIsSound DEF Resolve
<1>9. CASE \E p \in Editable : Edit(p)
  <2>1. PICK p \in Editable : Edit(p)
    BY <1>9
  <2>2. db' = db /\ disk[p] # Gone /\ \A q \in Paths : q # p => disk'[q] = disk[q]
    BY <1>1, <2>1 DEF Edit, Versions
  <2>3. QED
    BY <2>2 DEF StaysPresent, IsPresent
<1>10. QED
  BY <1>2, <1>4, <1>5, <1>6, <1>7, <1>8, <1>9
     DEF Next, Configure, Start, Include, ExpandRoot, ExpandVunit, Finish, Record, Parse, EditConfig, vars

(* The invariant survives whatever leaves the reading alone, *)
LEMMA ListedWithoutReading == ASSUME ListedInv, StaysPresent, reading' = reading PROVE ListedInv'
<1>1. \A p : IsPresent(p, db, disk) => IsPresent(p, db', disk')
  BY DEF StaysPresent, IsPresent
<1>2. IncludedInTurn(reading)'
  BY DEF ListedInv, IncludedInTurn
<1>3. ListedInTurn(reading', db', disk')
  BY <1>1 DEF ListedInv, ListedInTurn
<1>4. ListedIsPresent(reading', db', disk')
  BY <1>1 DEF ListedInv, ListedIsPresent
<1>5. QED
  BY <1>2, <1>3, <1>4 DEF ListedInv

(* a reading that starts or fails, *)
LEMMA ListedAtStart == ASSUME IndInv, Start PROVE ListedInv'
<1>1. root \in DOMAIN RootFiles
  BY DEF IndInv, TypeOK
<1>2. CASE Reads[root] = Refused
  <2>1. reading'.config = 0 /\ reading'.pc = "failed"
    BY <1>2 DEF Start, NotReading
  <2>2. QED
    BY <2>1 DEF ListedInv, IncludedInTurn, ListedInTurn, ListedIsPresent, Going
<1>3. CASE Reads[root] # Refused
  <2>1. /\ reading'.pc = "including" /\ reading'.config = root /\ reading'.checked = {} /\ ~ reading'.adding
        /\ reading'.paths = SpelledAll(<<Root>>, Reads[root].config.include)
    BY <1>3 DEF Start, NotReading
  <2>2. QED
    BY <2>1 DEF ListedInv, IncludedInTurn, ListedInTurn, ListedIsPresent, Going
<1>4. QED
  BY <1>2, <1>3

(* a round of getIncludedConfigs: what the file includes is yet to be read *)
(* and what it lists is yet to be added, *)
LEMMA ListedAtInclude == ASSUME IndInv, ListedInv, Include PROVE ListedInv'
<1>1. /\ reading \in Reading /\ ReadingInv(reading) /\ reading.pc = "including" /\ reading.todo = <<>>
      /\ disk' = disk /\ db' = db
  BY DEF IndInv, ReadingInv, Include
<1>2. PICK path \in reading.paths :
        reading' = [reading EXCEPT !.checked = reading.checked \cup {path},
                      !.paths = (@ \ {path}) \cup NewlyIncluded(path, reading.checked \cup {path}),
                      !.todo = EntriesAt(path)]
  BY DEF Include
<1>3. /\ reading'.pc = "including" /\ reading'.config = reading.config /\ reading'.adding = reading.adding
      /\ reading'.checked = reading.checked \cup {path} /\ reading'.todo = EntriesAt(path)
      /\ reading'.paths = (reading.paths \ {path}) \cup NewlyIncluded(path, reading.checked \cup {path})
  BY <1>1, <1>2 DEF Reading
<1>4. ~ reading.adding
  BY <1>1 DEF ReadingInv
<1>5. reading.checked \cup reading.paths \subseteq reading'.checked \cup reading'.paths
  BY <1>3
<1>6. \A config \in Loaded(path) : SpelledAll(path.hops, config.include) \subseteq reading'.checked \cup reading'.paths
  BY <1>3 DEF NewlyIncluded
<1>7. IncludedInTurn(reading')
  BY <1>1, <1>3, <1>5, <1>6 DEF ListedInv, IncludedInTurn, Going
<1>8. ASSUME NEW q \in reading.checked, NEW i \in DOMAIN EntriesAt(q)
      PROVE  IsPresent(EntriesAt(q)[i].path, db, disk)
  BY <1>1 DEF ListedInv, ListedInTurn, Going
<1>9. ListedInTurn(reading', db', disk')
  BY <1>1, <1>3, <1>4, <1>8 DEF ListedInTurn
<1>10. QED
  BY <1>3, <1>7, <1>9 DEF ListedInv, ListedIsPresent, Going

(* the turns of the own entries and of VUnit, when nothing is left, *)
LEMMA ListedAtExpand == ASSUME IndInv, ListedInv, ExpandRoot \/ ExpandVunit PROVE ListedInv'
<1>1. /\ reading \in Reading /\ ReadingInv(reading) /\ reading.pc \in {"including", "root"} /\ reading.todo = <<>>
      /\ reading.pc = "including" => reading.paths = {}
      /\ disk' = disk /\ db' = db
  BY DEF IndInv, ReadingInv, ExpandRoot, ExpandVunit
<1>2. /\ reading'.pc \in {"root", "vunit"} /\ reading'.config = reading.config /\ reading'.adding = reading.adding
      /\ reading'.checked = reading.checked /\ reading'.paths = reading.paths
  BY <1>1 DEF ExpandRoot, ExpandVunit, Reading
<1>3. ~ reading.adding
  BY <1>1 DEF ReadingInv
<1>4. reading.pc \in Going /\ reading'.pc \in Going
  BY <1>1, <1>2 DEF Going
<1>5. IncludedInTurn(reading')
  BY <1>1, <1>2, <1>4 DEF ListedInv, IncludedInTurn
<1>6. ASSUME NEW q \in reading.checked, NEW i \in DOMAIN EntriesAt(q)
      PROVE  IsPresent(EntriesAt(q)[i].path, db, disk)
  BY <1>1, <1>4 DEF ListedInv, ListedInTurn
<1>7. ListedInTurn(reading', db', disk')
  BY <1>1, <1>2, <1>3, <1>6 DEF ListedInTurn
<1>8. QED
  BY <1>4, <1>5, <1>7 DEF ListedInv, ListedIsPresent

(* an entry that is present and may be done with,                          *)
LEMMA ListedOnward ==
  ASSUME IndInv, ListedInv, StaysPresent, reading.pc \in Going, reading.todo # <<>>,
         reading'.pc = reading.pc, reading'.config = reading.config,
         reading'.checked = reading.checked, reading'.paths = reading.paths,
         reading'.todo = reading.todo \/ (reading'.todo = Tail(reading.todo) /\ ~ reading'.adding),
         IsPresent(Head(reading.todo).path, db', disk')
  PROVE  ListedInv'
<1> DEFINE entry == Head(reading.todo)
<1>1. reading.todo \in Seq(Entry)
  BY DEF IndInv, ReadingInv, Reading
<1>2. /\ entry = reading.todo[1] /\ Tail(reading.todo) \in Seq(Entry)
      /\ Len(Tail(reading.todo)) = Len(reading.todo) - 1 /\ Len(reading.todo) \in Nat \ {0}
      /\ \A i \in 1..Len(Tail(reading.todo)) : Tail(reading.todo)[i] = reading.todo[i + 1]
  BY <1>1, TodoFacts
<1>3. \A p : IsPresent(p, db, disk) => IsPresent(p, db', disk')
  BY DEF StaysPresent, IsPresent
<1>4. IncludedInTurn(reading')
  BY DEF ListedInv, IncludedInTurn
<1> HIDE DEF entry
<1>5. ASSUME NEW j \in DOMAIN reading.todo
      PROVE  reading.todo[j].path = entry.path \/ \E k \in DOMAIN reading'.todo : reading'.todo[k] = reading.todo[j]
  <2>1. j \in 1..Len(reading.todo)
    BY <1>1
  <2>2. CASE j = 1
    BY <1>2, <2>2
  <2>3. CASE reading'.todo = reading.todo
    BY <2>3
  <2>4. CASE j # 1 /\ reading'.todo = Tail(reading.todo)
    <3>1. DOMAIN Tail(reading.todo) = 1..Len(Tail(reading.todo))
      BY <1>2
    <3>2. j - 1 \in DOMAIN Tail(reading.todo) /\ Tail(reading.todo)[j - 1] = reading.todo[(j - 1) + 1]
      BY <1>2, <2>1, <2>4, <3>1
    <3>3. (j - 1) + 1 = j
      BY <2>1
    <3>4. QED
      BY <2>4, <3>2, <3>3
  <2>5. QED
    BY <2>2, <2>3, <2>4
<1>6. ASSUME NEW q \in reading.checked, NEW i \in DOMAIN EntriesAt(q),
             ~ IsPresent(EntriesAt(q)[i].path, db', disk')
      PROVE  \E k \in DOMAIN reading'.todo : reading'.todo[k].path = EntriesAt(q)[i].path
  <2>1. ~ IsPresent(EntriesAt(q)[i].path, db, disk)
    BY <1>3, <1>6
  <2>2. PICK j \in DOMAIN reading.todo : reading.todo[j].path = EntriesAt(q)[i].path
    BY <2>1 DEF ListedInv, ListedInTurn
  <2>3. QED
    BY <1>5, <1>6, <2>2 DEF entry
<1>7. reading'.adding => IsPresent(Head(reading'.todo).path, db', disk')
  OBVIOUS
<1>8. ListedInTurn(reading', db', disk')
  BY <1>6, <1>7 DEF ListedInTurn
<1>9. QED
  BY <1>4, <1>8 DEF ListedInv, ListedIsPresent

(* which is the case of one that is recorded or passed over,               *)
LEMMA ListedAtRecord == ASSUME IndInv, ListedInv, StaysPresent, Record PROVE ListedInv'
<1> DEFINE entry == Head(reading.todo)
<1>1. /\ reading \in Reading /\ reading.pc \in Going /\ reading.todo # <<>> /\ ~ reading.adding
      /\ reading.todo \in Seq(Entry) /\ db \in Database /\ disk' = disk
  BY DEF IndInv, ReadingInv, Record, Reading, TypeOK
<1>2. entry.path \in Paths /\ entry \in Entry
  BY <1>1, TodoFacts
<1>3. /\ reading'.pc = reading.pc /\ reading'.config = reading.config
      /\ reading'.checked = reading.checked /\ reading'.paths = reading.paths
      /\ reading'.todo = reading.todo \/ (reading'.todo = Tail(reading.todo) /\ ~ reading'.adding)
  BY <1>1 DEF Record, Reading
<1>4. IsPresent(entry.path, db', disk')
  <2>1. CASE disk[entry.path] = Gone
    BY <1>1, <1>2, <2>1 DEF IsPresent
  <2>2. CASE disk[entry.path] # Gone
    <3>1. db' = Recorded(db, entry)
      BY <2>2 DEF Record
    <3>2. entry.path \in db'.paths
      BY <1>1, <1>2, <3>1 DEF Recorded, Database
    <3>3. QED
      BY <1>2, <3>2 DEF IsPresent
  <2>3. QED
    BY <2>1, <2>2
<1>5. QED
  BY <1>1, <1>3, <1>4, ListedOnward

(* and of one that is parsed,                                              *)
LEMMA ListedAtParse == ASSUME IndInv, ListedInv, StaysPresent, Parse PROVE ListedInv'
<1> DEFINE path == Head(reading.todo).path
<1>1. /\ reading \in Reading /\ reading.pc \in Going /\ reading.todo # <<>> /\ reading.adding
      /\ reading.todo \in Seq(Entry)
  BY DEF IndInv, ReadingInv, Parse, Reading, TypeOK
<1>2. CASE disk[path] # Gone
  <2>1. /\ reading'.pc = reading.pc /\ reading'.config = reading.config
        /\ reading'.checked = reading.checked /\ reading'.paths = reading.paths
        /\ reading'.todo = Tail(reading.todo) /\ ~ reading'.adding
    BY <1>1, <1>2 DEF Parse, Reading
  <2>2. IsPresent(path, db, disk)
    BY <1>1 DEF ListedInv, ListedInTurn
  <2>3. IsPresent(path, db', disk')
    BY <2>2 DEF StaysPresent, IsPresent
  <2>4. QED
    BY <1>1, <2>1, <2>3, ListedOnward
<1>3. CASE disk[path] = Gone
  <2>1. reading'.config = 0 /\ reading'.pc = "failed"
    BY <1>3 DEF Parse, NotReading
  <2>2. QED
    BY <2>1 DEF ListedInv, IncludedInTurn, ListedInTurn, ListedIsPresent, Going
<1>4. QED
  BY <1>2, <1>3

(* a restart,                                                              *)
LEMMA ListedAtRestart == ASSUME IndInv, ListedInv, StaysPresent, Restart PROVE ListedInv'
<1>1. /\ reading'.pc = "idle"
      /\ reading'.config # 0 => reading.pc = "read" /\ reading'.config = reading.config
  BY DEF Restart, NotReading
<1>2. \A p : IsPresent(p, db, disk) => IsPresent(p, db', disk')
  BY DEF StaysPresent, IsPresent
<1>3. ListedIsPresent(reading', db', disk')
  BY <1>1, <1>2 DEF ListedInv, ListedIsPresent, Going
<1>4. QED
  BY <1>1, <1>3 DEF ListedInv, IncludedInTurn, ListedInTurn, Going

(* and the end of a reading: whatever can be reached was read, and nothing *)
(* of it is left.                                                          *)
LEMMA ListedAtFinish == ASSUME PathsFit, IndInv, ListedInv, Finish PROVE ListedInv'
<1>1. /\ reading \in Reading /\ ReadingInv(reading) /\ reading.pc = "vunit" /\ reading.todo = <<>>
      /\ OwnInForce(reading, db, disk) /\ disk' = disk /\ db' = db
      /\ reading'.pc = "read" /\ reading'.config = reading.config
  BY DEF IndInv, Finish, ReadingInv, NotReading
<1> DEFINE version == reading.config
           config == Reads[version].config
           places == reading.checked
<1>2. version # 0 /\ version \in DOMAIN RootFiles /\ places \in SUBSET Place
  BY <1>1 DEF ReadingInv, Reading, Going
<1>3. \A q \in places : \A i \in DOMAIN EntriesAt(q) : IsPresent(EntriesAt(q)[i].path, db, disk)
  BY <1>1 DEF ListedInv, ListedInTurn, Going
<1>4. CASE Reads[version] = Refused
  <2>1. Listed[version] = {}
    BY <1>2, <1>4 DEF Listed
  <2>2. QED
    BY <1>1, <2>1 DEF ListedInv, IncludedInTurn, ListedInTurn, ListedIsPresent, Going
<1>5. CASE Reads[version] # Refused
  <2>1. config \in Configuration /\ RootEntries[version] = Expand(config, Root)
        /\ Listed[version] = ListedBy(config, Root)
    BY <1>2, <1>5, RootEntriesAreEntries DEF RootEntries, Listed
  <2>2. reading.paths = {} /\ SpelledAll(<<Root>>, config.include) \subseteq places /\ IsClosed(places)
    BY <1>1 DEF ListedInv, IncludedInTurn, IsClosed, Going
  <2>3. ASSUME NEW e \in Range(RootEntries[version]) PROVE IsPresent(e.path, db, disk)
    <3>1. Own(reading) = RootEntries[version] /\ Progress(reading) = Len(RootEntries[version])
      BY <1>1 DEF Own, Progress
    <3>2. RootEntries[version] \in Seq(Entry)
      BY <1>2, RootEntriesAreEntries
    <3>3. InForce(db, disk, RootEntries[version], Len(RootEntries[version]))
      BY <1>1, <1>2, <3>1 DEF OwnInForce
    <3>4. PICK i \in 1..Len(RootEntries[version]) : RootEntries[version][i] = e
      BY <3>2 DEF Range
    <3>5. e.path \in Paths
      BY <3>2, <3>4, EntryPaths
    <3>6. disk[e.path] # Gone => e.path \in db.paths
      BY <3>3, <3>4 DEF InForce, IsInForce
    <3>7. QED
      BY <3>5, <3>6 DEF IsPresent
  <2> HIDE DEF config, places, version
  <2>4. ASSUME NEW n \in Reachable(config), NEW e \in Range(EntriesAt(Canonical(n)))
        PROVE  IsPresent(e.path, db, disk)
    <3>1. PICK q \in places : q.node = n /\ Len(q.hops) <= MaxHops
      BY <1>2, <2>1, <2>2, ReachedIsRead
    <3>2. EntriesAt(Canonical(n)) = EntriesAt(q)
      BY <1>2, <3>1, LoadedByNode
    <3>3. QED
      BY <1>3, <3>1, <3>2 DEF Range
  <2>5. \A p \in ListedBy(config, Root) :
          \/ \E e \in Range(RootEntries[version]) : p = e.path
          \/ \E n \in Reachable(config) : \E e \in Range(EntriesAt(Canonical(n))) : p = e.path
    BY <2>1 DEF ListedBy, Canonical
  <2>6. \A p \in Listed[version] : IsPresent(p, db, disk)
    BY <2>1, <2>3, <2>4, <2>5
  <2>7. QED
    BY <1>1, <2>6 DEF version, ListedInv, IncludedInTurn, ListedInTurn, ListedIsPresent, Going
<1>6. QED
  BY <1>4, <1>5

(* Every step keeps it. *)
LEMMA NextIsListed == PathsFit /\ IndInv /\ ListedInv /\ [Next]_vars => ListedInv'
<1> SUFFICES ASSUME PathsFit, IndInv, ListedInv, [Next]_vars PROVE ListedInv'
  OBVIOUS
<1>1. StaysPresent
  BY PresentStays
<1>2. CASE Configure
  BY <1>1, <1>2, ListedAtStart, ListedAtInclude, ListedAtExpand, ListedAtFinish, ListedAtRecord,
     ListedAtParse DEF Configure
<1>3. CASE Restart
  BY <1>1, <1>3, ListedAtRestart
<1>4. CASE reading' = reading
  BY <1>1, <1>4, ListedWithoutReading
<1>5. QED
  BY <1>2, <1>3, <1>4 DEF Next, AskLibrary, Resolve, Edit, EditConfig, vars

(* Whatever the project file lists, and whatever the files and folders     *)
(* that it includes list, however they include each other, is in the       *)
(* project once it has been read, unless its file is gone                  *)
(* (parser_utils.py:65, core.py:125-180), as long as paths can be as long  *)
(* as the includes ask.                                                    *)
THEOREM AllThatIsListedIsThere == PathsFit => (Spec => []NothingListedIsMissing)
<1> SUFFICES ASSUME PathsFit PROVE Spec => []NothingListedIsMissing
  OBVIOUS
<1>1. Init => ListedInv
  BY DEF Init, NotReading, ListedInv, IncludedInTurn, ListedInTurn, ListedIsPresent, Going
<1>2. IndInv /\ ListedInv /\ [Next]_vars => ListedInv'
  BY NextIsListed
<1>3. ListedInv => NothingListedIsMissing
  BY DEF ListedInv, ListedIsPresent, IsPresent, NothingListedIsMissing, HasRead
<1>4. QED
  BY <1>1, <1>2, <1>3, InvariantHolds, PTL DEF Spec
=============================================================================
