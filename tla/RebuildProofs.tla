--------------------------- MODULE RebuildProofs ---------------------------
(***************************************************************************)
(* Proofs about Rebuild, for any graphs (cyclic ones too), any number of   *)
(* attempts, edits and waits, and calls nested however deep: a lint that   *)
(* comes out clean has compiled its target against nothing obsolete.  As   *)
(* long as attempts run out for a reason only, which takes more of them    *)
(* than a project may make necessary, a lint leaves no dependency behind,  *)
(* and its errors are errors of the text.                                  *)
(***************************************************************************)
EXTENDS Rebuild, TLAPS

(* The call stack after a step of the innermost call, a call of its own,   *)
(* and a return.                                                           *)
LEMMA StackTypes ==
  ASSUME NEW s \in Seq(Frame), s # <<>>
  PROVE  /\ Len(s) \in Nat \ {0} /\ DOMAIN s = 1 .. Len(s) /\ Head(s) = s[1] /\ Head(s) \in Frame
         /\ s[Len(s)] \in Frame /\ Tail(s) \in Seq(Frame) /\ Len(Tail(s)) = Len(s) - 1
         /\ \A k \in 1 .. Len(s) - 1 : Tail(s)[k] = s[k + 1]
OBVIOUS

LEMMA AfterTheFirst == \A n \in Nat : \A k \in 1 .. n : k = 1 \/ k \in 2 .. n
OBVIOUS

LEMMA TopReplaced ==
  ASSUME NEW s \in Seq(Frame), s # <<>>, NEW f \in Frame
  PROVE  LET r == <<f>> \o Tail(s)
         IN  /\ r \in Seq(Frame) /\ r # <<>> /\ Len(r) = Len(s) /\ r[1] = f
             /\ \A k \in 2 .. Len(s) : r[k] = s[k]
             /\ r[Len(r)] = IF Len(s) = 1 THEN f ELSE s[Len(s)]
<1> DEFINE r == <<f>> \o Tail(s)
<1>1. /\ Len(s) \in Nat \ {0} /\ Tail(s) \in Seq(Frame) /\ Len(Tail(s)) = Len(s) - 1
      /\ \A k \in 1 .. Len(s) - 1 : Tail(s)[k] = s[k + 1]
  BY StackTypes
<1>2. r \in Seq(Frame) /\ Len(r) = Len(s) /\ r[1] = f
  BY <1>1
<1>3. \A k \in 2 .. Len(s) : r[k] = Tail(s)[k - 1]
  BY <1>1
<1>4. \A k \in 2 .. Len(s) : r[k] = s[k]
  BY <1>1, <1>3
<1> HIDE DEF r
<1>5. r[Len(r)] = IF Len(s) = 1 THEN f ELSE s[Len(s)]
  BY <1>1, <1>2, <1>4
<1>6. r # <<>>
  BY <1>1, <1>2
<1>7. QED
  BY <1>2, <1>4, <1>5, <1>6 DEF r

LEMMA TopCalls ==
  ASSUME NEW s \in Seq(Frame), s # <<>>, NEW f \in Frame, NEW g \in Frame
  PROVE  LET r == <<g, f>> \o Tail(s)
         IN  /\ r \in Seq(Frame) /\ r # <<>> /\ Len(r) = Len(s) + 1 /\ r[1] = g /\ r[2] = f
             /\ \A k \in 3 .. Len(s) + 1 : r[k] = s[k - 1]
             /\ r[Len(r)] = IF Len(s) = 1 THEN f ELSE s[Len(s)]
<1> DEFINE r == <<g, f>> \o Tail(s)
<1>1. /\ Len(s) \in Nat \ {0} /\ Tail(s) \in Seq(Frame) /\ Len(Tail(s)) = Len(s) - 1
      /\ \A k \in 1 .. Len(s) - 1 : Tail(s)[k] = s[k + 1]
  BY StackTypes
<1>2. r \in Seq(Frame) /\ Len(r) = Len(s) + 1 /\ r[1] = g /\ r[2] = f
  BY <1>1
<1>3. \A k \in 3 .. Len(s) + 1 : r[k] = Tail(s)[k - 2]
  BY <1>1
<1>4. \A k \in 3 .. Len(s) + 1 : r[k] = s[k - 1]
  BY <1>1, <1>3
<1> HIDE DEF r
<1>5. r[Len(r)] = IF Len(s) = 1 THEN f ELSE s[Len(s)]
  BY <1>1, <1>2, <1>4
<1>6. r # <<>>
  BY <1>1, <1>2
<1>7. QED
  BY <1>2, <1>4, <1>5, <1>6 DEF r

(* What a path needs stays within every set that is closed under needs.    *)
LEMMA ConeIsClosed ==
  ASSUME needs \in Graphs, NEW p \in Paths
  PROVE  /\ Cone(p) \subseteq Paths /\ needs[p] \subseteq Cone(p)
         /\ \A q \in Cone(p) : needs[q] \subseteq Cone(p)
<1>1. \A q \in Paths : needs[q] \subseteq Paths
  BY GraphsAssumption
<1>2. QED
  BY <1>1 DEF Cone

LEMMA ConeIsLeast ==
  ASSUME NEW p \in Paths, NEW S \in SUBSET Paths, needs[p] \subseteq S, \A q \in S : needs[q] \subseteq S
  PROVE  Cone(p) \subseteq S
BY DEF Cone

-----------------------------------------------------------------------------
Bottom   == stack[Len(stack)]
Reach(p) == Cone(p) \cup {p}

(* A build goes on only while it has attempts left; a call that waits for  *)
(* another one is handling hints.                                          *)
Typed ==
  /\ TypeOK
  /\ \A p \in Paths : disk[p] <= edits + 1
  /\ \A k \in DOMAIN stack : stack[k].at \in {"store", "handle"} => stack[k].tries < MaxAttempts
  /\ \A k \in 2 .. Len(stack) : stack[k].at = "handle"

(* The lint's own call: what it has dealt with needs nothing that it has   *)
(* not, so that the target comes last and is not among its dependencies.   *)
LintOK(f) ==
  /\ target \in Paths /\ f.path = target /\ f.todo \subseteq Reach(target)
  /\ \A q \in Reach(target) \ f.todo : needs[q] \cap f.todo = {}
  /\ f.at # "next" /\ f.cur = target => f.todo = {} /\ target \notin Cone(target)

Fresh == Reach(target) \cap obsolete = {}

IsClean(f) == f.at = "store" /\ f.cur = target /\ ~ f.failed /\ f.rebuilds = {}

FreshInv ==
  /\ Typed
  /\ stack # <<>> => LintOK(Bottom)
  /\ stack # <<>> /\ Len(stack) = 1 /\ IsClean(Bottom) => Fresh
  /\ outcome = "clean" => Fresh /\ (stack # <<>> => Len(stack) = 1 /\ Bottom.at = "next" /\ Bottom.todo = {})

LEMMA Tops ==
  ASSUME Typed, stack # <<>>
  PROVE  /\ Top \in Frame /\ Top = stack[1] /\ Len(stack) \in Nat \ {0} /\ DOMAIN stack = 1 .. Len(stack)
         /\ Top.at \in {"store", "handle"} => Top.tries < MaxAttempts
         /\ stack \in Seq(Frame) /\ Bottom \in Frame
         /\ Len(stack) = 1 => Bottom = Top
         /\ Len(stack) # 1 => Bottom.at = "handle"
<1>1. stack \in Seq(Frame)
  BY DEF Typed, TypeOK
<1>2. /\ Len(stack) \in Nat \ {0} /\ DOMAIN stack = 1 .. Len(stack) /\ Top = stack[1] /\ Top \in Frame
      /\ Bottom \in Frame
  BY <1>1, StackTypes DEF Top, Bottom
<1>3. QED
  BY <1>1, <1>2 DEF Typed, Bottom

(* A step of the innermost call that leaves the files alone. *)
LEMMA SetTopTyped ==
  ASSUME Typed, stack # <<>>, NEW f \in Frame, SetTop(f), UNCHANGED <<needs, disk, edits, wrong, edited>>,
         f.at \in {"store", "handle"} => f.tries < MaxAttempts,
         raced' \subseteq Paths,
         compiled' \in [Paths -> 0 .. MaxEdits + 1], \A p \in Paths : compiled'[p] <= disk[p],
         obsolete' \subseteq {p \in Paths : compiled'[p] # 0},
         waits' \in 0 .. MaxWaits,
         info' \in [Paths -> [compile_time : 0 .. MaxEdits + 1, failed : BOOLEAN, rebuilds : SUBSET Paths]],
         target' \in Paths \cup {None}, errors' \subseteq Paths,
         outcome' \in {"none", "clean", "errors", "gave up"}
  PROVE  /\ Typed' /\ stack' # <<>> /\ Len(stack') = Len(stack)
         /\ Bottom' = IF Len(stack) = 1 THEN f ELSE Bottom
<1>1. stack' = <<f>> \o Tail(stack) /\ stack \in Seq(Frame)
  BY DEF SetTop, Typed, TypeOK
<1>2. /\ stack' \in Seq(Frame) /\ stack' # <<>> /\ Len(stack') = Len(stack) /\ stack'[1] = f
      /\ \A k \in 2 .. Len(stack) : stack'[k] = stack[k]
      /\ stack'[Len(stack')] = IF Len(stack) = 1 THEN f ELSE stack[Len(stack)]
  BY <1>1, TopReplaced
<1>3. Len(stack) \in Nat \ {0} /\ DOMAIN stack = 1 .. Len(stack) /\ DOMAIN stack' = 1 .. Len(stack)
  BY <1>1, <1>2, StackTypes
<1>4. TypeOK'
  BY <1>2 DEF Typed, TypeOK
<1>5. ASSUME NEW k \in 1 .. Len(stack), stack'[k].at \in {"store", "handle"}
      PROVE  stack'[k].tries < MaxAttempts
  <2>1. CASE k = 1
    BY <1>2, <1>5, <2>1
  <2>2. CASE k # 1
    <3>1. k \in 2 .. Len(stack)
      BY <1>3, <2>2, AfterTheFirst
    <3>2. QED
      BY <1>2, <1>3, <1>5, <3>1 DEF Typed
  <2>3. QED
    BY <2>1, <2>2
<1>6. \A k \in 2 .. Len(stack') : stack'[k].at = "handle"
  BY <1>2, <1>3 DEF Typed
<1>7. QED
  BY <1>2, <1>3, <1>4, <1>5, <1>6 DEF Typed, Bottom

(* LintOK and Fresh are about needs and target only, and about obsolete.   *)
LEMMA SameLint ==
  ASSUME UNCHANGED <<needs, target>>
  PROVE  /\ \A p : Reach(p)' = Reach(p)
         /\ \A f : LintOK(f)' = LintOK(f)
         /\ \A f : IsClean(f)' = IsClean(f)
         /\ UNCHANGED obsolete => Fresh' = Fresh
BY DEF LintOK, Fresh, Reach, Cone, IsClean

(* A step that keeps obsolete, the lint's target and its outcome, and only *)
(* moves the innermost call on.                                            *)
LEMMA TopMoves ==
  ASSUME FreshInv, stack # <<>>, Typed', UNCHANGED <<needs, target, obsolete>>,
         stack' # <<>>, Len(stack') = Len(stack),
         NEW f, f.path = Top.path, f.todo = Top.todo, f.cur = Top.cur,
         f.at # "next" => Top.at # "next",
         IsClean(f) => IsClean(Top),
         Bottom' = IF Len(stack) = 1 THEN f ELSE Bottom,
         \/ outcome' = outcome /\ Top.at # "next"
         \/ outcome' = "clean" /\ Len(stack) = 1 /\ f.at = "next" /\ f.todo = {} /\ Fresh
         \/ outcome' # "clean"
  PROVE  FreshInv'
<1>1. /\ Typed /\ LintOK(Bottom) /\ (Len(stack) = 1 /\ IsClean(Bottom) => Fresh)
      /\ Len(stack) = 1 => Bottom = Top
      /\ Len(stack) # 1 => Bottom.at = "handle"
  BY Tops DEF FreshInv
<1>2. /\ \A g : LintOK(g)' = LintOK(g)
      /\ \A g : IsClean(g)' = IsClean(g)
      /\ Fresh' = Fresh
  BY SameLint
<1>3. LintOK(Bottom)'
  <2>1. Len(stack) = 1 => LintOK(f)
    BY <1>1 DEF LintOK
  <2>2. LintOK(Bottom')
    BY <1>1, <2>1
  <2>3. LintOK(Bottom)' = LintOK(Bottom')
    BY DEF LintOK, Reach, Cone
  <2>4. QED
    BY <2>2, <2>3
<1>4. Len(stack') = 1 /\ IsClean(Bottom)' => Fresh'
  <2>1. IsClean(Bottom)' = IsClean(Bottom')
    BY DEF IsClean
  <2>2. QED
    BY <1>1, <1>2, <2>1
<1>5. outcome' = "clean" => Fresh' /\ Len(stack') = 1 /\ Bottom'.at = "next" /\ Bottom'.todo = {}
  BY <1>1, <1>2 DEF FreshInv
<1>6. QED
  BY <1>3, <1>4, <1>5 DEF FreshInv

Infos == [compile_time : 0 .. MaxEdits + 1, failed : BOOLEAN, rebuilds : SUBSET Paths]

LEMMA Types ==
  ASSUME Typed
  PROVE  /\ needs \in Graphs /\ disk \in [Paths -> Versions] /\ edits \in 0 .. MaxEdits
         /\ wrong \subseteq Paths /\ edited \subseteq Paths /\ raced \subseteq Paths
         /\ compiled \in [Paths -> 0 .. MaxEdits + 1] /\ \A p \in Paths : compiled[p] <= disk[p]
         /\ obsolete \subseteq {p \in Paths : compiled[p] # 0}
         /\ waits \in 0 .. MaxWaits /\ info \in [Paths -> Infos]
         /\ target \in Paths \cup {None} /\ errors \subseteq Paths
         /\ outcome \in {"none", "clean", "errors", "gave up"}
         /\ \A p \in Paths : disk[p] \in Nat /\ disk[p] >= 1 /\ disk[p] <= MaxEdits + 1
<1>1. TypeOK
  BY DEF Typed
<1>2. ASSUME NEW p \in Paths PROVE disk[p] \in Nat /\ disk[p] >= 1 /\ disk[p] <= MaxEdits + 1
  <2>1. disk[p] \in 1 .. MaxEdits + 1
    BY <1>1 DEF TypeOK, Versions
  <2>2. QED
    BY <2>1, BoundsAssumption
<1>3. QED
  BY <1>1, <1>2 DEF TypeOK, Infos

LEMMA EditStep ==
  ASSUME FreshInv, NEW p \in Paths, Edit(p)
  PROVE  FreshInv'
<1>1. /\ edits < MaxEdits /\ edits' = edits + 1 /\ disk' = [disk EXCEPT ![p] = @ + 1]
      /\ wrong' \in {wrong \cup {p}, wrong \ {p}} /\ edited' = edited \cup {p}
      /\ raced' \in {raced \cup {p}, raced}
      /\ UNCHANGED <<needs, compiled, obsolete, waits, info, stack, target, errors, outcome>>
  BY DEF Edit, library, lint
<1>2. Typed /\ TypeOK
  BY DEF FreshInv, Typed
<1>3. edits \in Nat /\ edits' \in 0 .. MaxEdits
  <2>1. edits \in 0 .. MaxEdits
    BY <1>2 DEF TypeOK
  <2>2. QED
    BY <1>1, <2>1, BoundsAssumption
<1>4. ASSUME NEW q \in Paths
      PROVE  disk'[q] \in Versions /\ disk'[q] <= edits' + 1 /\ compiled'[q] <= disk'[q]
  <2>1. /\ disk[q] \in Nat /\ disk[q] >= 1 /\ disk[q] <= edits + 1
        /\ disk'[q] \in {disk[q], disk[q] + 1}
        /\ compiled[q] \in 0 .. MaxEdits + 1 /\ compiled[q] <= disk[q]
    BY <1>1, <1>2, Types DEF Typed
  <2>2. compiled[q] \in Nat
    BY <2>1, BoundsAssumption
  <2>3. QED
    BY <1>1, <1>3, <2>1, <2>2, BoundsAssumption DEF Versions
<1>5. disk' \in [Paths -> Versions]
  <2>1. disk' \in [Paths -> {disk'[q] : q \in Paths}]
    BY <1>1, <1>2 DEF TypeOK
  <2>2. QED
    BY <1>4, <2>1
<1>6. Typed'
  BY <1>1, <1>2, <1>3, <1>4, <1>5 DEF Typed, TypeOK
<1>7. LintOK(Bottom)' = LintOK(Bottom) /\ IsClean(Bottom)' = IsClean(Bottom) /\ Fresh' = Fresh /\ Bottom' = Bottom
  BY <1>1 DEF LintOK, IsClean, Fresh, Reach, Cone, Bottom
<1>8. QED
  BY <1>1, <1>6, <1>7 DEF FreshInv

LEMMA LintStep ==
  ASSUME FreshInv, NEW p \in Paths, Lint(p)
  PROVE  FreshInv'
<1>1. /\ stack = <<>> /\ stack' = <<CallOf(p)>> /\ target' = p /\ errors' = {} /\ outcome' = "none"
      /\ edited' = raced
      /\ UNCHANGED <<needs, disk, edits, wrong, raced, compiled, obsolete, waits, info>>
  BY DEF Lint, library
<1>2. Typed /\ TypeOK
  BY DEF FreshInv, Typed
<1>3. CallOf(p) \in Frame /\ CallOf(p).at = "next" /\ CallOf(p).path = p /\ CallOf(p).todo = Reach(p)
  <2>1. Cone(p) \cup {p} \in SUBSET Paths
    BY <1>2, ConeIsClosed DEF TypeOK
  <2>2. 0 \in 0 .. MaxAttempts
    BY MaxAttemptsAssumption
  <2>3. QED
    BY <2>1, <2>2 DEF CallOf, Frame, Reach
<1>4. /\ stack' \in Seq(Frame) /\ Len(stack') = 1 /\ DOMAIN stack' = 1 .. 1 /\ stack'[1] = CallOf(p)
      /\ 2 .. Len(stack') = {}
  BY <1>1, <1>3
<1>5. Typed'
  <2>1. TypeOK'
    BY <1>1, <1>2, <1>4 DEF TypeOK
  <2>2. \A k \in DOMAIN stack' : stack'[k].at = "next"
    BY <1>3, <1>4
  <2>3. QED
    BY <1>1, <1>2, <1>4, <2>1, <2>2 DEF Typed
<1>6. Bottom' = CallOf(p) /\ Reach(p)' = Reach(p)
  BY <1>1, <1>4 DEF Bottom, Reach, Cone
<1>7. LintOK(Bottom)'
  <2>1. /\ target' \in Paths /\ Bottom'.path = target' /\ Bottom'.todo = Reach(target)' /\ Bottom'.at = "next"
    BY <1>1, <1>3, <1>6 DEF Reach, Cone
  <2>2. QED
    BY <2>1 DEF LintOK
<1>8. ~ IsClean(Bottom)'
  BY <1>3, <1>6 DEF IsClean
<1>9. QED
  BY <1>1, <1>5, <1>7, <1>8 DEF FreshInv

LEMMA BeginStep ==
  ASSUME FreshInv, NEW p \in Paths, Begin(p)
  PROVE  FreshInv'
<1> DEFINE f == [Top EXCEPT !.cur = p, !.todo = @ \ {p}, !.tries = 0, !.at = "build"]
<1>1. /\ stack # <<>> /\ Top.at = "next" /\ p \in Top.todo /\ needs[p] \cap Top.todo = {} /\ SetTop(f)
      /\ UNCHANGED <<needs, disk, edits, wrong, edited, raced, compiled, obsolete, waits, info, target, errors, outcome>>
  BY DEF Begin, At, files, library, lint
<1>2. Typed /\ TypeOK /\ Top \in Frame
  BY <1>1, Tops DEF FreshInv, Typed
<1>3. /\ f \in Frame /\ f.cur = p /\ f.todo = Top.todo \ {p} /\ f.at = "build" /\ f.path = Top.path
  <2>1. 0 \in 0 .. MaxAttempts
    BY MaxAttemptsAssumption
  <2>2. QED
    BY <1>2, <2>1 DEF Frame
<1> HIDE DEF f
<1>4. /\ Typed' /\ stack' # <<>> /\ Len(stack') = Len(stack)
      /\ Bottom' = IF Len(stack) = 1 THEN f ELSE Bottom
  BY <1>1, <1>2, <1>3, Types, SetTopTyped DEF Infos
<1>5. ASSUME Len(stack) = 1 PROVE LintOK(f)
  <2>1. Bottom = Top /\ LintOK(Top)
    BY <1>1, <1>2, <1>5, Tops DEF FreshInv
  <2>2. target \in Paths /\ needs \in Graphs
    BY <1>2, <2>1 DEF LintOK, TypeOK
  <2>3. Reach(target) \subseteq Paths
        /\ \A q \in Reach(target) : needs[q] \subseteq Reach(target)
    BY <2>2, ConeIsClosed DEF Reach
  <2>4. f.path = target /\ f.todo \subseteq Reach(target)
        /\ \A q \in Reach(target) \ f.todo : needs[q] \cap f.todo = {}
    BY <1>1, <1>3, <2>1 DEF LintOK
  <2>5. ASSUME f.cur = target PROVE f.todo = {} /\ target \notin Cone(target)
    <3> DEFINE done == Reach(target) \ Top.todo
    <3>1. done \in SUBSET Paths
      BY <2>3
    <3>2. p = target
      BY <1>3, <2>5
    <3>3. needs[target] \subseteq done
      BY <1>1, <2>2, <2>3, <3>2 DEF Reach
    <3>4. \A q \in done : needs[q] \subseteq done
      BY <2>1, <2>3 DEF LintOK
    <3>5. Cone(target) \subseteq done
      BY <2>2, <3>1, <3>3, <3>4, ConeIsLeast
    <3>6. target \notin Cone(target)
      BY <1>1, <3>2, <3>5
    <3>7. Top.todo \subseteq {target}
      BY <2>1, <3>5 DEF LintOK, Reach
    <3>8. QED
      BY <1>3, <3>2, <3>6, <3>7
  <2>6. QED
    BY <2>2, <2>4, <2>5 DEF LintOK
<1>6. LintOK(Bottom')
  BY <1>1, <1>4, <1>5 DEF FreshInv
<1>7. LintOK(Bottom)' = LintOK(Bottom') /\ IsClean(Bottom)' = IsClean(Bottom') /\ Fresh' = Fresh
  BY <1>1 DEF LintOK, IsClean, Fresh, Reach, Cone
<1>8. Len(stack') = 1 => ~ IsClean(Bottom')
  BY <1>3, <1>4 DEF IsClean
<1>9. outcome' # "clean"
  <2>1. ASSUME outcome = "clean" PROVE FALSE
    <3>1. Len(stack) = 1 /\ Bottom.todo = {}
      BY <1>1, <2>1 DEF FreshInv
    <3>2. QED
      BY <1>1, <1>2, <3>1, Tops
  <2>2. QED
    BY <1>1, <2>1
<1>10. QED
  BY <1>1, <1>4, <1>6, <1>7, <1>8, <1>9 DEF FreshInv

LEMMA CompileStep ==
  ASSUME FreshInv, Compile
  PROVE  FreshInv'
<1>1. /\ stack # <<>> /\ Top.at = "build" /\ Top.tries < MaxAttempts
      /\ raced' = raced \ {Top.cur}
      /\ UNCHANGED <<needs, disk, edits, wrong, edited, info, target, errors, outcome>>
  BY DEF Compile, Building, At, lint
<1>2. PICK v \in Verdicts(Top.cur), waited \in BOOLEAN :
        /\ waited => waits < MaxWaits
        /\ waits' = IF waited THEN waits + 1 ELSE waits
        /\ SetTop([Top EXCEPT !.at = "store", !.failed = v.failed,
                              !.rebuilds = v.rebuilds \cup (IF waited THEN {Top.cur} ELSE {})])
        /\ IF v.failed THEN UNCHANGED <<compiled, obsolete>> ELSE Compiles(Top.cur)
  BY DEF Compile
<1>3. Typed /\ Top \in Frame /\ Top.cur \in Paths
  BY <1>1, Tops DEF FreshInv, Frame
<1>4. v.failed \in BOOLEAN /\ v.rebuilds \subseteq Paths
      /\ (~ v.failed /\ v.rebuilds = {} => Cone(Top.cur) \cap obsolete = {})
  <2>1. Cone(Top.cur) \subseteq Paths
    BY <1>3, Types, ConeIsClosed
  <2>2. \/ v = [failed |-> TRUE, rebuilds |-> {}]
        \/ v \in [failed : BOOLEAN, rebuilds : (SUBSET (Cone(Top.cur) \cap obsolete)) \ {{}}]
        \/ v = [failed |-> FALSE, rebuilds |-> {}] /\ Cone(Top.cur) \cap obsolete = {}
    BY DEF Verdicts
  <2>3. CASE v \in [failed : BOOLEAN, rebuilds : (SUBSET (Cone(Top.cur) \cap obsolete)) \ {{}}]
    <3>1. v.failed \in BOOLEAN /\ v.rebuilds \in (SUBSET (Cone(Top.cur) \cap obsolete)) \ {{}}
      BY <2>3
    <3>2. QED
      BY <2>1, <3>1
  <2>4. CASE v = [failed |-> TRUE, rebuilds |-> {}]
    BY <2>4
  <2>5. CASE v = [failed |-> FALSE, rebuilds |-> {}] /\ Cone(Top.cur) \cap obsolete = {}
    BY <2>5
  <2>6. QED
    BY <2>2, <2>3, <2>4, <2>5
<1> DEFINE f == [Top EXCEPT !.at = "store", !.failed = v.failed,
                            !.rebuilds = v.rebuilds \cup (IF waited THEN {Top.cur} ELSE {})]
<1>5. /\ f \in Frame /\ f.at = "store" /\ f.failed = v.failed /\ f.path = Top.path /\ f.todo = Top.todo
      /\ f.cur = Top.cur /\ f.tries = Top.tries
      /\ f.rebuilds = {} => v.rebuilds = {}
  BY <1>3, <1>4 DEF Frame
<1> HIDE DEF f
<1>6. /\ compiled' \in [Paths -> 0 .. MaxEdits + 1] /\ \A p \in Paths : compiled'[p] <= disk[p]
      /\ obsolete' \subseteq {p \in Paths : compiled'[p] # 0}
      /\ waits' \in 0 .. MaxWaits
  <2>1. waits' \in 0 .. MaxWaits
    <3>1. waits \in 0 .. MaxWaits
      BY <1>3, Types
    <3>2. CASE waited
      BY <1>2, <3>1, <3>2, BoundsAssumption
    <3>3. CASE ~ waited
      BY <1>2, <3>1, <3>3
    <3>4. QED
      BY <3>2, <3>3
  <2>2. CASE v.failed
    BY <1>2, <1>3, <2>1, <2>2, Types
  <2>3. CASE Compiles(Top.cur)
    <3>1. compiled' = [compiled EXCEPT ![Top.cur] = disk[Top.cur]]
          /\ obsolete' \subseteq obsolete \cup {q \in Paths : compiled[q] # 0}
      BY <2>3 DEF Compiles
    <3>2. disk[Top.cur] \in 0 .. MaxEdits + 1 /\ disk[Top.cur] # 0 /\ disk[Top.cur] <= disk[Top.cur]
      <4>1. disk[Top.cur] \in Nat /\ disk[Top.cur] >= 1 /\ disk[Top.cur] <= MaxEdits + 1
        BY <1>3, Types
      <4>2. QED
        BY <4>1, BoundsAssumption
    <3>3. QED
      BY <1>3, <2>1, <3>1, <3>2, Types
  <2>4. QED
    BY <1>2, <2>2, <2>3
<1>7. /\ Typed' /\ stack' # <<>> /\ Len(stack') = Len(stack)
      /\ Bottom' = IF Len(stack) = 1 THEN f ELSE Bottom
  <2>1. SetTop(f) /\ raced' \subseteq Paths
    BY <1>1, <1>2, <1>3, Types DEF f
  <2>2. QED
    BY <1>1, <1>3, <1>5, <1>6, <2>1, Types, SetTopTyped DEF Infos
<1>8. Len(stack) = 1 => Bottom = Top
  BY <1>1, <1>3, Tops
<1>9. LintOK(Bottom')
  BY <1>1, <1>5, <1>7, <1>8 DEF FreshInv, LintOK
<1>10. LintOK(Bottom)' = LintOK(Bottom') /\ IsClean(Bottom)' = IsClean(Bottom') /\ Reach(target)' = Reach(target)
  BY <1>1 DEF LintOK, IsClean, Reach, Cone
<1>11. ASSUME Len(stack) = 1, IsClean(f) PROVE Fresh'
  <2>1. Top.cur = target /\ ~ v.failed /\ v.rebuilds = {} /\ Compiles(target)
    BY <1>2, <1>5, <1>11 DEF IsClean
  <2>2. target \in Paths /\ target \notin Cone(target) /\ Cone(target) \cap obsolete = {} /\ needs \in Graphs
    BY <1>1, <1>3, <1>4, <1>8, <1>11, <2>1, Types DEF FreshInv, LintOK
  <2>3. \A q \in Reach(target) : target \notin needs[q]
    BY <2>2, ConeIsClosed DEF Reach
  <2>4. Reach(target) \cap obsolete' = {}
    BY <2>1, <2>2, <2>3 DEF Compiles, Reach
  <2>5. QED
    BY <1>10, <2>4 DEF Fresh
<1>12. outcome' # "clean"
  <2>1. ASSUME outcome = "clean" PROVE FALSE
    BY <1>1, <1>8, <2>1 DEF FreshInv
  <2>2. QED
    BY <1>1, <2>1
<1>13. QED
  BY <1>7, <1>9, <1>10, <1>11, <1>12 DEF FreshInv

(* Records without hints are the answer, the others are handled. *)
LEMMA AnswerStep ==
  ASSUME FreshInv, stack # <<>>, Top.at # "next", Top.tries < MaxAttempts,
         NEW frame \in Frame, frame.path = Top.path, frame.todo = Top.todo, frame.cur = Top.cur,
         frame.tries = Top.tries, Answer(frame),
         UNCHANGED <<needs, disk, edits, wrong, edited, raced, compiled, obsolete, waits>>,
         info' \in [Paths -> Infos],
         Len(stack) = 1 /\ Forced /\ frame.rebuilds = {} /\ ~ frame.failed => Fresh /\ Top.todo = {}
  PROVE  FreshInv'
<1> DEFINE f == [frame EXCEPT !.at = IF frame.rebuilds # {} THEN "handle" ELSE "next"]
<1>1. Typed
  BY DEF FreshInv
<1>2. /\ f \in Frame /\ f.path = Top.path /\ f.todo = Top.todo /\ f.cur = Top.cur /\ f.tries = Top.tries
      /\ f.at \in {"handle", "next"} /\ (frame.rebuilds = {} => f.at = "next")
  BY DEF Frame
<1>3. SetTop(f) /\ target' = target
  BY DEF Answer, lint
<1> HIDE DEF f
<1>4. /\ errors' \subseteq Paths
      /\ outcome' \in {"none", "clean", "errors", "gave up"}
      /\ \/ outcome' = outcome
         \/ outcome' = "clean" /\ Len(stack) = 1 /\ f.at = "next" /\ f.todo = {} /\ Fresh
         \/ outcome' # "clean"
  <2>1. /\ errors \subseteq Paths /\ outcome \in {"none", "clean", "errors", "gave up"}
        /\ frame.cur \in Paths
    BY <1>1 DEF Typed, TypeOK, Frame
  <2>2. CASE frame.rebuilds # {}
    BY <2>1, <2>2 DEF Answer, lint
  <2>3. CASE frame.rebuilds = {}
    <3>1. /\ errors' = IF Len(stack) = 1 /\ ~ Forced /\ frame.failed THEN errors \cup {frame.cur} ELSE errors
          /\ outcome' = IF Len(stack) = 1 /\ Forced
                        THEN IF frame.failed THEN "errors" ELSE "clean" ELSE outcome
      BY <2>3 DEF Answer
    <3>2. QED
      BY <1>2, <2>1, <2>3, <3>1
  <2>4. QED
    BY <2>2, <2>3
<1>5. /\ Typed' /\ stack' # <<>> /\ Len(stack') = Len(stack)
      /\ Bottom' = IF Len(stack) = 1 THEN f ELSE Bottom
  <2>1. /\ raced' \subseteq Paths /\ compiled' \in [Paths -> 0 .. MaxEdits + 1]
        /\ \A p \in Paths : compiled'[p] <= disk[p]
        /\ obsolete' \subseteq {p \in Paths : compiled'[p] # 0} /\ waits' \in 0 .. MaxWaits
        /\ target' \in Paths \cup {None}
    BY <1>1, <1>3 DEF Typed, TypeOK
  <2>2. QED
    BY <1>1, <1>2, <1>3, <1>4, <2>1, SetTopTyped DEF Infos
<1>6. ~ IsClean(f)
  BY <1>2 DEF IsClean
<1>7. QED
  BY <1>2, <1>3, <1>4, <1>5, <1>6, TopMoves

LEMMA StoreStep ==
  ASSUME FreshInv, Store
  PROVE  FreshInv'
<1>1. /\ stack # <<>> /\ Top.at = "store" /\ Answer(Top)
      /\ info' = [info EXCEPT ![Top.cur] =
                   [compile_time |-> IF Top.failed THEN 0 ELSE disk[Top.cur],
                    failed |-> Top.failed, rebuilds |-> Top.rebuilds]]
      /\ UNCHANGED <<needs, disk, edits, wrong, edited, raced, compiled, obsolete, waits>>
  BY DEF Store, At, files, library
<1>2. Typed /\ Top \in Frame /\ Top.tries < MaxAttempts /\ (Len(stack) = 1 => Bottom = Top)
  BY <1>1, Tops DEF FreshInv
<1>3. info' \in [Paths -> Infos]
  <2>1. Top.cur \in Paths /\ Top.failed \in BOOLEAN /\ Top.rebuilds \subseteq Paths
    BY <1>2 DEF Frame
  <2>2. disk[Top.cur] \in 0 .. MaxEdits + 1 /\ 0 \in 0 .. MaxEdits + 1
    <3>1. disk[Top.cur] \in Nat /\ disk[Top.cur] <= MaxEdits + 1
      BY <1>2, <2>1, Types
    <3>2. QED
      BY <3>1, BoundsAssumption
  <2>3. [compile_time |-> IF Top.failed THEN 0 ELSE disk[Top.cur],
         failed |-> Top.failed, rebuilds |-> Top.rebuilds] \in Infos
    BY <2>1, <2>2 DEF Infos
  <2>4. info \in [Paths -> Infos]
    BY <1>2 DEF Typed, TypeOK, Infos
  <2>5. QED
    BY <1>1, <2>3, <2>4
<1>4. Len(stack) = 1 /\ Forced /\ Top.rebuilds = {} /\ ~ Top.failed => Fresh /\ Top.todo = {}
  <2>1. SUFFICES ASSUME Len(stack) = 1, Forced, Top.rebuilds = {}, ~ Top.failed PROVE Fresh /\ Top.todo = {}
    OBVIOUS
  <2>2. LintOK(Top) /\ Bottom = Top
    BY <1>1, <1>2, <2>1 DEF FreshInv
  <2>3. Top.cur = target /\ Top.todo = {}
    BY <1>1, <2>1, <2>2 DEF LintOK, Forced
  <2>4. IsClean(Top)
    BY <1>1, <2>1, <2>3 DEF IsClean
  <2>5. QED
    BY <1>1, <2>1, <2>2, <2>3, <2>4 DEF FreshInv
<1>5. QED
  BY <1>1, <1>2, <1>3, <1>4, AnswerStep

LEMMA UseCachedStep ==
  ASSUME FreshInv, UseCached
  PROVE  FreshInv'
<1> DEFINE frame == [Top EXCEPT !.failed = info[Top.cur].failed, !.rebuilds = info[Top.cur].rebuilds]
<1>1. /\ stack # <<>> /\ Top.at = "build" /\ Top.tries < MaxAttempts /\ ~ Forced /\ Answer(frame)
      /\ UNCHANGED <<needs, disk, edits, wrong, edited, raced, compiled, obsolete, waits, info>>
  BY DEF UseCached, Building, At, MustCompile, files, library
<1>2. Typed /\ Top \in Frame
  BY <1>1, Tops DEF FreshInv
<1>3. info \in [Paths -> Infos] /\ Top.cur \in Paths
  BY <1>2 DEF Typed, TypeOK, Infos, Frame
<1>4. frame \in Frame /\ frame.path = Top.path /\ frame.todo = Top.todo /\ frame.cur = Top.cur
      /\ frame.tries = Top.tries
  BY <1>2, <1>3 DEF Frame, Infos
<1> HIDE DEF frame
<1>5. QED
  BY <1>1, <1>3, <1>4, AnswerStep

LEMMA HandleStep ==
  ASSUME FreshInv, NEW p \in Paths, Handle(p)
  PROVE  FreshInv'
<1> DEFINE f == [Top EXCEPT !.rebuilds = @ \ {p}]
<1> DEFINE g == CallOf(p)
<1>1. /\ stack # <<>> /\ Top.at = "handle" /\ stack' = <<g, f>> \o Tail(stack)
      /\ UNCHANGED <<needs, disk, edits, wrong, edited, raced, compiled, obsolete, waits, info,
                     target, errors, outcome>>
  BY DEF Handle, At, files, library, lint
<1>2. /\ Typed /\ TypeOK /\ Top \in Frame /\ Top.tries < MaxAttempts /\ (Len(stack) = 1 => Bottom = Top)
      /\ stack \in Seq(Frame) /\ Len(stack) \in Nat \ {0} /\ DOMAIN stack = 1 .. Len(stack)
  BY <1>1, Tops DEF FreshInv, Typed
<1>3. f \in Frame /\ f.path = Top.path /\ f.todo = Top.todo /\ f.cur = Top.cur /\ f.at = "handle"
      /\ f.tries = Top.tries
  BY <1>1, <1>2 DEF Frame
<1>4. g \in Frame /\ g.at = "next"
  <2>1. Cone(p) \cup {p} \in SUBSET Paths
    BY <1>2, ConeIsClosed DEF TypeOK
  <2>2. 0 \in 0 .. MaxAttempts
    BY MaxAttemptsAssumption
  <2>3. QED
    BY <2>1, <2>2 DEF CallOf, Frame
<1> HIDE DEF f, g
<1>5. /\ stack' \in Seq(Frame) /\ stack' # <<>> /\ Len(stack') = Len(stack) + 1
      /\ stack'[1] = g /\ stack'[2] = f
      /\ \A k \in 3 .. Len(stack) + 1 : stack'[k] = stack[k - 1]
      /\ stack'[Len(stack')] = IF Len(stack) = 1 THEN f ELSE stack[Len(stack)]
  <2>1. stack \in Seq(Frame) /\ stack # <<>> /\ f \in Frame /\ g \in Frame
        /\ stack' = <<g, f>> \o Tail(stack)
    BY <1>1, <1>2, <1>3, <1>4
  <2>2. QED
    BY <2>1, TopCalls
<1>6. ASSUME NEW k \in DOMAIN stack'
      PROVE  \/ k = 1 \/ k = 2
             \/ k - 1 \in 2 .. Len(stack) /\ k - 1 \in DOMAIN stack /\ stack'[k] = stack[k - 1]
  <2>1. DOMAIN stack' = 1 .. Len(stack) + 1
    BY <1>2, <1>5
  <2>2. k = 1 \/ k = 2 \/ k \in 3 .. Len(stack) + 1
    BY <1>2, <2>1
  <2>3. CASE k \in 3 .. Len(stack) + 1
    BY <1>2, <1>5, <2>3
  <2>4. QED
    BY <2>2, <2>3
<1>7. TypeOK'
  BY <1>1, <1>2, <1>5 DEF TypeOK
<1>8. \A k \in DOMAIN stack' : stack'[k].at \in {"store", "handle"} => stack'[k].tries < MaxAttempts
  BY <1>2, <1>3, <1>4, <1>5, <1>6 DEF Typed
<1>9. \A k \in 2 .. Len(stack') : stack'[k].at = "handle"
  <2>1. ASSUME NEW k \in 2 .. Len(stack') PROVE stack'[k].at = "handle"
    <3>1. k \in DOMAIN stack' /\ k # 1
      BY <1>2, <1>5
    <3>2. QED
      BY <1>2, <1>3, <1>5, <1>6, <3>1 DEF Typed
  <2>2. QED
    BY <2>1
<1>10. Typed'
  BY <1>1, <1>2, <1>7, <1>8, <1>9 DEF Typed
<1>11. Bottom' = (IF Len(stack) = 1 THEN f ELSE Bottom) /\ Len(stack') # 1
  BY <1>2, <1>5 DEF Bottom
<1>12. LintOK(Bottom)'
  <2>1. LintOK(Bottom')
    BY <1>1, <1>2, <1>3, <1>11 DEF FreshInv, LintOK
  <2>2. LintOK(Bottom)' = LintOK(Bottom')
    BY <1>1 DEF LintOK, Reach, Cone
  <2>3. QED
    BY <2>1, <2>2
<1>13. outcome' # "clean"
  BY <1>1, <1>2 DEF FreshInv
<1>14. QED
  BY <1>10, <1>11, <1>12, <1>13 DEF FreshInv

LEMMA AgainStep ==
  ASSUME FreshInv, TryAgain \/ GiveUp
  PROVE  FreshInv'
<1> DEFINE again == [Top EXCEPT !.at = "build", !.tries = @ + 1]
<1> DEFINE over == [Top EXCEPT !.at = "next"]
<1>1. /\ stack # <<>> /\ Top.at \in {"build", "handle"}
      /\ \/ Top.at = "handle" /\ SetTop(again) /\ outcome' = outcome
         \/ SetTop(over) /\ outcome' \in {outcome, "gave up"}
      /\ UNCHANGED <<needs, disk, edits, wrong, edited, raced, compiled, obsolete, waits, info, target, errors>>
  BY DEF TryAgain, GiveUp, At, files, library, lint
<1>2. Typed /\ TypeOK /\ Top \in Frame /\ (Top.at = "handle" => Top.tries < MaxAttempts)
  BY <1>1, Tops DEF FreshInv, Typed
<1>3. Top.at = "handle" => Top.tries + 1 \in 0 .. MaxAttempts
  BY <1>2, MaxAttemptsAssumption DEF Frame
<1>4. PICK f \in Frame : /\ SetTop(f) /\ f.path = Top.path /\ f.todo = Top.todo /\ f.cur = Top.cur
                         /\ f.at \in {"build", "next"}
  <2>1. CASE Top.at = "handle" /\ SetTop(again)
    <3>1. again \in Frame /\ again.path = Top.path /\ again.todo = Top.todo /\ again.cur = Top.cur
          /\ again.at = "build"
      BY <1>2, <1>3, <2>1 DEF Frame
    <3>2. QED
      BY <2>1, <3>1
  <2>2. CASE SetTop(over)
    <3>1. over \in Frame /\ over.path = Top.path /\ over.todo = Top.todo /\ over.cur = Top.cur
          /\ over.at = "next"
      BY <1>2 DEF Frame
    <3>2. QED
      BY <2>2, <3>1
  <2>3. QED
    BY <1>1, <2>1, <2>2
<1>5. /\ Typed' /\ stack' # <<>> /\ Len(stack') = Len(stack)
      /\ Bottom' = IF Len(stack) = 1 THEN f ELSE Bottom
  <2>1. /\ raced' \subseteq Paths /\ compiled' \in [Paths -> 0 .. MaxEdits + 1]
        /\ \A p \in Paths : compiled'[p] <= disk[p]
        /\ obsolete' \subseteq {p \in Paths : compiled'[p] # 0} /\ waits' \in 0 .. MaxWaits
        /\ target' \in Paths \cup {None} /\ errors' \subseteq Paths
        /\ outcome' \in {"none", "clean", "errors", "gave up"}
        /\ info' \in [Paths -> Infos]
    BY <1>1, <1>2 DEF TypeOK, Infos
  <2>2. QED
    BY <1>1, <1>2, <1>4, <2>1, SetTopTyped DEF Infos
<1>6. ~ IsClean(f)
  BY <1>4 DEF IsClean
<1>7. QED
  BY <1>1, <1>4, <1>5, <1>6, TopMoves

LEMMA ReturnStep ==
  ASSUME FreshInv, Return
  PROVE  FreshInv'
<1>1. /\ stack # <<>> /\ Top.at = "next" /\ stack' = Tail(stack)
      /\ UNCHANGED <<needs, disk, edits, wrong, edited, raced, compiled, obsolete, waits, info,
                     target, errors, outcome>>
  BY DEF Return, At, files, library, lint
<1>2. Typed /\ TypeOK /\ stack \in Seq(Frame) /\ (Len(stack) # 1 => Bottom.at = "handle")
  BY <1>1, Tops DEF FreshInv, Typed
<1>3. /\ Len(stack) \in Nat \ {0} /\ DOMAIN stack = 1 .. Len(stack)
      /\ stack' \in Seq(Frame) /\ Len(stack') = Len(stack) - 1
      /\ \A k \in 1 .. Len(stack) - 1 : stack'[k] = stack[k + 1]
  BY <1>1, <1>2, StackTypes
<1>4. /\ \A k \in DOMAIN stack' : k + 1 \in 2 .. Len(stack) /\ k + 1 \in DOMAIN stack /\ stack'[k] = stack[k + 1]
      /\ \A k \in 2 .. Len(stack') : k \in DOMAIN stack'
  BY <1>3
<1>5. Typed'
  <2>1. TypeOK'
    BY <1>1, <1>2, <1>3 DEF TypeOK
  <2>2. \A k \in DOMAIN stack' : stack'[k].at = "handle" /\ stack'[k].tries < MaxAttempts
    BY <1>2, <1>4 DEF Typed
  <2>3. QED
    BY <1>1, <1>2, <1>4, <2>1, <2>2 DEF Typed
<1>6. stack' # <<>> => Len(stack) # 1 /\ Bottom' = Bottom
  BY <1>3 DEF Bottom
<1>7. LintOK(Bottom') <=> LintOK(Bottom)'
  BY <1>1 DEF LintOK, Reach, Cone
<1>8. Fresh' = Fresh /\ IsClean(Bottom)' = IsClean(Bottom')
  BY <1>1 DEF Fresh, Reach, Cone, IsClean
<1>9. stack' # <<>> => ~ IsClean(Bottom')
  BY <1>2, <1>6 DEF IsClean
<1>10. QED
  BY <1>1, <1>5, <1>6, <1>7, <1>8, <1>9 DEF FreshInv

LEMMA FreshInvInitially == Init => FreshInv
<1> SUFFICES ASSUME Init PROVE FreshInv
  OBVIOUS
<1>1. /\ needs \in Graphs /\ disk = [p \in Paths |-> 1] /\ edits = 0 /\ wrong \in SUBSET Paths
      /\ edited = {} /\ raced = {} /\ compiled = [p \in Paths |-> 0] /\ obsolete = {} /\ waits = 0
      /\ info = [p \in Paths |-> NothingYet] /\ stack = <<>> /\ target = None /\ errors = {}
      /\ outcome = "none"
  BY DEF Init
<1>2. 1 \in Versions /\ 0 \in 0 .. MaxEdits /\ 0 \in 0 .. MaxEdits + 1 /\ 0 \in 0 .. MaxWaits
  BY BoundsAssumption DEF Versions
<1>3. NothingYet \in [compile_time : 0 .. MaxEdits + 1, failed : BOOLEAN, rebuilds : SUBSET Paths]
  BY <1>2 DEF NothingYet
<1>4. stack \in Seq(Frame) /\ DOMAIN stack = {} /\ 2 .. Len(stack) = {}
  BY <1>1
<1>5. \A p \in Paths : compiled[p] <= disk[p] /\ disk[p] <= edits + 1
  BY <1>1
<1>6. TypeOK
  BY <1>1, <1>2, <1>3, <1>4, <1>5 DEF TypeOK
<1>7. QED
  BY <1>1, <1>4, <1>5, <1>6 DEF FreshInv, Typed

LEMMA FreshInvStays == FreshInv /\ [Next]_vars => FreshInv'
<1> SUFFICES ASSUME FreshInv, [Next]_vars PROVE FreshInv'
  OBVIOUS
<1>1. ASSUME NEW p \in Paths, Begin(p) PROVE FreshInv'
  BY <1>1, BeginStep
<1>2. ASSUME NEW p \in Paths, Handle(p) PROVE FreshInv'
  BY <1>2, HandleStep
<1>3. CASE Compile
  BY <1>3, CompileStep
<1>4. CASE Store
  BY <1>4, StoreStep
<1>5. CASE UseCached
  BY <1>5, UseCachedStep
<1>6. CASE TryAgain \/ GiveUp
  BY <1>6, AgainStep
<1>7. CASE Return
  BY <1>7, ReturnStep
<1>8. ASSUME NEW p \in Paths, Edit(p) PROVE FreshInv'
  BY <1>8, EditStep
<1>9. ASSUME NEW p \in Paths, Lint(p) PROVE FreshInv'
  BY <1>9, LintStep
<1>10. CASE UNCHANGED vars
  <2>1. UNCHANGED <<needs, disk, edits, wrong, edited, raced, compiled, obsolete, waits, info, stack,
                    target, errors, outcome>>
    BY <1>10 DEF vars, files, library, lint
  <2>2. Typed' = Typed
    BY <2>1 DEF Typed, TypeOK
  <2>3. LintOK(Bottom)' = LintOK(Bottom) /\ IsClean(Bottom)' = IsClean(Bottom) /\ Fresh' = Fresh /\ Bottom' = Bottom
    BY <2>1 DEF LintOK, IsClean, Fresh, Reach, Cone, Bottom
  <2>4. QED
    BY <2>1, <2>2, <2>3 DEF FreshInv
<1>11. QED
  BY <1>1, <1>2, <1>3, <1>4, <1>5, <1>6, <1>7, <1>8, <1>9, <1>10 DEF Next, Step

-----------------------------------------------------------------------------
(* What a lint leaves behind.                                              *)

(* Nothing compiles while its text is wrong; the compile time of a source  *)
(* is that of a text which the libraries hold, or it was saved while that  *)
(* was compiled.                                                           *)
FilesOK ==
  /\ raced \subseteq edited
  /\ \A p \in wrong : compiled[p] # disk[p]
  /\ \A p \in Paths :
       /\ info[p].compile_time <= disk[p]
       /\ info[p].failed => info[p].compile_time = 0
       /\ \/ info[p].compile_time <= compiled[p]
          \/ p \in raced
          \/ At("store") /\ Top.cur = p /\ Top.failed

(* What is about to be stored is what the compiler made of the source. *)
StoreOK ==
  At("store") =>
    IF Top.failed
    THEN Top.rebuilds = {} /\ edited = {} =>
           Top.cur \in wrong \/ \E q \in needs[Top.cur] : compiled[q] = 0
    ELSE compiled[Top.cur] = disk[Top.cur] \/ Top.cur \in raced

(* The libraries hold the text of p, or the lint has yielded the reason    *)
(* why not, or an edit is.                                                 *)
Settled(p) == compiled[p] = disk[p] \/ Reach(p) \cap (errors \cup edited) # {}

(* The builder has dealt with the text of p. *)
Stored(p) == info[p].failed \/ info[p].compile_time = disk[p] \/ p \in edited

(* The lint's own call has settled what it has dealt with. *)
DoneOK ==
  /\ \A p \in Cone(target) \ Bottom.todo : Bottom.at = "next" \/ p # Bottom.cur => Settled(p)
  /\ Bottom.at # "next" =>
       /\ Bottom.cur \in Reach(target) \ Bottom.todo /\ Bottom.cur \notin Cone(Bottom.cur)
       /\ Bottom.at = "handle" \/ Bottom.tries > 0 => Stored(Bottom.cur)

(* An error leads to a text that is wrong. *)
ShownOK == edited = {} => \A p \in Shown : Reach(p) \cap wrong \cap Shown # {}

(* The target comes last. *)
OutcomeOK ==
  stack # <<>> /\ outcome # "none" => Len(stack) = 1 /\ Bottom.at = "next" /\ Bottom.todo = {}

SettledInv ==
  /\ FilesOK /\ StoreOK /\ ShownOK /\ OutcomeOK
  /\ stack # <<>> => DoneOK
  /\ Finished => \A p \in Cone(target) : Settled(p)

(* Versions are numbers. *)
LEMMA VersionTypes ==
  ASSUME Typed, NEW p \in Paths
  PROVE  /\ disk[p] \in Nat /\ disk[p] >= 1 /\ disk[p] # 0 /\ compiled[p] \in Nat
         /\ compiled[p] <= disk[p] /\ info[p].compile_time \in Nat
<1>1. /\ disk[p] \in 1 .. MaxEdits + 1 /\ compiled[p] \in 0 .. MaxEdits + 1 /\ compiled[p] <= disk[p]
      /\ info[p] \in Infos
  BY DEF Typed, TypeOK, Versions, Infos
<1>2. info[p].compile_time \in 0 .. MaxEdits + 1
  BY <1>1 DEF Infos
<1>3. QED
  BY <1>1, <1>2, BoundsAssumption

(* What something needs is needed by all that need it. *)
LEMMA ReachWithin ==
  ASSUME needs \in Graphs, NEW p \in Paths, NEW q \in Cone(p)
  PROVE  Reach(q) \subseteq Cone(p) /\ q \in Paths
<1>1. Cone(p) \in SUBSET Paths /\ needs[q] \subseteq Cone(p) /\ \A r \in Cone(p) : needs[r] \subseteq Cone(p)
  BY ConeIsClosed
<1>2. Cone(q) \subseteq Cone(p)
  BY <1>1, ConeIsLeast
<1>3. QED
  BY <1>1, <1>2 DEF Reach

(* What the lint's own call builds needs only what it has settled. *)
LEMMA NeedsAreSettled ==
  ASSUME FreshInv, DoneOK, stack # <<>>, Len(stack) = 1, Top.at # "next"
  PROVE  /\ Bottom = Top /\ Top.cur \in Paths /\ target \in Paths
         /\ needs[Top.cur] \subseteq Cone(Top.cur)
         /\ \A p \in Cone(Top.cur) : p \in Paths /\ Settled(p)
<1>1. Typed /\ LintOK(Bottom) /\ Bottom = Top /\ Top \in Frame
  BY Tops DEF FreshInv
<1>2. needs \in Graphs /\ target \in Paths /\ Top.cur \in Paths
  BY <1>1, Types DEF LintOK, Frame
<1> DEFINE done == Reach(target) \ Top.todo
<1>3. Top.cur \in done /\ Top.cur \notin Cone(Top.cur)
  BY <1>1 DEF DoneOK
<1>4. done \in SUBSET Paths /\ \A q \in done : needs[q] \subseteq done
  <2>1. Reach(target) \subseteq Paths /\ \A q \in Reach(target) : needs[q] \subseteq Reach(target)
    BY <1>2, ConeIsClosed DEF Reach
  <2>2. \A q \in done : needs[q] \cap Top.todo = {}
    BY <1>1 DEF LintOK
  <2>3. QED
    BY <2>1, <2>2
<1>5. Cone(Top.cur) \subseteq done
  BY <1>2, <1>3, <1>4, ConeIsLeast
<1>6. Cone(Top.cur) \subseteq Cone(target)
  <2>1. CASE Top.cur = target
    BY <2>1
  <2>2. CASE Top.cur # target
    <3>1. Top.cur \in Cone(target)
      BY <1>3, <2>2 DEF Reach
    <3>2. QED
      BY <1>2, <3>1, ReachWithin DEF Reach
  <2>3. QED
    BY <2>1, <2>2
<1>7. QED
  BY <1>1, <1>2, <1>3, <1>4, <1>5, <1>6, ConeIsClosed DEF DoneOK

(* What is settled stays so: texts are compiled as they are, and files     *)
(* change by edits.                                                        *)
LEMMA SettledStays ==
  ASSUME UNCHANGED needs, errors \subseteq errors', edited \subseteq edited',
         \A p \in Paths : p \in edited' \/ disk'[p] = disk[p],
         NEW p \in Paths, compiled'[p] \in {compiled[p], disk[p]}
  PROVE  Settled(p) => Settled(p)'
<1>1. Reach(p)' = Reach(p) /\ p \in Reach(p)
  BY DEF Reach, Cone
<1>2. QED
  BY <1>1 DEF Settled

(* The lint's own call goes on with the same path. *)
LEMMA DoneStays ==
  ASSUME DoneOK, UNCHANGED <<needs, target>>, target \in Paths, needs \in Graphs,
         Bottom'.todo = Bottom.todo, Bottom'.cur = Bottom.cur, Bottom.at = "next" => Bottom'.at = "next",
         \A p \in Paths : (Settled(p) => Settled(p)') /\ (Stored(p) => Stored(p)'),
         Bottom'.at = "next" /\ Bottom.at # "next" =>
           \A p \in Cone(target) : p = Bottom.cur => Settled(p)',
         Bottom'.at # "next" /\ (Bottom'.at = "handle" \/ Bottom'.tries > 0) =>
           \A p \in Paths : p = Bottom.cur => Stored(p)'
  PROVE  DoneOK'
<1>1. Cone(target)' = Cone(target) /\ Reach(target)' = Reach(target) /\ Cone(target) \subseteq Paths
      /\ Reach(target) \subseteq Paths
  BY ConeIsClosed DEF Cone, Reach
<1>2. ASSUME NEW p \in Cone(target) \ Bottom.todo, Bottom'.at = "next" \/ p # Bottom.cur
      PROVE  Settled(p)'
  BY <1>1, <1>2 DEF DoneOK
<1>3. Cone(Bottom.cur)' = Cone(Bottom.cur)
  BY DEF Cone
<1>4. ASSUME Bottom'.at # "next", Bottom'.at = "handle" \/ Bottom'.tries > 0 PROVE Stored(Bottom.cur)'
  <2>1. Bottom.cur \in Paths
    BY <1>1, <1>4 DEF DoneOK
  <2>2. \A p \in Paths : p = Bottom.cur => Stored(p)'
    BY <1>4
  <2>3. QED
    BY <2>1, <2>2 DEF Stored
<1>5. QED
  BY <1>1, <1>2, <1>3, <1>4 DEF DoneOK

(* The innermost call moves on. *)
LEMMA TopSet ==
  ASSUME FreshInv, stack # <<>>, NEW f \in Frame, SetTop(f)
  PROVE  /\ stack' # <<>> /\ Top' = f /\ Len(stack') = Len(stack)
         /\ Bottom' = IF Len(stack) = 1 THEN f ELSE Bottom
<1>1. stack' = <<f>> \o Tail(stack) /\ stack \in Seq(Frame)
  BY DEF SetTop, FreshInv, Typed, TypeOK
<1>2. /\ stack' \in Seq(Frame) /\ stack' # <<>> /\ Len(stack') = Len(stack) /\ stack'[1] = f
      /\ stack'[Len(stack')] = IF Len(stack) = 1 THEN f ELSE stack[Len(stack)]
  BY <1>1, TopReplaced
<1>3. Head(stack') = stack'[1]
  BY <1>2, StackTypes
<1>4. QED
  BY <1>2, <1>3 DEF Top, Bottom

LEMMA DoneMoves ==
  ASSUME FreshInv, DoneOK, stack # <<>>, NEW f \in Frame, SetTop(f), UNCHANGED <<needs, target>>,
         f.todo = Top.todo, f.cur = Top.cur, Top.at # "next",
         \A p \in Paths : (Settled(p) => Settled(p)') /\ (Stored(p) => Stored(p)'),
         Len(stack) = 1 /\ f.at = "next" => \A p \in Cone(target) : p = Top.cur => Settled(p)',
         Len(stack) = 1 /\ f.at # "next" /\ (f.at = "handle" \/ f.tries > 0) =>
           \A p \in Paths : p = Top.cur => Stored(p)'
  PROVE  DoneOK'
<1>1. Bottom' = IF Len(stack) = 1 THEN f ELSE Bottom
  BY TopSet
<1>2. /\ Typed /\ LintOK(Bottom) /\ (Len(stack) = 1 => Bottom = Top)
      /\ (Len(stack) # 1 => Bottom.at = "handle")
  BY Tops DEF FreshInv
<1>3. target \in Paths /\ needs \in Graphs
  BY <1>2, Types DEF LintOK
<1>4. CASE Len(stack) = 1
  BY <1>1, <1>2, <1>3, <1>4, DoneStays
<1>5. CASE Len(stack) # 1
  <2>1. \A p \in Paths : p = Bottom.cur => Stored(p)'
    BY <1>2, <1>5 DEF DoneOK
  <2>2. QED
    BY <1>1, <1>2, <1>3, <1>5, <2>1, DoneStays
<1>6. QED
  BY <1>4, <1>5

(* A step that leaves the files, the libraries and what is stored alone. *)
LEMMA FilesStay ==
  ASSUME FilesOK, UNCHANGED <<disk, wrong, edited, raced, compiled, info>>, ~ At("store"), ~ At("store")'
  PROVE  FilesOK' /\ StoreOK'
BY DEF FilesOK, StoreOK

LEMMA KeptAlone ==
  ASSUME UNCHANGED <<needs, disk, edited, compiled, info>>, errors \subseteq errors'
  PROVE  \A p \in Paths : (Settled(p) => Settled(p)') /\ (Stored(p) => Stored(p)')
<1>1. ASSUME NEW p \in Paths PROVE Settled(p) => Settled(p)'
  BY SettledStays
<1>2. ASSUME NEW p \in Paths PROVE Stored(p) => Stored(p)'
  BY DEF Stored
<1>3. QED
  BY <1>1, <1>2

LEMMA ShownStays ==
  ASSUME ShownOK, UNCHANGED <<needs, wrong, edited, target, errors, outcome>>
  PROVE  ShownOK'
<1>1. Shown' = Shown /\ \A p : Reach(p)' = Reach(p)
  BY DEF Shown, Reach, Cone
<1>2. QED
  BY <1>1 DEF ShownOK

LEMMA SettledEdit ==
  ASSUME FreshInv, SettledInv, NEW p \in Paths, Edit(p)
  PROVE  SettledInv'
<1>1. /\ disk' = [disk EXCEPT ![p] = @ + 1] /\ edited' = edited \cup {p}
      /\ wrong' \in {wrong \cup {p}, wrong \ {p}}
      /\ raced' = IF At("store") /\ Top.cur = p THEN raced \cup {p} ELSE raced
      /\ UNCHANGED <<needs, compiled, obsolete, waits, info, stack, target, errors, outcome>>
  BY DEF Edit, library, lint
<1>2. Typed
  BY DEF FreshInv
<1>3. ASSUME NEW q \in Paths
      PROVE  /\ disk[q] \in Nat /\ compiled[q] \in Nat /\ compiled[q] <= disk[q]
             /\ disk'[q] = IF q = p THEN disk[q] + 1 ELSE disk[q]
             /\ info[q].compile_time \in Nat
  <2>1. disk \in [Paths -> Versions]
    BY <1>2, Types
  <2>2. QED
    BY <1>1, <1>2, <2>1, VersionTypes
<1>4. At("store")' = At("store") /\ Top' = Top /\ Bottom' = Bottom
  BY <1>1 DEF At, Top, Bottom
<1>5. FilesOK'
  <2>1. raced' \subseteq edited'
    BY <1>1 DEF SettledInv, FilesOK
  <2>2. ASSUME NEW q \in wrong' PROVE compiled'[q] # disk'[q]
    <3>1. q \in Paths
      BY <1>1, <1>2, Types
    <3>2. CASE q = p
      BY <1>1, <1>3, <3>1, <3>2
    <3>3. CASE q # p
      BY <1>1, <1>3, <3>1, <3>3 DEF SettledInv, FilesOK
    <3>4. QED
      BY <3>2, <3>3
  <2>3. ASSUME NEW q \in Paths
        PROVE  /\ info'[q].compile_time <= disk'[q]
               /\ info'[q].failed => info'[q].compile_time = 0
               /\ \/ info'[q].compile_time <= compiled'[q]
                  \/ q \in raced'
                  \/ At("store")' /\ Top'.cur = q /\ Top'.failed
    <3>1. info[q].compile_time <= disk[q] /\ (info[q].failed => info[q].compile_time = 0)
      BY DEF SettledInv, FilesOK
    <3>2. info'[q].compile_time <= disk'[q]
      BY <1>1, <1>3, <3>1
    <3>3. \/ info[q].compile_time <= compiled[q]
          \/ q \in raced
          \/ At("store") /\ Top.cur = q /\ Top.failed
      BY DEF SettledInv, FilesOK
    <3>4. QED
      BY <1>1, <1>4, <3>1, <3>2, <3>3
  <2>4. QED
    BY <2>1, <2>2, <2>3 DEF FilesOK
<1>6. StoreOK'
  <2>1. SUFFICES ASSUME At("store"), ~ Top.failed PROVE compiled'[Top.cur] = disk'[Top.cur] \/ Top.cur \in raced'
    BY <1>1, <1>4 DEF StoreOK
  <2>2. Top.cur \in Paths
    BY <1>2, <2>1, Tops DEF At, Frame
  <2>3. QED
    BY <1>1, <1>3, <2>1, <2>2 DEF SettledInv, StoreOK
<1>7. ShownOK'
  BY <1>1 DEF ShownOK
<1>8. OutcomeOK'
  BY <1>1, <1>4 DEF SettledInv, OutcomeOK
<1>9. \A q \in Paths : (Settled(q) => Settled(q)') /\ (Stored(q) => Stored(q)')
  <2>1. ASSUME NEW q \in Paths PROVE Settled(q) => Settled(q)'
    BY <1>1, <1>3, SettledStays
  <2>2. ASSUME NEW q \in Paths PROVE Stored(q) => Stored(q)'
    BY <1>1, <1>3 DEF Stored
  <2>3. QED
    BY <2>1, <2>2
<1>10. ASSUME stack' # <<>> PROVE DoneOK'
  <2>1. DoneOK /\ target \in Paths /\ needs \in Graphs
    BY <1>1, <1>2, <1>10, Types DEF SettledInv, FreshInv, LintOK
  <2>2. Bottom.at # "next" /\ (Bottom.at = "handle" \/ Bottom.tries > 0) => Stored(Bottom.cur) /\ Bottom.cur \in Paths
    <3>1. Reach(target) \subseteq Paths
      BY <2>1, ConeIsClosed DEF Reach
    <3>2. QED
      BY <2>1, <3>1 DEF DoneOK
  <2>3. QED
    BY <1>1, <1>4, <1>9, <2>1, <2>2, DoneStays
<1>11. Finished' => \A q \in Cone(target)' : Settled(q)'
  <2>1. SUFFICES ASSUME Finished PROVE \A q \in Cone(target) : Settled(q)'
    BY <1>1 DEF Finished, Cone
  <2>2. target \in Paths /\ needs \in Graphs
    BY <1>2, <2>1, Types DEF Finished
  <2>3. Cone(target) \subseteq Paths
    BY <2>2, ConeIsClosed
  <2>4. QED
    BY <1>9, <2>1, <2>3 DEF SettledInv
<1>12. QED
  BY <1>5, <1>6, <1>7, <1>8, <1>10, <1>11 DEF SettledInv

LEMMA SettledLint ==
  ASSUME FreshInv, SettledInv, NEW p \in Paths, Lint(p)
  PROVE  SettledInv'
<1>1. /\ stack = <<>> /\ stack' = <<CallOf(p)>> /\ target' = p /\ errors' = {} /\ outcome' = "none"
      /\ edited' = raced
      /\ UNCHANGED <<needs, disk, edits, wrong, raced, compiled, obsolete, waits, info>>
  BY DEF Lint, library
<1>2. stack' # <<>> /\ Top' = CallOf(p) /\ Bottom' = CallOf(p) /\ ~ At("store")' /\ ~ At("store")
  BY <1>1 DEF Top, Bottom, At, CallOf
<1>3. FilesOK' /\ StoreOK'
  BY <1>1, <1>2 DEF SettledInv, FilesOK, StoreOK
<1>4. ShownOK' /\ OutcomeOK'
  BY <1>1 DEF ShownOK, Shown, OutcomeOK
<1>5. DoneOK'
  <2>1. Cone(target)' = Cone(p) /\ Bottom'.todo = Cone(p) \cup {p} /\ Bottom'.at = "next"
    BY <1>1, <1>2 DEF Cone, CallOf
  <2>2. QED
    BY <2>1 DEF DoneOK
<1>6. QED
  BY <1>2, <1>3, <1>4, <1>5 DEF SettledInv, Finished

LEMMA SettledBegin ==
  ASSUME FreshInv, SettledInv, NEW p \in Paths, Begin(p)
  PROVE  SettledInv'
<1> DEFINE f == [Top EXCEPT !.cur = p, !.todo = @ \ {p}, !.tries = 0, !.at = "build"]
<1>1. /\ stack # <<>> /\ Top.at = "next" /\ p \in Top.todo /\ needs[p] \cap Top.todo = {} /\ SetTop(f)
      /\ UNCHANGED <<needs, disk, edits, wrong, edited, raced, compiled, obsolete, waits, info, target, errors, outcome>>
  BY DEF Begin, At, files, library, lint
<1>2. Typed /\ Top \in Frame /\ LintOK(Bottom) /\ DoneOK
      /\ (Len(stack) = 1 => Bottom = Top) /\ (Len(stack) # 1 => Bottom.at = "handle")
  BY <1>1, Tops DEF FreshInv, SettledInv
<1>3. /\ f \in Frame /\ f.cur = p /\ f.todo = Top.todo \ {p} /\ f.at = "build" /\ f.tries = 0
  <2>1. 0 \in 0 .. MaxAttempts
    BY MaxAttemptsAssumption
  <2>2. QED
    BY <1>2, <2>1 DEF Frame
<1> HIDE DEF f
<1>4. /\ stack' # <<>> /\ Top' = f /\ Len(stack') = Len(stack)
      /\ Bottom' = IF Len(stack) = 1 THEN f ELSE Bottom
  BY <1>1, <1>3, TopSet
<1>5. ~ At("store") /\ ~ At("store")'
  BY <1>1, <1>3, <1>4 DEF At
<1>6. FilesOK' /\ StoreOK'
  BY <1>1, <1>5, FilesStay DEF SettledInv
<1>7. ShownOK'
  BY <1>1, ShownStays DEF SettledInv
<1>8. OutcomeOK'
  BY <1>1, <1>2, <1>4 DEF SettledInv, OutcomeOK
<1>9. \A q \in Paths : (Settled(q) => Settled(q)') /\ (Stored(q) => Stored(q)')
  BY <1>1, KeptAlone
<1>10. target \in Paths /\ needs \in Graphs
  BY <1>2, Types DEF LintOK
<1>11. Cone(target)' = Cone(target) /\ Reach(target)' = Reach(target) /\ Cone(p)' = Cone(p)
       /\ Cone(target) \subseteq Paths /\ Reach(target) \subseteq Paths
  BY <1>1, <1>10, ConeIsClosed DEF Cone, Reach
<1>12. CASE Len(stack) = 1
  <2> DEFINE done == Reach(target) \ Top.todo
  <2>1. done \in SUBSET Paths /\ p \in Reach(target)
    BY <1>1, <1>2, <1>11, <1>12 DEF LintOK
  <2>2. \A q \in Reach(target) : needs[q] \subseteq Reach(target)
    BY <1>10, ConeIsClosed DEF Reach
  <2>3. \A q \in done : needs[q] \subseteq done
    BY <1>2, <1>12, <2>2 DEF LintOK
  <2>4. needs[p] \subseteq done
    BY <1>1, <2>1, <2>2
  <2>5. Cone(p) \subseteq done
    BY <2>1, <2>3, <2>4, ConeIsLeast
  <2>6. \A q \in Cone(target) \ f.todo : q # p => Settled(q)'
    BY <1>1, <1>2, <1>3, <1>9, <1>11, <1>12 DEF DoneOK
  <2>7. p \notin Cone(p) /\ p \in Reach(target) \ f.todo
    BY <1>1, <1>3, <2>1, <2>5
  <2>8. Bottom' = f
    BY <1>4, <1>12
  <2>9. QED
    BY <1>3, <1>4, <1>6, <1>7, <1>8, <1>11, <2>6, <2>7, <2>8 DEF SettledInv, DoneOK, Finished
<1>13. CASE Len(stack) # 1
  <2>1. Bottom' = Bottom /\ Bottom.at = "handle" /\ Bottom.cur \in Paths /\ Stored(Bottom.cur)
    BY <1>2, <1>4, <1>11, <1>13 DEF DoneOK
  <2>2. DoneOK'
    BY <1>1, <1>2, <1>9, <1>10, <2>1, DoneStays
  <2>3. QED
    BY <1>4, <1>6, <1>7, <1>8, <2>2 DEF SettledInv, Finished
<1>14. QED
  BY <1>12, <1>13

(* What the compiler says is true of what it compiles. *)
LEMMA VerdictsAreTrue ==
  ASSUME NEW p \in Paths, needs \in Graphs, NEW v \in Verdicts(p)
  PROVE  /\ v.failed \in BOOLEAN /\ v.rebuilds \subseteq Paths
         /\ ~ v.failed => p \notin wrong
         /\ v.failed /\ v.rebuilds = {} => p \in wrong \/ \E q \in needs[p] : compiled[q] = 0
<1>1. CASE p \in wrong \/ \E q \in needs[p] : compiled[q] = 0
  <2>1. v = [failed |-> TRUE, rebuilds |-> {}]
    BY <1>1 DEF Verdicts
  <2>2. QED
    BY <1>1, <2>1
<1>2. CASE ~ (p \in wrong \/ \E q \in needs[p] : compiled[q] = 0)
  <2>1. \/ v \in [failed : BOOLEAN, rebuilds : (SUBSET (Cone(p) \cap obsolete)) \ {{}}]
        \/ v = [failed |-> FALSE, rebuilds |-> {}]
    BY <1>2 DEF Verdicts
  <2>2. Cone(p) \subseteq Paths
    BY ConeIsClosed
  <2>3. ASSUME v \in [failed : BOOLEAN, rebuilds : (SUBSET (Cone(p) \cap obsolete)) \ {{}}]
        PROVE  v.failed \in BOOLEAN /\ v.rebuilds \subseteq Paths /\ v.rebuilds # {}
    <3>1. v.failed \in BOOLEAN /\ v.rebuilds \in (SUBSET (Cone(p) \cap obsolete)) \ {{}}
      BY <2>3
    <3>2. QED
      BY <2>2, <3>1
  <2>4. ASSUME v = [failed |-> FALSE, rebuilds |-> {}]
        PROVE  ~ v.failed /\ v.failed \in BOOLEAN /\ v.rebuilds \subseteq Paths
    BY <2>4
  <2>5. QED
    BY <1>2, <2>1, <2>3, <2>4
<1>3. QED
  BY <1>1, <1>2

LEMMA SettledCompile ==
  ASSUME FreshInv, SettledInv, Compile
  PROVE  SettledInv'
<1>1. /\ stack # <<>> /\ Top.at = "build" /\ raced' = raced \ {Top.cur}
      /\ UNCHANGED <<needs, disk, edits, wrong, edited, info, target, errors, outcome>>
  BY DEF Compile, Building, At, lint
<1>2. PICK v \in Verdicts(Top.cur), waited \in BOOLEAN :
        /\ SetTop([Top EXCEPT !.at = "store", !.failed = v.failed,
                              !.rebuilds = v.rebuilds \cup (IF waited THEN {Top.cur} ELSE {})])
        /\ IF v.failed THEN UNCHANGED <<compiled, obsolete>> ELSE Compiles(Top.cur)
  BY DEF Compile
<1>3. Typed /\ Top \in Frame /\ Top.cur \in Paths
  BY <1>1, Tops DEF FreshInv, Frame
<1>4. needs \in Graphs /\ compiled \in [Paths -> 0 .. MaxEdits + 1]
  BY <1>3, Types
<1> DEFINE f == [Top EXCEPT !.at = "store", !.failed = v.failed,
                            !.rebuilds = v.rebuilds \cup (IF waited THEN {Top.cur} ELSE {})]
<1>5. /\ v.failed \in BOOLEAN /\ v.rebuilds \subseteq Paths
      /\ ~ v.failed => Top.cur \notin wrong
      /\ v.failed /\ v.rebuilds = {} => Top.cur \in wrong \/ \E q \in needs[Top.cur] : compiled[q] = 0
  BY <1>3, <1>4, VerdictsAreTrue
<1>6. /\ f \in Frame /\ f.at = "store" /\ f.failed = v.failed /\ f.todo = Top.todo
      /\ f.cur = Top.cur /\ f.tries = Top.tries /\ (f.rebuilds = {} => v.rebuilds = {}) /\ SetTop(f)
  BY <1>2, <1>3, <1>5 DEF Frame
<1> HIDE DEF f
<1>7. /\ stack' # <<>> /\ Top' = f /\ Len(stack') = Len(stack)
      /\ Bottom' = IF Len(stack) = 1 THEN f ELSE Bottom
  BY <1>1, <1>6, TopSet
<1>8. ~ At("store") /\ At("store")'
  BY <1>1, <1>6, <1>7 DEF At
<1>9. /\ \A q \in Paths : compiled'[q] = IF q = Top.cur /\ ~ v.failed THEN disk[q] ELSE compiled[q]
  BY <1>2, <1>4 DEF Compiles
<1>10. FilesOK'
  <2>1. raced' \subseteq edited'
    BY <1>1 DEF SettledInv, FilesOK
  <2>2. ASSUME NEW q \in wrong' PROVE compiled'[q] # disk'[q]
    <3>1. q \in Paths
      BY <1>1, <1>3, Types
    <3>2. QED
      BY <1>1, <1>5, <1>9, <3>1 DEF SettledInv, FilesOK
  <2>3. ASSUME NEW q \in Paths
        PROVE  /\ info'[q].compile_time <= disk'[q]
               /\ info'[q].failed => info'[q].compile_time = 0
               /\ \/ info'[q].compile_time <= compiled'[q]
                  \/ q \in raced'
                  \/ At("store")' /\ Top'.cur = q /\ Top'.failed
    <3>1. /\ info[q].compile_time <= disk[q] /\ (info[q].failed => info[q].compile_time = 0)
          /\ info[q].compile_time <= compiled[q] \/ q \in raced
      BY <1>8 DEF SettledInv, FilesOK
    <3>2. QED
      BY <1>1, <1>6, <1>7, <1>8, <1>9, <3>1
  <2>4. QED
    BY <2>1, <2>2, <2>3 DEF FilesOK
<1>11. StoreOK'
  <2>1. CASE v.failed
    <3>1. UNCHANGED compiled
      BY <1>2, <2>1
    <3>2. QED
      BY <1>1, <1>5, <1>6, <1>7, <2>1, <3>1 DEF StoreOK
  <2>2. CASE ~ v.failed
    BY <1>1, <1>3, <1>6, <1>7, <1>9, <2>2 DEF StoreOK
  <2>3. QED
    BY <2>1, <2>2
<1>12. ShownOK'
  BY <1>1, ShownStays DEF SettledInv
<1>13. OutcomeOK'
  <2>1. Len(stack) = 1 => Bottom = Top
    BY <1>1, <1>3, Tops
  <2>2. outcome = "none"
    BY <1>1, <2>1 DEF SettledInv, OutcomeOK
  <2>3. QED
    BY <1>1, <2>2 DEF OutcomeOK
<1>14. \A q \in Paths : (Settled(q) => Settled(q)') /\ (Stored(q) => Stored(q)')
  <2>1. ASSUME NEW q \in Paths PROVE Settled(q) => Settled(q)'
    BY <1>1, <1>9, SettledStays
  <2>2. ASSUME NEW q \in Paths PROVE Stored(q) => Stored(q)'
    BY <1>1 DEF Stored
  <2>3. QED
    BY <2>1, <2>2
<1>15. DoneOK'
  <2>1. DoneOK
    BY <1>1 DEF SettledInv
  <2>2. Len(stack) = 1 /\ f.tries > 0 => \A q \in Paths : q = Top.cur => Stored(q)'
    <3>1. SUFFICES ASSUME Len(stack) = 1, f.tries > 0 PROVE Stored(Top.cur)
      BY <1>3, <1>14
    <3>2. QED
      BY <1>1, <1>3, <1>6, <2>1, <3>1, Tops DEF DoneOK
  <2>3. QED
    BY <1>1, <1>6, <1>14, <2>1, <2>2, DoneMoves
<1>16. QED
  BY <1>7, <1>10, <1>11, <1>12, <1>13, <1>15 DEF SettledInv, Finished

(* A step that leaves the files, the libraries and the records alone.      *)
LEMMA SettledQuiet ==
  ASSUME FreshInv, SettledInv, stack # <<>>, Top.at \notin {"next", "store"},
         NEW f \in Frame, SetTop(f), f.todo = Top.todo, f.cur = Top.cur, f.at # "store",
         UNCHANGED <<needs, disk, wrong, edited, raced, compiled, info, target>>,
         errors \subseteq errors', outcome' # "none" /\ Len(stack) = 1 => f.at = "next" /\ f.todo = {},
         outcome' # "none" => Len(stack) = 1,
         ShownOK',
         Len(stack) = 1 /\ f.at = "next" => \A p \in Cone(target) : p = Top.cur => Settled(p)',
         Len(stack) = 1 /\ f.at # "next" /\ (f.at = "handle" \/ f.tries > 0) => Stored(Top.cur)
  PROVE  SettledInv'
<1>1. /\ stack' # <<>> /\ Top' = f /\ Len(stack') = Len(stack)
      /\ Bottom' = IF Len(stack) = 1 THEN f ELSE Bottom
  BY TopSet
<1>2. ~ At("store") /\ ~ At("store")'
  BY <1>1 DEF At
<1>3. FilesOK' /\ StoreOK'
  BY <1>2, FilesStay DEF SettledInv
<1>4. \A q \in Paths : (Settled(q) => Settled(q)') /\ (Stored(q) => Stored(q)')
  BY KeptAlone
<1>5. DoneOK'
  BY <1>4, DoneMoves DEF SettledInv
<1>6. OutcomeOK'
  BY <1>1 DEF OutcomeOK
<1>7. QED
  BY <1>1, <1>3, <1>5, <1>6 DEF SettledInv, Finished

(* While a source is built the lint has no outcome yet. *)
LEMMA NoOutcomeYet ==
  ASSUME FreshInv, SettledInv, stack # <<>>, Top.at # "next"
  PROVE  outcome = "none" /\ Shown = errors
<1>1. Len(stack) = 1 => Bottom = Top
  BY Tops DEF FreshInv
<1>2. outcome = "none"
  BY <1>1 DEF SettledInv, OutcomeOK
<1>3. QED
  BY <1>2 DEF Shown

(* Records without hints settle the source, and their error leads to a     *)
(* text that is wrong.                                                     *)
LEMMA AnswerSettles ==
  ASSUME FreshInv, SettledInv, stack # <<>>, Top.at # "next",
         NEW frame \in Frame, frame.path = Top.path, frame.todo = Top.todo, frame.cur = Top.cur,
         Answer(frame), UNCHANGED <<needs, disk, wrong, edited, raced, compiled>>,
         frame.failed /\ frame.rebuilds = {} /\ edited = {} =>
           Top.cur \in wrong \/ \E q \in needs[Top.cur] : compiled[q] = 0,
         ~ frame.failed /\ frame.rebuilds = {} => compiled[Top.cur] = disk[Top.cur] \/ Top.cur \in edited
  PROVE  \E f \in Frame :
           /\ SetTop(f) /\ f.todo = Top.todo /\ f.cur = Top.cur /\ f.at \in {"handle", "next"}
           /\ target' = target /\ errors \subseteq errors' /\ ShownOK'
           /\ outcome' # "none" => Len(stack) = 1 /\ f.at = "next" /\ f.todo = {}
           /\ Len(stack) = 1 /\ f.at = "next" => \A p \in Cone(target) : p = Top.cur => Settled(p)'
<1> DEFINE f == [frame EXCEPT !.at = IF frame.rebuilds # {} THEN "handle" ELSE "next"]
<1>1. /\ f \in Frame /\ f.todo = Top.todo /\ f.cur = Top.cur
      /\ f.at = IF frame.rebuilds # {} THEN "handle" ELSE "next"
  BY DEF Frame
<1>2. SetTop(f) /\ target' = target
  BY DEF Answer, lint
<1> HIDE DEF f
<1>3. outcome = "none" /\ Shown = errors
  BY NoOutcomeYet
<1>4. CASE frame.rebuilds # {}
  <2>1. errors' = errors /\ outcome' = outcome
    BY <1>4 DEF Answer, lint
  <2>2. ShownOK'
    BY <1>2, <2>1, ShownStays DEF SettledInv
  <2>3. QED
    BY <1>1, <1>2, <1>3, <1>4, <2>1, <2>2
<1>5. CASE frame.rebuilds = {}
  <2>1. /\ errors' = IF Len(stack) = 1 /\ ~ Forced /\ frame.failed THEN errors \cup {Top.cur} ELSE errors
        /\ outcome' = IF Len(stack) = 1 /\ Forced
                      THEN IF frame.failed THEN "errors" ELSE "clean" ELSE outcome
    BY <1>5 DEF Answer
  <2>2. CASE Len(stack) # 1
    <3>1. errors' = errors /\ outcome' = outcome
      BY <2>1, <2>2
    <3>2. ShownOK'
      BY <1>2, <3>1, ShownStays DEF SettledInv
    <3>3. QED
      BY <1>1, <1>2, <1>3, <2>2, <3>1, <3>2
  <2>3. CASE Len(stack) = 1
    <3>1. /\ Bottom = Top /\ Top.cur \in Paths /\ target \in Paths
          /\ needs[Top.cur] \subseteq Cone(Top.cur)
          /\ \A p \in Cone(Top.cur) : p \in Paths /\ Settled(p)
      BY <2>3, NeedsAreSettled DEF SettledInv
    <3>2. Typed /\ LintOK(Top) /\ needs \in Graphs
      BY <3>1, Types DEF FreshInv
    <3>3. Forced => Top.cur = target /\ Top.todo = {} /\ target \notin Cone(target)
      BY <3>2 DEF LintOK, Forced
    <3>4. Shown' = IF frame.failed THEN errors \cup {Top.cur} ELSE errors
      <4>1. CASE Forced
        BY <1>2, <2>1, <2>3, <3>3, <4>1 DEF Shown
      <4>2. CASE ~ Forced
        BY <1>3, <2>1, <2>3, <4>2 DEF Shown
      <4>3. QED
        BY <4>1, <4>2
    <3>5. \A p : Reach(p)' = Reach(p)
      BY DEF Reach, Cone
    <3>6. ASSUME edited = {}, frame.failed PROVE Reach(Top.cur) \cap wrong \cap (errors \cup {Top.cur}) # {}
      <4>1. CASE Top.cur \in wrong
        BY <4>1 DEF Reach
      <4>2. CASE Top.cur \notin wrong
        <5>1. PICK q \in needs[Top.cur] : compiled[q] = 0
          BY <1>5, <3>6, <4>2
        <5>2. q \in Paths /\ Settled(q) /\ disk[q] # 0 /\ q \in Cone(Top.cur)
          BY <3>1, <3>2, <5>1, VersionTypes
        <5>3. PICK r \in Reach(q) : r \in errors
          BY <3>6, <5>1, <5>2 DEF Settled
        <5>4. Reach(r) \cap wrong \cap errors # {}
          <6>1. ShownOK
            BY DEF SettledInv
          <6>2. QED
            BY <1>3, <3>6, <5>3, <6>1 DEF ShownOK
        <5>5. Reach(q) \subseteq Cone(Top.cur)
          BY <3>1, <3>2, <5>2, ReachWithin
        <5>6. Reach(r) \subseteq Cone(Top.cur)
          BY <3>1, <3>2, <5>3, <5>5, ReachWithin
        <5>7. QED
          BY <5>4, <5>6 DEF Reach
      <4>3. QED
        BY <4>1, <4>2
    <3>7. ShownOK'
      <4>1. SUFFICES ASSUME edited = {}, NEW p \in Shown' PROVE Reach(p) \cap wrong \cap Shown' # {}
        BY <3>5 DEF ShownOK
      <4>2. CASE p \in errors
        BY <1>3, <3>4, <4>1, <4>2 DEF SettledInv, ShownOK
      <4>3. CASE p \notin errors
        BY <3>4, <3>6, <4>1, <4>3
      <4>4. QED
        BY <4>2, <4>3
    <3>8. ASSUME NEW p \in Cone(target), p = Top.cur PROVE Settled(p)'
      <4>1. ~ Forced /\ p \in Reach(p)'
        BY <3>3, <3>8, <3>5 DEF Reach
      <4>2. CASE frame.failed
        BY <2>1, <2>3, <3>8, <4>1, <4>2 DEF Settled
      <4>3. CASE ~ frame.failed
        BY <1>5, <3>8, <4>1, <4>3 DEF Settled
      <4>4. QED
        BY <4>2, <4>3
    <3>9. outcome' # "none" => f.at = "next" /\ f.todo = {}
      BY <1>1, <1>3, <1>5, <2>1, <3>3
    <3>10. QED
      BY <1>1, <1>2, <1>5, <2>1, <2>3, <3>7, <3>8, <3>9
  <2>4. QED
    BY <2>2, <2>3
<1>6. QED
  BY <1>4, <1>5

LEMMA SettledStore ==
  ASSUME FreshInv, SettledInv, Store
  PROVE  SettledInv'
<1>1. /\ stack # <<>> /\ Top.at = "store" /\ Answer(Top)
      /\ info' = [info EXCEPT ![Top.cur] =
                   [compile_time |-> IF Top.failed THEN 0 ELSE disk[Top.cur],
                    failed |-> Top.failed, rebuilds |-> Top.rebuilds]]
      /\ UNCHANGED <<needs, disk, edits, wrong, edited, raced, compiled, obsolete, waits>>
  BY DEF Store, At, files, library
<1>2. Typed /\ Top \in Frame /\ Top.cur \in Paths /\ At("store")
  BY <1>1, Tops DEF FreshInv, Frame, At
<1>3. info \in [Paths -> Infos] /\ \A p \in Paths : disk[p] \in Nat /\ compiled[p] \in Nat
  BY <1>2, Types, VersionTypes
<1>4. raced \subseteq edited
  BY DEF SettledInv, FilesOK
<1>5. PICK f \in Frame :
           /\ SetTop(f) /\ f.todo = Top.todo /\ f.cur = Top.cur /\ f.at \in {"handle", "next"}
           /\ target' = target /\ errors \subseteq errors' /\ ShownOK'
           /\ outcome' # "none" => Len(stack) = 1 /\ f.at = "next" /\ f.todo = {}
           /\ Len(stack) = 1 /\ f.at = "next" => \A p \in Cone(target) : p = Top.cur => Settled(p)'
  <2>1. Top.failed /\ Top.rebuilds = {} /\ edited = {} =>
          Top.cur \in wrong \/ \E q \in needs[Top.cur] : compiled[q] = 0
    BY <1>2 DEF SettledInv, StoreOK
  <2>2. ~ Top.failed => compiled[Top.cur] = disk[Top.cur] \/ Top.cur \in edited
    BY <1>2, <1>4 DEF SettledInv, StoreOK
  <2>3. QED
    BY <1>1, <1>2, <2>1, <2>2, AnswerSettles
<1>6. /\ stack' # <<>> /\ Top' = f /\ Len(stack') = Len(stack)
      /\ Bottom' = IF Len(stack) = 1 THEN f ELSE Bottom
  BY <1>1, <1>5, TopSet
<1>7. ~ At("store")'
  BY <1>5, <1>6 DEF At
<1>8. \A p \in Paths :
        /\ p = Top.cur => /\ info'[p].compile_time = IF Top.failed THEN 0 ELSE disk[p]
                          /\ info'[p].failed = Top.failed
        /\ p # Top.cur => info'[p] = info[p]
  BY <1>1, <1>2, <1>3
<1>9. FilesOK' /\ StoreOK'
  <2>1. ASSUME NEW p \in Paths
        PROVE  /\ info'[p].compile_time <= disk[p]
               /\ info'[p].failed => info'[p].compile_time = 0
               /\ info'[p].compile_time <= compiled[p] \/ p \in raced
    <3>1. CASE p = Top.cur
      <4>1. Top.failed \in BOOLEAN
        BY <1>2 DEF Frame
      <4>2. ~ Top.failed => compiled[p] = disk[p] \/ p \in raced
        BY <1>2, <3>1 DEF SettledInv, StoreOK
      <4>3. QED
        BY <1>3, <1>8, <3>1, <4>1, <4>2
    <3>2. CASE p # Top.cur
      BY <1>8, <3>2 DEF SettledInv, FilesOK
    <3>3. QED
      BY <3>1, <3>2
  <2>2. QED
    BY <1>1, <1>7, <2>1 DEF SettledInv, FilesOK, StoreOK
<1>10. \A p \in Paths : (Settled(p) => Settled(p)') /\ (Stored(p) \/ p = Top.cur => Stored(p)')
  <2>1. ASSUME NEW p \in Paths PROVE Settled(p) => Settled(p)'
    BY <1>1, <1>5, SettledStays
  <2>2. ASSUME NEW p \in Paths PROVE Stored(p) \/ p = Top.cur => Stored(p)'
    <3>1. CASE p = Top.cur
      BY <1>1, <1>8, <3>1 DEF Stored
    <3>2. CASE p # Top.cur
      BY <1>1, <1>8, <3>2 DEF Stored
    <3>3. QED
      BY <3>1, <3>2
  <2>3. QED
    BY <2>1, <2>2
<1>11. DoneOK'
  BY <1>1, <1>5, <1>10, DoneMoves DEF SettledInv
<1>12. OutcomeOK'
  BY <1>5, <1>6 DEF OutcomeOK
<1>13. QED
  BY <1>5, <1>6, <1>9, <1>11, <1>12 DEF SettledInv, Finished

LEMMA SettledCached ==
  ASSUME FreshInv, SettledInv, UseCached
  PROVE  SettledInv'
<1> DEFINE frame == [Top EXCEPT !.failed = info[Top.cur].failed, !.rebuilds = info[Top.cur].rebuilds]
<1>1. /\ stack # <<>> /\ Top.at = "build" /\ ~ (disk[Top.cur] > info[Top.cur].compile_time) /\ Answer(frame)
      /\ UNCHANGED <<needs, disk, edits, wrong, edited, raced, compiled, obsolete, waits, info>>
  BY DEF UseCached, Building, At, MustCompile, files, library
<1>2. Typed /\ Top \in Frame /\ Top.cur \in Paths
  BY <1>1, Tops DEF FreshInv, Frame
<1>3. info[Top.cur] \in Infos
  BY <1>2, Types
<1>4. frame \in Frame /\ frame.path = Top.path /\ frame.todo = Top.todo /\ frame.cur = Top.cur
      /\ frame.failed = info[Top.cur].failed
  BY <1>2, <1>3 DEF Frame, Infos
<1> HIDE DEF frame
<1>5. /\ disk[Top.cur] \in Nat /\ disk[Top.cur] >= 1 /\ compiled[Top.cur] \in Nat
      /\ compiled[Top.cur] <= disk[Top.cur] /\ info[Top.cur].compile_time \in Nat
  BY <1>2, VersionTypes
<1>6. /\ info[Top.cur].compile_time <= disk[Top.cur] /\ (info[Top.cur].failed => info[Top.cur].compile_time = 0)
      /\ info[Top.cur].compile_time <= compiled[Top.cur] \/ Top.cur \in edited
  BY <1>1, <1>2 DEF SettledInv, FilesOK, At
<1>7. /\ ~ frame.failed /\ info[Top.cur].compile_time = disk[Top.cur]
      /\ compiled[Top.cur] = disk[Top.cur] \/ Top.cur \in edited
  BY <1>1, <1>4, <1>5, <1>6
<1>8. PICK f \in Frame :
           /\ SetTop(f) /\ f.todo = Top.todo /\ f.cur = Top.cur /\ f.at \in {"handle", "next"}
           /\ target' = target /\ errors \subseteq errors' /\ ShownOK'
           /\ outcome' # "none" => Len(stack) = 1 /\ f.at = "next" /\ f.todo = {}
           /\ Len(stack) = 1 /\ f.at = "next" => \A p \in Cone(target) : p = Top.cur => Settled(p)'
  BY <1>1, <1>4, <1>7, AnswerSettles
<1>9. Stored(Top.cur)
  BY <1>7 DEF Stored
<1>10. QED
  BY <1>1, <1>8, <1>9, SettledQuiet

LEMMA SettledAgain ==
  ASSUME FreshInv, SettledInv, TryAgain
  PROVE  SettledInv'
<1> DEFINE f == [Top EXCEPT !.at = "build", !.tries = @ + 1]
<1>1. /\ stack # <<>> /\ Top.at = "handle" /\ SetTop(f)
      /\ UNCHANGED <<needs, disk, edits, wrong, edited, raced, compiled, obsolete, waits, info,
                     target, errors, outcome>>
  BY DEF TryAgain, At, files, library, lint
<1>2. Top \in Frame /\ Top.tries < MaxAttempts /\ (Len(stack) = 1 => Bottom = Top)
  BY <1>1, Tops DEF FreshInv
<1>3. f \in Frame /\ f.todo = Top.todo /\ f.cur = Top.cur /\ f.at = "build"
  <2>1. Top.tries + 1 \in 0 .. MaxAttempts
    BY <1>2, MaxAttemptsAssumption DEF Frame
  <2>2. QED
    BY <1>2, <2>1 DEF Frame
<1> HIDE DEF f
<1>4. outcome' = "none" /\ ShownOK'
  BY <1>1, NoOutcomeYet, ShownStays DEF SettledInv
<1>5. Len(stack) = 1 => Stored(Top.cur)
  BY <1>1, <1>2 DEF SettledInv, DoneOK
<1>6. QED
  BY <1>1, <1>3, <1>4, <1>5, SettledQuiet

(* A source that is given up for a reason is settled: something that it    *)
(* needs is wrong, which is settled by an error; or it was edited; or only *)
(* a warning asks for rebuilds, and the libraries hold its text.           *)
LEMMA SettledGiveUp ==
  ASSUME FreshInv, SettledInv, GivesUpForAReason, GiveUp
  PROVE  SettledInv'
<1> DEFINE f == [Top EXCEPT !.at = "next"]
<1>1. /\ stack # <<>> /\ Top.at = "build" /\ Top.tries = MaxAttempts /\ SetTop(f)
      /\ outcome' = IF Len(stack) = 1 /\ Forced THEN "gave up" ELSE outcome
      /\ UNCHANGED <<needs, disk, edits, wrong, edited, raced, compiled, obsolete, waits, info,
                     target, errors>>
  BY DEF GiveUp, At, files, library, lint
<1>2. Typed /\ Top \in Frame /\ Top = stack[1] /\ 1 \in DOMAIN stack /\ Top.tries > 0
  <2>1. Typed /\ stack # <<>> /\ Top.tries = MaxAttempts
    BY <1>1 DEF FreshInv
  <2>2. QED
    BY <2>1, Tops, MaxAttemptsAssumption
<1>3. f \in Frame /\ f.todo = Top.todo /\ f.cur = Top.cur /\ f.at = "next"
  BY <1>2 DEF Frame
<1> HIDE DEF f
<1>4. outcome = "none" /\ Shown = errors
  BY <1>1, NoOutcomeYet
<1>5. Shown' = errors
  BY <1>1, <1>4 DEF Shown
<1>6. ShownOK'
  <2>1. \A p : Reach(p)' = Reach(p)
    BY <1>1 DEF Reach, Cone
  <2>2. ShownOK
    BY DEF SettledInv
  <2>3. QED
    BY <1>1, <1>4, <1>5, <2>1, <2>2 DEF ShownOK
<1>7. outcome' # "none" => Len(stack) = 1 /\ f.at = "next" /\ f.todo = {}
  <2>1. SUFFICES ASSUME Len(stack) = 1, Forced PROVE Top.todo = {}
    BY <1>1, <1>3, <1>4
  <2>2. LintOK(Top)
    BY <1>1, <1>2, <2>1, Tops DEF FreshInv
  <2>3. QED
    BY <1>1, <2>1, <2>2 DEF LintOK, Forced
<1>8. ASSUME Len(stack) = 1 PROVE Settled(Top.cur)
  <2>1. /\ Bottom = Top /\ Top.cur \in Paths /\ needs \in Graphs
        /\ \A p \in Cone(Top.cur) : p \in Paths /\ Settled(p)
    BY <1>1, <1>2, <1>8, NeedsAreSettled, Types DEF SettledInv
  <2>2. \/ Cone(Top.cur) \cap wrong # {} \/ (Cone(Top.cur) \cup {Top.cur}) \cap edited # {}
        \/ ~ info[Top.cur].failed
    BY <1>1, <1>2 DEF GivesUpForAReason
  <2>3. CASE Cone(Top.cur) \cap wrong # {}
    <3>1. PICK p \in Cone(Top.cur) : p \in wrong
      BY <2>3
    <3>2. compiled[p] # disk[p] /\ Settled(p)
      BY <2>1, <3>1 DEF SettledInv, FilesOK
    <3>3. Reach(p) \subseteq Reach(Top.cur)
      BY <2>1, <3>1, ReachWithin DEF Reach
    <3>4. QED
      BY <3>2, <3>3 DEF Settled
  <2>4. CASE (Cone(Top.cur) \cup {Top.cur}) \cap edited # {}
    BY <2>4 DEF Settled, Reach
  <2>5. CASE ~ info[Top.cur].failed /\ Top.cur \notin edited
    <3>1. Top.at = "build" /\ DoneOK
      BY <1>1 DEF SettledInv
    <3>2. Stored(Top.cur)
      BY <1>2, <2>1, <3>1 DEF DoneOK
    <3>3. info[Top.cur].compile_time = disk[Top.cur]
      BY <2>5, <3>2 DEF Stored
    <3>4. info[Top.cur].compile_time <= compiled[Top.cur]
      BY <1>1, <2>1, <2>5 DEF SettledInv, FilesOK, At
    <3>5. compiled[Top.cur] <= disk[Top.cur] /\ disk[Top.cur] \in Nat /\ compiled[Top.cur] \in Nat
      BY <1>2, <2>1, VersionTypes
    <3>6. compiled[Top.cur] = disk[Top.cur]
      BY <3>3, <3>4, <3>5
    <3>7. QED
      BY <3>6 DEF Settled
  <2>6. CASE Top.cur \in edited
    BY <2>6 DEF Settled, Reach
  <2>7. QED
    BY <2>2, <2>3, <2>4, <2>5, <2>6
<1>9. Len(stack) = 1 => \A p \in Cone(target) : p = Top.cur => Settled(p)'
  <2>1. SUFFICES ASSUME Len(stack) = 1, NEW p \in Paths, p = Top.cur PROVE Settled(p)'
    <3>1. Len(stack) = 1 => target \in Paths /\ needs \in Graphs
      BY <1>1, <1>2, Types DEF FreshInv, LintOK
    <3>2. QED
      BY <3>1, ConeIsClosed
  <2>2. Settled(p)
    BY <1>8, <2>1
  <2>3. QED
    BY <1>1, <2>2, KeptAlone
<1>10. QED
  BY <1>1, <1>3, <1>6, <1>7, <1>9, SettledQuiet

LEMMA SettledHandle ==
  ASSUME FreshInv, SettledInv, NEW p \in Paths, Handle(p)
  PROVE  SettledInv'
<1> DEFINE f == [Top EXCEPT !.rebuilds = @ \ {p}]
<1> DEFINE g == CallOf(p)
<1>1. /\ stack # <<>> /\ Top.at = "handle" /\ stack' = <<g, f>> \o Tail(stack)
      /\ UNCHANGED <<needs, disk, edits, wrong, edited, raced, compiled, obsolete, waits, info,
                     target, errors, outcome>>
  BY DEF Handle, At, files, library, lint
<1>2. Typed /\ Top \in Frame /\ (Len(stack) = 1 => Bottom = Top) /\ stack \in Seq(Frame)
  BY <1>1, Tops DEF FreshInv
<1>3. f \in Frame /\ f.todo = Top.todo /\ f.cur = Top.cur /\ f.at = Top.at
  BY <1>2 DEF Frame
<1>4. g \in Frame /\ g.at = "next"
  <2>1. Cone(p) \cup {p} \in SUBSET Paths
    BY <1>2, Types, ConeIsClosed
  <2>2. 0 \in 0 .. MaxAttempts
    BY MaxAttemptsAssumption
  <2>3. QED
    BY <2>1, <2>2 DEF CallOf, Frame
<1> HIDE DEF f, g
<1>5. /\ stack' \in Seq(Frame) /\ stack' # <<>> /\ stack'[1] = g
      /\ stack'[Len(stack')] = IF Len(stack) = 1 THEN f ELSE stack[Len(stack)]
  BY <1>1, <1>2, <1>3, <1>4, TopCalls
<1>6. Top' = g /\ Bottom' = IF Len(stack) = 1 THEN f ELSE Bottom
  BY <1>5, StackTypes DEF Top, Bottom
<1>7. ~ At("store") /\ ~ At("store")'
  BY <1>1, <1>4, <1>6 DEF At
<1>8. FilesOK' /\ StoreOK'
  BY <1>1, <1>7, FilesStay DEF SettledInv
<1>9. ShownOK' /\ OutcomeOK'
  <2>1. outcome = "none"
    BY <1>1, NoOutcomeYet
  <2>2. QED
    BY <1>1, <2>1, ShownStays DEF SettledInv, OutcomeOK
<1>10. \A q \in Paths : (Settled(q) => Settled(q)') /\ (Stored(q) => Stored(q)')
  BY <1>1, KeptAlone
<1>11. DoneOK'
  <2>1. DoneOK /\ target \in Paths /\ needs \in Graphs /\ Bottom.at = "handle"
    BY <1>1, <1>2, Types, Tops DEF SettledInv, FreshInv, LintOK
  <2>2. Bottom'.todo = Bottom.todo /\ Bottom'.cur = Bottom.cur /\ Bottom'.at = Bottom.at
    BY <1>2, <1>3, <1>6
  <2>3. \A q \in Paths : q = Bottom.cur => Stored(q)'
    BY <1>10, <2>1 DEF DoneOK
  <2>4. QED
    BY <1>1, <1>10, <2>1, <2>2, <2>3, DoneStays
<1>12. QED
  BY <1>5, <1>8, <1>9, <1>11 DEF SettledInv, Finished

LEMMA SettledReturn ==
  ASSUME FreshInv, SettledInv, Return
  PROVE  SettledInv'
<1>1. /\ stack # <<>> /\ Top.at = "next" /\ Top.todo = {} /\ stack' = Tail(stack)
      /\ UNCHANGED <<needs, disk, edits, wrong, edited, raced, compiled, obsolete, waits, info,
                     target, errors, outcome>>
  BY DEF Return, At, files, library, lint
<1>2. /\ Typed /\ stack \in Seq(Frame) /\ (Len(stack) = 1 => Bottom = Top) /\ LintOK(Bottom) /\ DoneOK
      /\ (Len(stack) # 1 => Bottom.at = "handle")
  BY <1>1, Tops DEF FreshInv, SettledInv
<1>3. /\ Len(stack) \in Nat \ {0} /\ stack' \in Seq(Frame) /\ Len(stack') = Len(stack) - 1
      /\ \A k \in 1 .. Len(stack) - 1 : stack'[k] = stack[k + 1]
  BY <1>1, <1>2, StackTypes
<1>4. stack' # <<>> => Len(stack) # 1 /\ Bottom' = Bottom /\ Top'.at = "handle"
  <2>1. SUFFICES ASSUME stack' # <<>> PROVE Len(stack) # 1 /\ Bottom' = Bottom /\ Top'.at = "handle"
    OBVIOUS
  <2>2. Top' = stack'[1] /\ Len(stack) # 1 /\ Bottom' = Bottom /\ 2 \in 2 .. Len(stack) /\ stack'[1] = stack[2]
    BY <1>3, <2>1, StackTypes DEF Top, Bottom
  <2>3. QED
    BY <1>2, <2>2 DEF Typed
<1>5. ~ At("store") /\ ~ At("store")'
  BY <1>1, <1>4 DEF At
<1>6. FilesOK' /\ StoreOK' /\ ShownOK'
  BY <1>1, <1>5, FilesStay, ShownStays DEF SettledInv
<1>7. OutcomeOK'
  BY <1>1, <1>2, <1>4 DEF SettledInv, OutcomeOK
<1>8. \A q \in Paths : (Settled(q) => Settled(q)') /\ (Stored(q) => Stored(q)')
  BY <1>1, KeptAlone
<1>9. target \in Paths /\ needs \in Graphs
  BY <1>2, Types DEF LintOK
<1>10. ASSUME stack' # <<>> PROVE DoneOK'
  <2>1. Bottom' = Bottom /\ Bottom.at = "handle" /\ \A q \in Paths : q = Bottom.cur => Stored(q)'
    BY <1>2, <1>4, <1>8, <1>10 DEF DoneOK
  <2>2. QED
    BY <1>1, <1>2, <1>8, <1>9, <2>1, DoneStays
<1>11. ASSUME stack' = <<>> PROVE \A q \in Cone(target)' : Settled(q)'
  <2>1. Bottom = Top
    BY <1>2, <1>3, <1>11
  <2>2. Cone(target)' = Cone(target) /\ Cone(target) \subseteq Paths
    BY <1>1, <1>9, ConeIsClosed DEF Cone
  <2>3. \A q \in Cone(target) : Settled(q)
    BY <1>1, <1>2, <2>1 DEF DoneOK
  <2>4. QED
    BY <1>8, <2>2, <2>3
<1>12. QED
  BY <1>6, <1>7, <1>10, <1>11 DEF SettledInv, Finished

LEMMA SettledInitially == Init => SettledInv
<1> SUFFICES ASSUME Init PROVE SettledInv
  OBVIOUS
<1>1. /\ disk = [p \in Paths |-> 1] /\ wrong \in SUBSET Paths /\ raced = {}
      /\ compiled = [p \in Paths |-> 0] /\ info = [p \in Paths |-> NothingYet] /\ stack = <<>>
      /\ target = None /\ errors = {} /\ outcome = "none"
  BY DEF Init
<1>2. FilesOK
  BY <1>1 DEF FilesOK, NothingYet
<1>3. StoreOK /\ ShownOK /\ OutcomeOK /\ ~ Finished
  BY <1>1 DEF StoreOK, At, ShownOK, Shown, OutcomeOK, Finished
<1>4. QED
  BY <1>1, <1>2, <1>3 DEF SettledInv

LEMMA SettledInvStays == FreshInv /\ SettledInv /\ GivesUpForAReason /\ [Next]_vars => SettledInv'
<1> SUFFICES ASSUME FreshInv, SettledInv, GivesUpForAReason, [Next]_vars PROVE SettledInv'
  OBVIOUS
<1>1. ASSUME NEW p \in Paths, Begin(p) PROVE SettledInv'
  BY <1>1, SettledBegin
<1>2. ASSUME NEW p \in Paths, Handle(p) PROVE SettledInv'
  BY <1>2, SettledHandle
<1>3. CASE Compile
  BY <1>3, SettledCompile
<1>4. CASE Store
  BY <1>4, SettledStore
<1>5. CASE UseCached
  BY <1>5, SettledCached
<1>6. CASE TryAgain
  BY <1>6, SettledAgain
<1>7. CASE GiveUp
  BY <1>7, SettledGiveUp
<1>8. CASE Return
  BY <1>8, SettledReturn
<1>9. ASSUME NEW p \in Paths, Edit(p) PROVE SettledInv'
  BY <1>9, SettledEdit
<1>10. ASSUME NEW p \in Paths, Lint(p) PROVE SettledInv'
  BY <1>10, SettledLint
<1>11. CASE UNCHANGED vars
  <2>1. UNCHANGED <<needs, disk, edits, wrong, edited, raced, compiled, obsolete, waits, info, stack,
                    target, errors, outcome>>
    BY <1>11 DEF vars, files, library, lint
  <2>2. /\ At("store")' = At("store") /\ Top' = Top /\ Bottom' = Bottom /\ Finished' = Finished
        /\ \A p : Cone(p)' = Cone(p) /\ Reach(p)' = Reach(p)
    BY <2>1 DEF At, Top, Bottom, Finished, Cone, Reach
  <2>3. \A p : Settled(p)' = Settled(p) /\ Stored(p)' = Stored(p)
    BY <2>1, <2>2 DEF Settled, Stored
  <2>4. FilesOK' /\ StoreOK'
    BY <2>1, <2>2 DEF SettledInv, FilesOK, StoreOK
  <2>5. ShownOK' /\ OutcomeOK'
    BY <2>1, <2>2, ShownStays DEF SettledInv, OutcomeOK
  <2>6. DoneOK' = DoneOK
    BY <2>1, <2>2, <2>3 DEF DoneOK
  <2>7. QED
    BY <2>1, <2>2, <2>3, <2>4, <2>5, <2>6 DEF SettledInv
<1>12. QED
  BY <1>1, <1>2, <1>3, <1>4, <1>5, <1>6, <1>7, <1>8, <1>9, <1>10, <1>11 DEF Next, Step

-----------------------------------------------------------------------------
(* Types; what is obsolete has been compiled, and no build is tried more   *)
(* than _MAX_REBUILD_ATTEMPTS times (core.py:427-450).                     *)
THEOREM TypeCorrect == Spec => []TypeOK
<1>1. FreshInv => TypeOK
  BY DEF FreshInv, Typed
<1>2. QED
  BY <1>1, FreshInvInitially, FreshInvStays, PTL DEF Spec

(* When a finished lint came out clean nothing that its target was         *)
(* compiled against was obsolete, or is so by the end of the lint          *)
(* (core.py:410-418), whatever was rebuilt on the way, edited meanwhile or *)
(* given up.                                                               *)
THEOREM CleanIsFresh == Spec => []CleanMeansFresh
<1>1. FreshInv => CleanMeansFresh
  BY DEF FreshInv, CleanMeansFresh, Fresh, Reach
<1>2. QED
  BY <1>1, FreshInvInitially, FreshInvStays, PTL DEF Spec

(* A finished lint leaves no dependency of the target behind that was not  *)
(* edited meanwhile: the libraries hold its latest text, or an error has   *)
(* been yielded of it or of something that it needs (core.py:391-418,      *)
(* base_builder.py:423-451). That GivesUpForAReason is assumed of the      *)
(* whole behaviour, as it depends on the number of attempts.               *)
THEOREM NothingIsMissed == Spec /\ []GivesUpForAReason => []NothingIsLeftBehind
<1>1. FreshInv /\ SettledInv => NothingIsLeftBehind
  <2> SUFFICES ASSUME FreshInv, SettledInv, Finished, NEW p \in Cone(target)
               PROVE  compiled[p] = disk[p] \/ (Cone(p) \cup {p}) \cap (errors \cup edited \cup raced) # {}
    BY DEF NothingIsLeftBehind
  <2>1. Settled(p)
    BY DEF SettledInv
  <2>2. QED
    BY <2>1 DEF Settled, Reach
<1>2. QED
  BY <1>1, FreshInvInitially, FreshInvStays, SettledInitially, SettledInvStays, PTL DEF Spec

(* Unless something was edited meanwhile, each error that a lint yields    *)
(* leads to a text that is wrong, of which an error is yielded too         *)
(* (core.py:434-450, base_builder.py:443-444): nobody gets to see what     *)
(* hints put right, nor that a unit is missing without the reason.         *)
THEOREM ErrorsLeadToTheText == Spec /\ []GivesUpForAReason => []ErrorsAreReal
<1>1. SettledInv => ErrorsAreReal
  BY DEF SettledInv, ShownOK, ErrorsAreReal, Reach
<1>2. QED
  BY <1>1, FreshInvInitially, FreshInvStays, SettledInitially, SettledInvStays, PTL DEF Spec
=============================================================================
