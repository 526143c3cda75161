----------------------------- MODULE SourceText -----------------------------
(***************************************************************************)
(* What the regular expressions of the parsers find in a source: design    *)
(* units, dependencies, and where they are; and which of them the language *)
(* server takes to be under the cursor.                                    *)
(*                                                                         *)
(* A text is a type and a sequence of lines with one construct each:       *)
(*   kind     what it is, "mention" for any other text;                    *)
(*   names    the identifiers it declares or mentions, as spelled: a word  *)
(*            and whether it is written in capitals;                       *)
(*   library  the identifier before the dot, None without one;             *)
(*   at       the column of the construct (for a class, of the blanks      *)
(*            before it) or, for a unit, the column after the keyword;     *)
(*   gap      the blanks after the keyword;                                *)
(*   where    "code", "comment", or "freed" for the part of a comment that *)
(*            follows one of the characters ( ? : | );                     *)
(*   closed   the statement has its semicolon.                             *)
(***************************************************************************)
EXTENDS Naturals, Sequences, FiniteSets, SequencesExt

CONSTANTS
  LengthOf,   (* the length of each word                                    *)
  Work,       (* the word work                                              *)
  Std,        (* the word std                                               *)
  None

Words == DOMAIN LengthOf
Languages == {"vhdl", "verilog", "systemverilog"}

ASSUME SourceTextAssumption ==
  /\ LengthOf \in [Words -> Nat \ {0}] /\ {Work, Std} \subseteq Words /\ None \notin Words

-----------------------------------------------------------------------------
(* VhdlIdentifier and VerilogIdentifier. *)
Identifier(spelled, language) ==
  [word |-> spelled.word, caps |-> spelled.caps, case_sensitive |-> language # "vhdl"]

SameName(one, other) ==
  /\ one.word = other.word
  /\ one.case_sensitive /\ other.case_sensitive => one.caps = other.caps

(* The patterns of the VHDL parser skip comments.  The Verilog pattern for *)
(* a line comment is a negated class of characters that it was meant to    *)
(* end at: what follows one of them is read as code.                       *)
Scanned(text, i) ==
  text.lines[i].where \in IF text.type = "vhdl" THEN {"code"} ELSE {"code", "freed"}

Lines(text, kinds) == {i \in DOMAIN text.lines : Scanned(text, i) /\ text.lines[i].kind \in kinds}

(* A library clause without its semicolon takes the words of the next line *)
(* for names of libraries.                                                 *)
Swallowed(text, i) ==
  /\ text.type = "vhdl" /\ i > 1 /\ i - 1 \in Lines(text, {"library"})
  /\ ~ text.lines[i - 1].closed

(* The name must have two characters in Verilog. *)
Readable(text, spelled) == text.type = "vhdl" \/ LengthOf[spelled.word] > 1

TypeOfUnit(kind) == IF kind = "module" THEN "entity" ELSE kind

UnitKinds(text) ==
  IF text.type = "vhdl" THEN {"package", "entity", "context"} ELSE {"module", "package"}

(* Slip: the column is counted from the start of the text's first line. *)
UnitLocationFromBreak(text, i) == [line |-> i - 1, column |-> text.lines[i].at]

(* The match begins after the keyword; the line break before a line counts *)
(* as one of its columns.                                                  *)
UnitLocation(text, i) ==
  [line |-> i - 1, column |-> IF i = 1 THEN text.lines[i].at ELSE text.lines[i].at + 1]

(* _getDesignUnits *)
UnitsOf(text) ==
  {[type |-> TypeOfUnit(text.lines[i].kind),
    name |-> Identifier(text.lines[i].names[1], text.type),
    locations |-> {UnitLocation(text, i)}] :
     i \in {i \in Lines(text, UnitKinds(text)) :
              ~ Swallowed(text, i) /\ Readable(text, text.lines[i].names[1])}}

-----------------------------------------------------------------------------
LibrariesOf(text) ==
  {Work} \cup UNION {{spelled.word : spelled \in Range(text.lines[i].names)} :
                       i \in {i \in Lines(text, {"library"}) : text.lines[i].closed}}

StartOf(text, i) == [line |-> i - 1, column |-> text.lines[i].at]

Required(library, name, locations) ==
  [kind |-> "unit", library |-> library, name |-> name, locations |-> locations]

(* The uses of a library's units are merged by library and lower case      *)
(* name, and the first spelling counts; a name of one letter is not seen.  *)
VhdlUses(text) ==
  LET uses == {i \in Lines(text, {"use"}) :
                 /\ text.lines[i].library.word \in LibrariesOf(text)
                 /\ LengthOf[text.lines[i].names[1].word] > 1}
      Key(i) == <<text.lines[i].library.word, text.lines[i].names[1].word>>
      First(key) == CHOOSE i \in uses : Key(i) = key /\ \A j \in uses : Key(j) = key => i <= j
      Library(i) == IF text.lines[i].library.word = Work THEN None
                    ELSE Identifier(text.lines[i].library, "vhdl")
  IN  {Required(Library(First(key)), Identifier(text.lines[First(key)].names[1], "vhdl"),
                {StartOf(text, i) : i \in {i \in uses : Key(i) = key}})
         : key \in {Key(i) : i \in uses}}

(* A package body depends on its package; it is found where it says        *)
(* package, not where it says the name.                                    *)
VhdlDependencies(text) ==
  VhdlUses(text)
  \cup {Required(None, Identifier(text.lines[i].names[1], "vhdl"), {StartOf(text, i)}) :
          i \in Lines(text, {"package body"})}

(* Packages and classes are read in SystemVerilog only, and a class that   *)
(* is declared is taken to be required.                                    *)
VerilogDependencies(text) ==
  {[kind |-> "include", library |-> None, name |-> Identifier(text.lines[i].names[1], text.type),
    locations |-> {StartOf(text, i)}] : i \in Lines(text, {"include"})}
  \cup {Required(None, Identifier(text.lines[i].names[1], text.type), {StartOf(text, i)}) :
          i \in {i \in Lines(text, {"scope", "class"}) :
                   /\ text.type = "systemverilog"
                   /\ text.lines[i].kind = "scope" => text.lines[i].names[1].word # Std
                   /\ Readable(text, text.lines[i].names[1])}}

DependenciesOf(text) ==
  IF text.type = "vhdl" THEN VhdlDependencies(text) ELSE VerilogDependencies(text)

-----------------------------------------------------------------------------
(* len(element) *)
UnitLength(unit) == LengthOf[unit.name.word]

DependencyLength(dependency) ==
  LengthOf[dependency.name.word]
  + IF dependency.library = None THEN 0 ELSE LengthOf[dependency.library.word] + 1

(* ParsedElement.includes *)
Includes(locations, length, position) ==
  \E location \in locations :
    /\ location.line = position.line
    /\ location.column <= position.column /\ position.column < location.column + length

(* getElementAtPosition: any of the units there are at a position, and a   *)
(* dependency when there is none.                                          *)
ElementsAt(text, position) ==
  LET units == {u \in UnitsOf(text) : Includes(u.locations, UnitLength(u), position)}
  IN  IF units # {} THEN units
      ELSE {d \in DependenciesOf(text) : Includes(d.locations, DependencyLength(d), position)}
=============================================================================
