---------------------------- MODULE StaticCheck ----------------------------
(***************************************************************************)
(* The checks that need no compiler: objects that are declared and never   *)
(* mentioned again, comments that begin with TODO, FIXME or XXX, and a     *)
(* library clause for work.                                                *)
(*                                                                         *)
(* Every file is read as VHDL, whatever its type.  Lines have a further    *)
(* field, lower: the line has no capitals where _SHOULD_END_SCAN looks.    *)
(***************************************************************************)
EXTENDS SourceText

Areas == {"none", "entity", "architecture", "package", "package body"}

(* The kinds of lines that declare objects in each area; "type x :" is not *)
(* VHDL.                                                                   *)
DeclaredIn(area) ==
  CASE area = "none" -> {"library", "attribute"}
    [] area = "entity" -> {"port", "generic"}
    [] area = "architecture" -> {"constant", "signal", "shared variable"}
    [] OTHER -> {}

Stripped(line) == line.where # "code"

(* The area at a line: that of the last line that begins one. *)
AreaAt(text, i) ==
  LET begins == {j \in 1..i : ~ Stripped(text.lines[j]) /\ text.lines[j].kind \in Areas \ {"none"}}
  IN  IF begins = {} THEN "none"
      ELSE text.lines[CHOOSE j \in begins : \A k \in begins : k <= j].kind

(* The line after which the scan ends. *)
EndsScan(line) ==
  ~ Stripped(line) /\ line.lower
  /\ line.kind \in {"generic map", "port map", "generate", "instance", "process"}

ScannedLines(text) ==
  {i \in DOMAIN text.lines : ~ \E j \in 1..(i - 1) : EndsScan(text.lines[j])}

(* _getObjectsFromText: the first declaration of each spelling. *)
Objects(text) ==
  LET declaring == {i \in ScannedLines(text) : /\ ~ Stripped(text.lines[i])
                                               /\ text.lines[i].kind \in DeclaredIn(AreaAt(text, i))}
      declared  == UNION {{i} \X DOMAIN text.lines[i].names : i \in declaring}
      Name(o) == text.lines[o[1]].names[o[2]]
      Before(o, other) == o[1] < other[1] \/ (o[1] = other[1] /\ o[2] < other[2])
  IN  {[name |-> Name(o), kind |-> text.lines[o[1]].kind, line |-> o[1] - 1,
        column |-> text.lines[o[1]].at]
         : o \in {o \in declared : ~ \E other \in declared : Before(other, o) /\ Name(other) = Name(o)}}

(* How often a word is on the lines of the text, comments aside. *)
Mentions(text, word) ==
  LET OnLine(line) ==
        IF Stripped(line) THEN 0
        ELSE Cardinality({n \in DOMAIN line.names : line.names[n].word = word})
             + IF line.library # None /\ line.library.word = word THEN 1 ELSE 0
  IN  FoldLeft(LAMBDA sum, line : sum + OnLine(line), 0, text.lines)

StaticDiag(what, about, severity, line, column) ==
  [checker |-> "static", filename |-> None, what |-> what, about |-> about, names |-> None,
   code |-> None, severity |-> severity, line |-> line, column |-> column]

(* Upper and lower case are different names of one object. *)
UnusedObjects(text) ==
  {StaticDiag("is never used", o.name.word, "style warning", o.line, o.column) :
     o \in {o \in Objects(text) : Mentions(text, o.name.word) = 1}}

CommentTags(text) ==
  {StaticDiag("tag", None, "style info", i - 1, text.lines[i].at) :
     i \in {i \in DOMAIN text.lines : text.lines[i].kind = "tag"}}

MiscChecks(text) ==
  {StaticDiag("can be omitted", o.name.word, "style info", o.line, o.column) :
     o \in {o \in Objects(text) : o.kind = "library" /\ o.name = [word |-> Work, caps |-> FALSE]}}

StaticMessages(text) == UnusedObjects(text) \cup CommentTags(text) \cup MiscChecks(text)
=============================================================================
