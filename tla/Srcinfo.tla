------------------------------ MODULE Srcinfo ------------------------------
(***************************************************************************)
(* parse_srcinfo: one pass over the lines of a .SRCINFO document fills the *)
(* fields of the package base and of one block per pkgname; when the text  *)
(* ends, architectures are checked and the blocks are projected on the     *)
(* packages the snapshot will hold.  A document with a fatal diagnostic    *)
(* gives no package at all.                                                *)
(*                                                                         *)
(* A line is its key, the suffix of the key and its value; fields hold the *)
(* numbers of the lines whose values they hold.                            *)
(***************************************************************************)
EXTENDS Integers, Sequences, FiniteSets, SequencesExt

CONSTANTS
  Lines(_),  \* the lines a document may go on with after what was read
  MaxLines   \* bound: lines of a document

ASSUME SrcinfoAssumption == MaxLines \in Nat

\* What is no field: a line without '=' and one without a key, by their diagnostic.
Broken == {"malformed_line", "empty_key"}

Scalars == {"pkgdesc", "url", "epoch", "pkgver", "pkgrel"}
Lists == {"arch", "license", "groups"}
Inherited == {"depends", "optdepends", "provides", "conflicts", "replaces"}
ArchFields == Inherited \cup {"makedepends", "checkdepends"}

Projected == Scalars \cup Lists \cup ArchFields
AllowedInPackage ==
  {"pkgdesc", "url", "install", "changelog", "options", "backup"} \cup Lists \cup Inherited
ArchitectureCapable == ArchFields \cup {"options", "source", "checksum"}
Known == Projected \cup AllowedInPackage \cup ArchitectureCapable
           \cup {"noextract", "validpgpkeys"}

\* A suffix makes a key unknown unless its field may differ between architectures.
ParseKey(l) ==
  IF l.key \in Known /\ (l.arch = "" \/ l.key \in ArchitectureCapable)
    THEN l.key ELSE "unknown"

VARIABLES
  doc,         \* the lines read so far
  pkgbase,     \* the number of the pkgbase line, 0 before it
  base,        \* base_fields
  blocks,      \* the packages: the number of the pkgname line, and fields
  ignored,     \* suffixes of fields that are not projected, with their block or 0
  diagnostics,
  packages,
  done

parseVars == <<doc, pkgbase, base, blocks, ignored, diagnostics, packages, done>>

NoFields == [k \in Projected |-> << >>]

ParseInit ==
  /\ doc = << >> /\ pkgbase = 0 /\ base = NoFields /\ blocks = << >>
  /\ ignored = {} /\ diagnostics = {} /\ packages = << >> /\ done = FALSE

-----------------------------------------------------------------------------
(* Lines *)

Number == Len(doc) + 1

Diagnostic(severity, code, line) == [severity |-> severity, code |-> code, line |-> line]
Report(severity, code) ==
  diagnostics' = diagnostics \cup {Diagnostic(severity, code, Number)}

\* The next line; end of text may come after any.
Take(l) ==
  /\ ~done /\ Len(doc) < MaxLines
  /\ doc' = Append(doc, l)
  /\ UNCHANGED <<packages, done>>

MalformedLine(l) ==
  /\ Take(l) /\ l.key \in Broken
  /\ Report("fatal", l.key)
  /\ UNCHANGED <<pkgbase, base, blocks, ignored>>

Pkgbase(l) ==
  /\ Take(l) /\ l.key = "pkgbase"
  /\ \/ /\ pkgbase # 0
        /\ Report("fatal", "duplicate_pkgbase")
        /\ UNCHANGED pkgbase
     \/ /\ pkgbase = 0
        /\ pkgbase' = Number
        /\ IF l.value = "" THEN Report("fatal", "empty_pkgbase") ELSE UNCHANGED diagnostics
  /\ UNCHANGED <<base, blocks, ignored>>

BeforePkgbase(l) ==
  /\ Take(l) /\ l.key \notin Broken \cup {"pkgbase"} /\ pkgbase = 0
  /\ Report("fatal", "field_before_pkgbase")
  /\ UNCHANGED <<pkgbase, base, blocks, ignored>>

Field(l) == l.key \notin Broken \cup {"pkgbase", "pkgname"} /\ pkgbase # 0

\* A name that is empty or taken is reported, and begins a block like any other.
Pkgname(l) ==
  /\ Take(l) /\ l.key = "pkgname" /\ pkgbase # 0
  /\ LET taken == \E i \in DOMAIN blocks : doc[blocks[i].line].value = l.value
     IN \/ l.value = "" /\ Report("fatal", "empty_pkgname")
        \/ l.value # "" /\ taken /\ Report("fatal", "duplicate_pkgname")
        \/ l.value # "" /\ ~taken /\ UNCHANGED diagnostics
  /\ blocks' = Append(blocks, [line |-> Number, fields |-> NoFields])
  /\ UNCHANGED <<pkgbase, base, ignored>>

UnknownField(l) ==
  /\ Take(l) /\ Field(l) /\ ParseKey(l) = "unknown"
  /\ Report("fatal", "unknown_field")
  /\ UNCHANGED <<pkgbase, base, blocks, ignored>>

InPackage == blocks # << >>

\* A field of the base only, below a pkgname: fatal when it would be published.
NotInPackage(l) ==
  /\ Take(l) /\ Field(l) /\ ParseKey(l) # "unknown"
  /\ InPackage /\ l.key \notin AllowedInPackage
  /\ IF l.key \in Projected
       THEN Report("fatal", "field_not_allowed_in_package")
       ELSE Report("warning", "ignored_package_field")
  /\ UNCHANGED <<pkgbase, base, blocks, ignored>>

Allowed(l) == ParseKey(l) # "unknown" /\ (InPackage => l.key \in AllowedInPackage)

\* Of a field that is not projected only the suffix is kept, for a warning.
Ignore(l) ==
  /\ Take(l) /\ Field(l) /\ Allowed(l) /\ l.key \notin Projected
  /\ ignored' = IF l.arch = "" THEN ignored
                ELSE ignored \cup {[arch |-> l.arch, line |-> Number, block |-> Len(blocks)]}
  /\ UNCHANGED <<pkgbase, base, blocks, diagnostics>>

-----------------------------------------------------------------------------
(* Fields: each is a sequence of dimensions, one per suffix; a field without *)
(* suffixes has one dimension once a line gave it, whatever its value        *)

Value(l) == IF l.value = "" THEN << >> ELSE <<Number>>

Dimension(l) == [arch |-> l.arch, values |-> Value(l), line |-> Number]

AppendArch(field, l) ==
  IF \E i \in DOMAIN field : field[i].arch = l.arch
    THEN [i \in DOMAIN field |->
            IF field[i].arch = l.arch
              THEN [field[i] EXCEPT !.values = @ \o Value(l)] ELSE field[i]]
    ELSE Append(field, Dimension(l))

Assigned(fields, l) ==
  [fields EXCEPT ![l.key] = IF l.key \in Scalars THEN <<Dimension(l)>> ELSE AppendArch(@, l)]

Current == IF InPackage THEN Last(blocks).fields ELSE base

BugAssign(l) ==
  /\ Take(l) /\ Field(l) /\ Allowed(l) /\ l.key \in Projected
  /\ IF InPackage
       THEN /\ blocks' = [blocks EXCEPT ![Len(blocks)].fields = Assigned(@, l)]
            /\ UNCHANGED base
       ELSE base' = Assigned(base, l) /\ UNCHANGED blocks
  /\ UNCHANGED <<pkgbase, ignored, diagnostics>>
\* assign_projected_field; the second value of a scalar is fatal, and replaces the first.
Assign(l) ==
  /\ Take(l) /\ Field(l) /\ Allowed(l) /\ l.key \in Projected
  /\ IF l.key \in Scalars /\ Current[l.key] # << >>
       THEN Report("fatal", "duplicate_scalar") ELSE UNCHANGED diagnostics
  /\ IF InPackage
       THEN /\ blocks' = [blocks EXCEPT ![Len(blocks)].fields = Assigned(@, l)]
            /\ UNCHANGED base
       ELSE base' = Assigned(base, l) /\ UNCHANGED blocks
  /\ UNCHANGED <<pkgbase, ignored>>

-----------------------------------------------------------------------------
(* The end of the text *)

Flatten(field) == FlattenSeq([i \in DOMAIN field |-> field[i].values])

\* A package without an arch of its own has those of the base; 0 is the base.
Arches(b) ==
  Flatten(IF b # 0 /\ blocks[b].fields["arch"] # << >>
            THEN blocks[b].fields["arch"] ELSE base["arch"])

Supports(b, arch) == \E i \in Range(Arches(b)) : doc[i].value = arch

Suffix(severity, arch, b, line) ==
  IF arch = "any" THEN {Diagnostic(severity, "invalid_arch_any", line)}
  ELSE IF arch # "" /\ ~Supports(b, arch)
    THEN {Diagnostic(severity, "unsupported_arch", line)}
    ELSE {}

ValidateCoreArches(b) ==
  LET fields == IF b = 0 THEN base ELSE blocks[b].fields
  IN UNION {Suffix("fatal", d.arch, b, d.line) :
              d \in UNION {Range(fields[k]) : k \in ArchFields}}

IgnoredSuffixes == UNION {Suffix("warning", u.arch, u.block, u.line) : u \in ignored}

Missing ==
  {Diagnostic("fatal", "missing_" \o k, 0) :
     k \in {k \in {"pkgver", "pkgrel", "arch"} : Flatten(base[k]) = << >>}}
  \cup (IF pkgbase = 0 THEN {Diagnostic("fatal", "missing_pkgbase", 0)} ELSE {})
  \cup (IF blocks = << >> THEN {Diagnostic("fatal", "missing_pkgname", 0)} ELSE {})
  \cup {Diagnostic("fatal", "missing_arch", blocks[b].line) :
          b \in {b \in DOMAIN blocks : Arches(b) = << >>
                                       /\ blocks[b].fields["arch"] # << >>}}

BugMergeArch(inherited, local) == IF local # << >> THEN Flatten(local) ELSE Flatten(inherited)
\* The package's dimensions, and those of the base it does not have.
MergeArch(inherited, local) ==
  LET Overrides(d) == \E i \in DOMAIN local : local[i].arch = d.arch
  IN Flatten(local)
       \o FlattenSeq([i \in DOMAIN inherited |->
                        IF Overrides(inherited[i]) THEN << >> ELSE inherited[i].values])

\* An epoch of zero is none.
MakeVersion ==
  SelectSeq(Flatten(base["epoch"]), LAMBDA i : doc[i].value # "0")
    \o Flatten(base["pkgver"]) \o Flatten(base["pkgrel"])

PackageOf(block) ==
  [name |-> block.line,
   version |-> MakeVersion,
   fields |-> [k \in Projected \ {"epoch", "pkgver", "pkgrel", "arch"} |->
     IF k \in Inherited THEN MergeArch(base[k], block.fields[k])
     ELSE IF k \notin ArchFields /\ block.fields[k] # << >> THEN Flatten(block.fields[k])
     ELSE Flatten(base[k])]]

HasFatal == \E d \in diagnostics : d.severity = "fatal"

BugFinish ==
  /\ ~done /\ done' = TRUE
  /\ diagnostics' = diagnostics \cup Missing \cup IgnoredSuffixes
       \cup UNION {ValidateCoreArches(b) : b \in 1..Len(blocks)}
  /\ packages' = IF HasFatal' THEN << >> ELSE [i \in DOMAIN blocks |-> PackageOf(blocks[i])]
  /\ UNCHANGED <<doc, pkgbase, base, blocks, ignored>>
Finish ==
  /\ ~done /\ done' = TRUE
  /\ diagnostics' = diagnostics \cup Missing \cup IgnoredSuffixes
       \cup UNION {ValidateCoreArches(b) : b \in 0..Len(blocks)}
  /\ packages' = IF HasFatal' THEN << >> ELSE [i \in DOMAIN blocks |-> PackageOf(blocks[i])]
  /\ UNCHANGED <<doc, pkgbase, base, blocks, ignored>>

ParseNext ==
  \/ \E l \in Lines(doc) :
       \/ MalformedLine(l) \/ Pkgbase(l) \/ BeforePkgbase(l) \/ Pkgname(l)
       \/ UnknownField(l) \/ NotInPackage(l) \/ Ignore(l) \/ Assign(l)
  \/ Finish

ParseSpec == ParseInit /\ [][ParseNext]_parseVars

-----------------------------------------------------------------------------
(* What a document says, from its text alone *)

Has(i, k) == doc[i].key = k

\* The section a line stands in: 0 for the base, or the number of its package.
Names == {i \in DOMAIN doc : Has(i, "pkgname") /\ \E j \in 1..i : Has(j, "pkgbase")}
Section(i) == Cardinality(Names \cap 1..i)
LinesOf(s, k) == {i \in DOMAIN doc : Has(i, k) /\ Section(i) = s}
Filled(I) == {i \in I : doc[i].value # ""}

ArchLines(s) == IF LinesOf(s, "arch") # {} THEN LinesOf(s, "arch") ELSE LinesOf(0, "arch")

\* The conditions a document must meet, none of which depends on the order of the
\* lines of a section.
Correct ==
  /\ doc # << >>
  /\ \A i \in DOMAIN doc : Has(i, "pkgbase") <=> i = 1
  /\ doc[1].value # "" /\ Names # {} /\ Filled(Names) = Names
  /\ \A i, j \in Names : doc[i].value = doc[j].value => i = j
  /\ \A i \in DOMAIN doc : ParseKey(doc[i]) # "unknown" \/ doc[i].key \in {"pkgbase", "pkgname"}
  /\ \A s \in 0..Cardinality(Names) :
       /\ \A k \in Scalars : Cardinality(LinesOf(s, k)) <= 1
       /\ s # 0 => \A k \in Projected \ AllowedInPackage : LinesOf(s, k) = {}
       /\ Filled(ArchLines(s)) # {}
       /\ \A k \in ArchFields : \A i \in LinesOf(s, k) :
            doc[i].arch # "" =>
              doc[i].arch \in {doc[j].value : j \in Filled(ArchLines(s))} \ {"any"}
  /\ Filled(LinesOf(0, "pkgver")) # {} /\ Filled(LinesOf(0, "pkgrel")) # {}

\* The lines a package has field k from: its own, and those of the base for a suffix
\* it has no line with.
Stated(s, k) ==
  Filled(LinesOf(s, k) \cup
         {i \in LinesOf(0, k) : \A j \in LinesOf(s, k) : doc[j].arch # doc[i].arch})

-----------------------------------------------------------------------------
(* Properties *)

\* A document gives packages if and only if it meets the conditions, whatever the order
\* in which its lines are read: a suffix may come before the arch that allows it, and
\* one bad line in one package keeps the whole base out (srcinfo.cpp:638-693).
AcceptsExactly ==
  done => /\ packages # << >> <=> Correct
          /\ Correct => Len(packages) = Cardinality(Names)

\* A package has the values its own section states, and for each suffix without a
\* line of its own those of the base, each once; its own come first, and values of one
\* suffix stay in the order of the text (srcinfo.cpp:404-428, 696-724).
StatesItsOwn ==
  \A s \in DOMAIN packages : \A k \in DOMAIN packages[s].fields :
    LET v == packages[s].fields[k]
    IN /\ Range(v) = Stated(s, k) /\ Len(v) = Cardinality(Stated(s, k))
       /\ \A j \in DOMAIN v : \A i \in 1..j-1 :
            /\ Section(v[j]) # 0 => Section(v[i]) # 0
            /\ Section(v[i]) = Section(v[j]) /\ doc[v[i]].arch = doc[v[j]].arch => v[i] < v[j]

\* Of the lines read none is lost: each is a name, is held by the fields of the section
\* it stands in, is of a field that is not published, or is reported; a scalar that was
\* replaced is reported at a line after it (srcinfo.cpp:534-635).
NothingLost ==
  \A i \in DOMAIN doc :
    LET s == Section(i)
        fields == IF s = 0 THEN base ELSE blocks[s].fields
    IN \/ i = pkgbase
       \/ s # 0 /\ blocks[s].line = i
       \/ \E k \in Projected : \E d \in Range(fields[k]) :
            /\ Has(i, k) /\ d.arch = doc[i].arch
            /\ doc[i].value # "" => i \in Range(d.values)
       \/ ParseKey(doc[i]) \in Known \ Projected
       \/ \E d \in diagnostics :
            \/ d.line = i
            \/ d.line > i /\ Has(d.line, doc[i].key) /\ doc[i].key \in Scalars
=============================================================================
