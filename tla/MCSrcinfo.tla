----------------------------- MODULE MCSrcinfo -----------------------------
(* Documents for Srcinfo: well begun ones, and ones that may begin anyhow. *)
EXTENDS Srcinfo

Line(key, value) == [key |-> key, arch |-> "", value |-> value]
For(key, arch, value) == [key |-> key, arch |-> arch, value |-> value]

MCOpening ==
  <<Line("pkgbase", "b"), Line("pkgver", "1"), Line("epoch", "0"), Line("pkgrel", "1"),
    Line("arch", "x"), Line("pkgdesc", "of the base"), For("makedepends", "x", "m")>>

Continuing ==
  {Line("pkgname", "p"), Line("pkgname", "q"), Line("arch", "y"), Line("arch", ""),
   Line("depends", "d"), For("depends", "x", "d"), For("depends", "y", "d"),
   For("depends", "x", ""), For("optdepends", "any", "d"), For("makedepends", "x", "m"),
   Line("pkgdesc", "d"), For("options", "y", "o")}

AnyLines ==
  {Line("pkgbase", "b"), Line("pkgbase", ""), Line("pkgname", "p"), Line("pkgname", ""),
   Line("pkgver", "1"), Line("pkgver", ""), Line("pkgrel", "1"), Line("arch", "x"),
   For("license", "x", "l"), Line("malformed_line", "")}
MCMaxLines == Len(MCOpening) + 5

\* Documents of five lines of any kind, and documents of the opening and five more lines.
MCLines(read) ==
  (IF Len(read) < Len(MCOpening) /\ IsPrefix(read, MCOpening)
     THEN {MCOpening[Len(read) + 1]} ELSE {})
  \cup (IF IsPrefix(MCOpening, read) THEN Continuing ELSE {})
  \cup (IF Len(read) < 5 THEN AnyLines ELSE {})
=============================================================================
