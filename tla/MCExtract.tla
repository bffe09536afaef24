----------------------------- MODULE MCExtract -----------------------------
(* Archives of files of zero to three cells, a directory and a long name,   *)
(* plain, compressed, appended to a program and one in another, with and    *)
(* without a telling extension.                                             *)
EXTENDS Extract, StreamIO

File(name, from, size) ==
  [name |-> name, type |-> "file", data |-> [i \in 1 .. size |-> Data(from + i)],
   long |-> FALSE]
Long(m) == [m EXCEPT !.long = TRUE]
Dir(name) == [name |-> name, type |-> "dir", data |-> <<>>, long |-> FALSE]
Archived(name, cells) == [name |-> name, type |-> "file", data |-> cells, long |-> FALSE]

Padded(s) == s \o [i \in 1 .. Rounded(Len(s)) - Len(s) |-> Cell("pad")]
Header(name, type, size) ==
  <<[Cell("head") EXCEPT !.name = name, !.type = type, !.size = size], Cell("rest")>>
LongName(name) ==
  Header("", "long", 1) \o Padded(<<[Cell("name") EXCEPT !.name = name]>>)
TarMember(m) ==
  (IF m.long THEN LongName(m.name) ELSE <<>>)
    \o Header(IF m.long THEN "cut" ELSE m.name, m.type, Len(m.data)) \o Padded(m.data)
Zeros == <<Cell("zero"), Cell("zero"), Cell("zero"), Cell("zero")>>
Tar(ms) == FlattenSeq([i \in 1 .. Len(ms) |-> TarMember(ms[i])]) \o Zeros

Entries(ms) ==
  [i \in 1 .. Len(ms) |->
     [Cell("entry") EXCEPT !.name = ms[i].name, !.type = ms[i].type,
                           !.size = Len(ms[i].data)]]
Pck(ms) ==
  <<[Cell("pck") EXCEPT !.size = 1 + Len(ms)]>> \o Entries(ms)
    \o FlattenSeq([i \in 1 .. Len(ms) |-> ms[i].data])
Pkg(ms) ==
  <<Cell("pkg")>>
    \o FlattenSeq([i \in 1 .. Len(ms) |-> <<Entries(ms)[i]>> \o ms[i].data])

Packed(how, content) == <<[Cell(how) EXCEPT !.of = content], Cell("rest"), Cell("rest")>>
Appended(cells) == <<Cell("code"), Cell("code")>> \o cells \o <<Cell("MOJOBASE")>>

Members == <<File("a", 0, 3), Dir("d"), Long(File("d/b", 10, 2)), File("e", 20, 0),
             File("f", 30, 1)>>
Files == <<File("e", 20, 0), File("a", 0, 3), File("f", 30, 1)>>
All == [names |-> {"a", "d", "d/b", "e", "f"}, single |-> FALSE]
JustF == [names |-> {"f"}, single |-> TRUE]
SomeFiles == [names |-> {"a", "d"}, single |-> FALSE]
Twice == <<All, JustF, SomeFiles>>
Once == <<All>>

Outer(in) == Tar(<<File("x", 40, 1), Archived("in.tar", in), File("y", 50, 2)>>)

\* Two tar archives, one after the other.
CatenatedMembers == <<File("a", 0, 3), File("f", 30, 3)>>

\* An archive that was appended to: it has one file twice.
RepeatedMembers == <<File("a", 0, 3), File("f", 30, 1), File("a", 0, 3)>>
JustA == [names |-> {"a"}, single |-> TRUE]

Contents ==
  [tar          |-> Tar(Members),
   tar_bz2      |-> Packed("bz2", "tar"),
   tar_xz       |-> Packed("xz", "tar"),
   tar_gz       |-> Packed("gz", "tar"),
   appended     |-> Appended(Tar(Members)),
   appended_xz  |-> Appended(Packed("xz", "tar")),
   outer        |-> Outer(Tar(Members)),
   outer_bz2    |-> Outer(Packed("bz2", "tar")),
   outer_gz     |-> Outer(Packed("gz", "tar")),
   outer_xz     |-> Packed("xz", "outer"),
   outer_bz2_xz |-> Packed("xz", "outer_bz2"),
   repeated     |-> Tar(RepeatedMembers),
   pck          |-> Pck(Files),
   pkg          |-> Pkg(Files),
   two_tars     |-> Tar(<<CatenatedMembers[1]>>) \o Tar(<<CatenatedMembers[2]>>)]

TarDisks ==
  {Disk(known, file, 0, <<>>, Members, Twice) :
     known \in {"tar", ""}, file \in {"tar", "tar_bz2", "tar_xz", "tar_gz"}}
    \cup {Disk("", file, 2, <<>>, Members, Twice) : file \in {"appended", "appended_xz"}}
NestedDisks ==
  {Disk("tar", file, 0, <<"in.tar">>, Members, <<All, SomeFiles>>) :
     file \in {"outer", "outer_bz2", "outer_gz", "outer_xz", "outer_bz2_xz"}}
OtherDisks ==
  {Disk(known, "pkg", 0, <<>>, Files, Twice) : known \in {"pkg", ""}}
    \cup {Disk(known, "pck", 0, <<>>, Files, passes) :
            known \in {"pck", ""}, passes \in {Once, <<All, JustF>>}}

RepeatedDisks == {Disk("tar", "repeated", 0, <<>>, RepeatedMembers, <<JustA, JustF>>)}

AllDisks == TarDisks \cup NestedDisks \cup OtherDisks \cup RepeatedDisks
EachRead == 0 .. 40

CatenatedDisks == {Disk("tar", "two_tars", 0, <<>>, CatenatedMembers, Once)}
NoFail == {0}
=============================================================================
