--------------------------- MODULE ReleaseDownloadMC ---------------------------
(* Small instances of ReleaseDownload.                                       *)
EXTENDS ReleaseDownload

Name(absolute, parts) == [absolute |-> absolute, parts |-> parts]

\* The binary at the top, reached through a directory and back, in a directory
\* of its own name, in one with dots inside, and outside in three ways.
MCRawNames ==
    { Name(FALSE, <<"tool">>), Name(FALSE, <<"x", "..", "tool">>),
      Name(FALSE, <<"tool", "tool">>), Name(FALSE, <<"a..b", "tool">>),
      Name(FALSE, <<".">>), Name(TRUE, <<"tool">>),
      Name(FALSE, <<"..", "..", "tool">>), Name(FALSE, <<"x", "..", "..", "tool">>) }

Asset(words, ending) == [words |-> words, suffix |-> ending]
Platform == {"os", "arch"}
Sumfile == Asset({"checksums"}, "other")
Tarball == Asset(Platform, "tar")
Plain == Asset(Platform, "other")
Zipped == Asset(Platform, "zip")

MCAssets ==
    { Sumfile, Tarball, Plain, Zipped, Asset({"os"}, "tar"),
      Asset(Platform \cup {"checksums"}, "other") }

MCCatalogues ==
    { <<Sumfile, Plain, Tarball>>,
      <<Asset(Platform \cup {"checksums"}, "other"), Asset({"os"}, "tar"), Zipped>>,
      <<Tarball, Sumfile>>, <<Tarball>>, <<Sumfile>> }

Line(name, sum) == [name |-> name, sum |-> sum]

MCManifests ==
    { <<Line(Plain, "s1"), NoLine, Line(Plain, "s2"), Line(Tarball, "s1")>>,
      <<Line(Zipped, "s1")>>, <<NoLine>> }
===============================================================================
