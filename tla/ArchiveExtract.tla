----------------------------- MODULE ArchiveExtract -----------------------------
(***************************************************************************)
(* `extract_binary_to_dir` of symaira-core-update: the entries of an       *)
(* archive are written into a private directory, and the binary is the     *)
(* last one with the expected base name.  An archive whose name says       *)
(* nothing of its format is first read as tar.gz and then, into the same   *)
(* directory, as ZIP.  The entries come as they like, and neither reader   *)
(* knows where the archive turns out to be malformed.                      *)
(***************************************************************************)
EXTENDS Naturals, FiniteSets, SequencesExt

CONSTANTS
    RawNames,    \* names of entries: whether absolute, and the parts
    Sizes,       \* sizes of entries
    Expected,    \* the base name that is looked for
    Dotted,      \* parts with ".." inside
    MaxTotal,    \* the extraction limit
    MaxEntries   \* bound on the entries of an archive

ASSUME ExtractAssumption == Sizes \subseteq Nat /\ {MaxTotal, MaxEntries} \subseteq Nat \ {0}
ASSUME NamesAssumption == RawNames \subseteq [absolute : BOOLEAN, parts : Seq(STRING)]

VARIABLES
    suffix,      \* what the asset's name says: tar, zip, other
    phase,       \* off, tar, zip, over
    tarError,    \* why the bytes were no tar.gz, when they are probed as ZIP
    entries,     \* what the reader of this phase has extracted
    dirs,        \* the directories there are, as sequences of names
    files,       \* the files there are, with the entry each was written from
    selected,    \* the path of the binary, or <<>>
    total,       \* what this phase has extracted
    extracted    \* the outcome

extraction == <<suffix, phase, tarError, entries, dirs, files, selected, total,
                extracted>>

Kinds == {"file", "dir", "other"}
Entries == [name : RawNames, kind : Kinds, size : Sizes \cup {0}]
ExtractErrors == {"traversal", "io", "size", "invalid", "notFound", "dotted"}

ExtractTypeOK ==
    /\ suffix \in {"tar", "zip", "other"}
    /\ phase \in {"off", "tar", "zip", "over"}
    /\ tarError \in {"none", "io", "size", "invalid", "notFound", "dotted"}
    /\ entries \in Seq(Entries) /\ Len(entries) <= MaxEntries
    /\ \A d \in dirs : d # <<>> /\ d \notin DOMAIN files
    /\ \A p \in DOMAIN files :
          files[p] \in [reader : {"tar", "zip"}, entry : Entries, length : Nat]
    /\ selected = <<>> \/ selected \in DOMAIN files
    /\ total \in 0..MaxTotal
    /\ extracted \in {"none", "ok"} \cup ExtractErrors

ExtractOff ==
    /\ suffix = "other"
    /\ phase = "off"
    /\ tarError = "none"
    /\ entries = <<>>
    /\ dirs = {}
    /\ files = <<>>
    /\ selected = <<>>
    /\ total = 0
    /\ extracted = "none"

\* The archive is read as what its name says, and as tar.gz if it says nothing.
StartExtract(s) ==
    /\ phase = "off"
    /\ suffix' = s
    /\ phase' = IF s = "zip" THEN "zip" ELSE "tar"
    /\ UNCHANGED <<tarError, entries, dirs, files, selected, total, extracted>>

-------------------------------------------------------------------------------
(* Names.                                                                  *)

\* Mutant of CleanPart: ".." takes a name back, and nothing if there is none.
PopsAlways(absolute, parts, part) ==
    IF part = "." THEN parts
    ELSE IF part # ".." THEN Append(parts, part)
    ELSE IF parts = <<>> THEN parts ELSE Front(parts)

\* One part of a name after those that are clean.
CleanPart(absolute, parts, part) ==
    IF part = "." THEN parts
    ELSE IF part # ".." THEN Append(parts, part)
    ELSE IF parts # <<>> /\ Last(parts) # ".." THEN Front(parts)
    ELSE IF absolute THEN parts
    ELSE Append(parts, part)

\* What is left of a name after each of its parts.
Cleaned(name) ==
    LET left[k \in 0..Len(name.parts)] ==
            IF k = 0 THEN <<>> ELSE CleanPart(name.absolute, left[k - 1], name.parts[k])
    IN  left

\* clean_name: no parts are ".", the directory itself.
Clean == [name \in RawNames |-> Cleaned(name)[Len(name.parts)]]

Valid(name) == ~name.absolute /\ ".." \notin ToSet(Clean[name])

IsExpected(path) == path # <<>> /\ Last(path) = Expected

-------------------------------------------------------------------------------
(* The directory.                                                          *)

UpTo(path) == {SubSeq(path, 1, k) : k \in 1..Len(path)}
Parents(path) == UpTo(path) \ {path}

\* create_dir_all(parent): no file is in the way.
CanMakeParents(path) == Parents(path) \cap DOMAIN files = {}

\* A directory cannot be opened for writing.
CanOpen(path) == path # <<>> /\ path \notin dirs

Put(path, file) ==
    files' = [q \in DOMAIN files \cup {path} |-> IF q = path THEN file ELSE files[q]]

Written(e, length) == [reader |-> phase, entry |-> e, length |-> length]

\* The parents are made, the file is opened, truncated and written.
Stored(path, e, length) ==
    /\ CanMakeParents(path) /\ CanOpen(path)
    /\ dirs' = dirs \cup Parents(path)
    /\ Put(path, Written(e, length))

\* One of the three fails, the last after part of the file.
StoreFails(path, e, length) ==
    \/ ~CanMakeParents(path) /\ UNCHANGED <<dirs, files>>
    \/ /\ CanMakeParents(path) /\ ~CanOpen(path)
       /\ dirs' = dirs \cup Parents(path)
       /\ UNCHANGED files
    \/ \E part \in 0..length - 1 : Stored(path, e, part)

-------------------------------------------------------------------------------
(* The end of a reader.                                                    *)

Finish(o) ==
    /\ phase' = "over"
    /\ extracted' = o
    /\ UNCHANGED <<tarError, entries, selected, total>>

\* Only an archive of unknown format is read again after its tar.gz reader has
\* failed, and not if a name went outside.  What was written stays.
TarFails(o) ==
    IF suffix = "tar" \/ o = "traversal" THEN Finish(o)
    ELSE /\ phase' = "zip"
         /\ tarError' = o
         /\ entries' = <<>> /\ selected' = <<>> /\ total' = 0
         /\ UNCHANGED extracted

\* That the tar.gz did not hold the binary is said before what ZIP says.
ZipFails(o) == Finish(IF tarError = "notFound" THEN tarError ELSE o)

Fails(o) == IF phase = "tar" THEN TarFails(o) ELSE ZipFails(o)

\* The path that is returned holds no ".." anywhere.
ReturnSelected ==
    IF selected = <<>> THEN Fails("notFound")
    ELSE Finish(IF ToSet(selected) \cap Dotted # {} THEN "dotted" ELSE "ok")

-------------------------------------------------------------------------------
(* The readers.                                                            *)

Reading == phase \in {"tar", "zip"} /\ UNCHANGED suffix

Extracted(path, e, length) ==
    /\ entries' = Append(entries, e)
    /\ total' = total + length
    /\ selected' = IF e.kind # "dir" /\ IsExpected(path) THEN path ELSE selected
    /\ UNCHANGED <<phase, tarError, extracted>>

\* A name that leads outside ends the extraction.
RejectName(name) ==
    /\ Reading
    /\ ~Valid(name)
    /\ Fails("traversal")
    /\ UNCHANGED <<dirs, files>>

ExtractDir(name) ==
    LET path == Clean[name]
    IN  /\ Reading /\ Len(entries) < MaxEntries
        /\ Valid(name)
        /\ IF UpTo(path) \cap DOMAIN files = {}
           THEN /\ dirs' = dirs \cup UpTo(path)
                /\ Extracted(path, [name |-> name, kind |-> "dir", size |-> 0], 0)
           ELSE Fails("io") /\ UNCHANGED dirs
        /\ UNCHANGED files

\* A link or a device in a tar.gz is skipped.
SkipOther(name) ==
    /\ Reading /\ phase = "tar" /\ Len(entries) < MaxEntries
    /\ Valid(name)
    /\ entries' = Append(entries, [name |-> name, kind |-> "other", size |-> 0])
    /\ UNCHANGED <<phase, tarError, dirs, files, selected, total, extracted>>

\* What is read of an entry: never past the limit.
Taken(size) == IF size > MaxTotal - total THEN MaxTotal - total ELSE size

\* Mutant of TooMuch: exactly the limit is allowed.
AllowsLimit(length) == total + length > MaxTotal

\* An entry that was cut off cannot be told from one that ends at the limit.
TooMuch(length) == total + length >= MaxTotal

\* A file of a tar.gz is written as far as the limit, which is looked at then.
ExtractTarFile(name, size) ==
    LET path == Clean[name]
        e == [name |-> name, kind |-> "file", size |-> size]
        length == Taken(size)
    IN  /\ Reading /\ phase = "tar" /\ Len(entries) < MaxEntries
        /\ Valid(name)
        /\ \/ Fails("io") /\ StoreFails(path, e, length)
           \/ /\ Stored(path, e, length)
              /\ IF TooMuch(length) THEN Fails("size") ELSE Extracted(path, e, length)

\* An entry of a ZIP that is no directory is a file, a link too.  Its limit and
\* its checksum are looked at before anything is written.
ExtractZipFile(name, size, sound) ==
    LET path == Clean[name]
        e == [name |-> name, kind |-> "file", size |-> size]
        length == Taken(size)
    IN  /\ Reading /\ phase = "zip" /\ Len(entries) < MaxEntries
        /\ Valid(name)
        /\ \/ TooMuch(length) /\ Fails("size") /\ UNCHANGED <<dirs, files>>
           \/ ~TooMuch(length) /\ ~sound /\ Fails("invalid") /\ UNCHANGED <<dirs, files>>
           \/ /\ ~TooMuch(length) /\ sound
              /\ \/ Fails("io") /\ StoreFails(path, e, length)
                 \/ Extracted(path, e, length) /\ Stored(path, e, length)

\* The bytes are no archive of this format, or not to their end; the directory
\* cannot be opened.
Malformed ==
    /\ Reading
    /\ \E o \in {"invalid", "io"} : Fails(o)
    /\ UNCHANGED <<dirs, files>>

ReaderEnds ==
    /\ Reading
    /\ ReturnSelected
    /\ UNCHANGED <<dirs, files>>

ExtractNext ==
    \/ \E name \in RawNames : RejectName(name) \/ ExtractDir(name) \/ SkipOther(name)
    \/ \E name \in RawNames, size \in Sizes :
          \/ ExtractTarFile(name, size)
          \/ \E sound \in BOOLEAN : ExtractZipFile(name, size, sound)
    \/ Malformed
    \/ ReaderEnds

-------------------------------------------------------------------------------
(* Properties.                                                             *)

\* What the parts of a name mean, without cleaning them: the names no ".." takes
\* back, and whether some ".." takes back more than there is.
Ups(parts, i, k) == Cardinality({j \in i..k : parts[j] = ".."})
Downs(parts, i, k) == Cardinality({j \in i..k : parts[j] \notin {".", ".."}})

Survives(parts, i) ==
    /\ parts[i] \notin {".", ".."}
    /\ \A k \in i..Len(parts) : Ups(parts, i, k) < Downs(parts, i, k)

\* The n-th of some numbers, in their order.
Nth(kept, n) == CHOOSE i \in kept : Cardinality({j \in kept : j < i}) = n - 1

Meant ==
    [name \in RawNames |->
        LET kept == {i \in DOMAIN name.parts : Survives(name.parts, i)}
        IN  [n \in 1..Cardinality(kept) |-> name.parts[Nth(kept, n)]]]

Outside ==
    {name \in RawNames :
        \/ name.absolute
        \/ \E k \in DOMAIN name.parts : Ups(name.parts, 1, k) > Downs(name.parts, 1, k)}

\* "Refuses traversal": whichever readers have run, and however they ended, a
\* file is where its name means and no name that leads outside was written.
Confined ==
    /\ \A p \in DOMAIN files :
          files[p].entry.name \notin Outside /\ p = Meant[files[p].entry.name]
    /\ \A d \in dirs : ".." \notin ToSet(d)

\* The binary that is returned is, whole, the last file of that base name which
\* the accepted format holds: never one that the limit cut off, and never what
\* the failed reader of the other format left at some path.
SelectedIsWhole ==
    extracted = "ok" =>
        LET named == {i \in DOMAIN entries :
                         /\ entries[i].kind = "file"
                         /\ IsExpected(Meant[entries[i].name])}
            file == files[selected]
        IN  /\ \E i \in named :
                  /\ \A j \in named : j <= i
                  /\ selected = Meant[entries[i].name] /\ file.entry = entries[i]
            /\ file.length = file.entry.size
            /\ file.reader = (IF suffix = "zip" \/ tarError # "none" THEN "zip" ELSE "tar")

-------------------------------------------------------------------------------
(* The inductive invariant behind them.                                    *)

\* Every file is where its name, which is valid, was cleaned to, and every
\* directory is inside.
NamesInv ==
    /\ \A p \in DOMAIN files :
          Valid(files[p].entry.name) /\ p = Clean[files[p].entry.name]
    /\ \A d \in dirs : ".." \notin ToSet(d)
    /\ \A i \in DOMAIN entries : Valid(entries[i].name)

\* The format that is being read, or that was read last.
Format == IF suffix = "zip" \/ tarError # "none" THEN "zip" ELSE "tar"

\* The entries this reader has extracted as files of the expected base name.
Named == {i \in DOMAIN entries :
             entries[i].kind = "file" /\ IsExpected(Clean[entries[i].name])}

\* What is selected is, whole, the last of them.
SelectedInv ==
    /\ phase \in {"tar", "zip"} => phase = Format
    /\ phase # "over" => extracted = "none"
    /\ phase = "off" => tarError = "none" /\ selected = <<>>
    /\ extracted = "ok" => selected # <<>>
    /\ phase \in {"off", "tar", "zip"} \/ extracted = "ok" =>
          IF selected = <<>> THEN Named = {}
          ELSE /\ \E i \in Named :
                     /\ \A j \in Named : j <= i
                     /\ selected = Clean[entries[i].name]
                     /\ files[selected] = [reader |-> Format, entry |-> entries[i],
                                           length |-> entries[i].size]

ExtractInv == ExtractTypeOK /\ NamesInv /\ SelectedInv
===============================================================================
