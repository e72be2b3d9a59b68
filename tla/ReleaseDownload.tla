---------------------------- MODULE ReleaseDownload ----------------------------
(***************************************************************************)
(* From the metadata of a release to a binary that is ready to be swapped  *)
(* in: `Applier::apply` and `apply_cancellable` of symaira-core-update up  *)
(* to atomic_swap, with the requests of ReleaseRequest and the extraction  *)
(* of ArchiveExtract as their steps.  UpdateApply takes this part as one   *)
(* preparation, one download and one comparison; ImplementsApply says that *)
(* it may.                                                                 *)
(***************************************************************************)
EXTENDS ReleaseRequest, ArchiveExtract

CONSTANTS
    Assets,      \* an asset has the words its name contains and a suffix
    Catalogues,  \* lists of assets, a release's
    Manifests,   \* lists of lines of checksums.txt: an asset and a sum, or NoLine
    NoLine,      \* a line that has not exactly two fields
    Sums         \* the digests of what is downloaded

ASSUME ReleaseAssumption ==
    /\ Assets \subseteq [words : SUBSET STRING, suffix : {"tar", "zip", "other"}]
    /\ Catalogues \subseteq Seq(Assets)
    /\ Manifests \subseteq Seq([name : Assets, sum : Sums] \cup {NoLine})
ASSUME SumsAssumption ==
    Sums # {} /\ Sums \cap {"corrupt", "part", "none"} = {}

VARIABLES
    call,       \* what the caller of the update is in
    assets,     \* of the release the server names
    manifest,   \* the checksums.txt it serves
    genuine,    \* that manifest is the one its signature was made for
    cosign,     \* the caller asks for the signature to be verified
    extracts,   \* the caller asks for a binary out of an archive
    content     \* the digest of the asset that was received

arguments == <<assets, manifest, genuine, cosign, extracts>>
vars == <<call, arguments, content, request, extraction>>

Fetching == {"metadata", "checksums", "signature", "certificate", "asset"}

DownloadTypeOK ==
    /\ RequestTypeOK /\ ExtractTypeOK
    /\ call \in Fetching \cup {"idle", "unavailable", "apply", "verify", "wanted",
                               "stage", "extract", "chmod", "enter", "staged", "failed"}
    /\ assets \in Catalogues \cup {<<>>} /\ manifest \in Manifests \cup {<<>>}
    /\ genuine \in BOOLEAN /\ cosign \in BOOLEAN /\ extracts \in BOOLEAN
    /\ content \in Sums

Init ==
    /\ call = "idle"
    /\ assets = <<>> /\ manifest = <<>>
    /\ genuine = FALSE /\ cosign = FALSE /\ extracts = FALSE
    /\ content = CHOOSE sum \in Sums : TRUE
    /\ RequestOff /\ ExtractOff

-------------------------------------------------------------------------------
(* What is chosen from the release, and what its manifest says.            *)

Matches(asset) == "checksums" \notin asset.words /\ {"os", "arch"} \subseteq asset.words

\* select_asset: the first that matches, or none.
Selected == {assets[i] : i \in {j \in DOMAIN assets :
    Matches(assets[j]) /\ \A k \in 1..j - 1 : ~Matches(assets[k])}}

HasChecksums == \E i \in DOMAIN assets : "checksums" \in assets[i].words

\* Mutant of InsertLine: a name that has a sum keeps it.
KeepsFirst(sums, line) ==
    IF line = NoLine \/ line.name \in DOMAIN sums THEN sums
    ELSE [n \in DOMAIN sums \cup {line.name} |-> IF n = line.name THEN line.sum ELSE sums[n]]

InsertLine(sums, line) ==
    IF line = NoLine THEN sums
    ELSE [n \in DOMAIN sums \cup {line.name} |-> IF n = line.name THEN line.sum ELSE sums[n]]

\* What is known after each line.
Inserted(lines) ==
    LET sums[k \in 0..Len(lines)] ==
            IF k = 0 THEN <<>> ELSE InsertLine(sums[k - 1], lines[k])
    IN  sums

\* parse_checksums
Parsed == [lines \in Manifests \cup {<<>>} |-> Inserted(lines)[Len(lines)]]
Checksums == Parsed[manifest]

IsWanted(sum) == \E a \in Selected : a \in DOMAIN Checksums /\ Checksums[a] = sum

-------------------------------------------------------------------------------
(* Calls.                                                                  *)

Goto(c) == call' = c /\ UNCHANGED <<arguments, content>>

NoRequest == /\ stage' = "off" /\ visited' = <<>> /\ declared' = 0
             /\ sent' = 0 /\ ended' = "open" /\ got' = 0 /\ outcome' = "none"
             /\ UNCHANGED <<purpose, cancellable>>
Forget == NoRequest /\ UNCHANGED token

Received == call \in Fetching /\ stage = "over" /\ outcome = "ok"

\* The metadata of the latest release is asked for.
Check ==
    /\ call = "idle"
    /\ Goto("metadata") /\ StartRequest("metadata")
    /\ UNCHANGED extraction

\* A step of a request, of its server, or of the one who may cancel.
RequestGoesOn ==
    /\ RequestNext
    /\ content' \in (IF purpose = "asset" /\ outcome = "none" /\ outcome' = "ok"
                    THEN Sums ELSE {content})
    /\ UNCHANGED <<call, arguments, extraction>>

RequestFailed ==
    /\ call \in Fetching /\ stage = "over" /\ outcome # "ok"
    /\ Goto(IF call = "metadata" THEN "unavailable" ELSE "failed") /\ Forget
    /\ UNCHANGED extraction

\* The release is applied.  Its call has a token of its own: one that is
\* cancelled before the call is as one that is cancelled before its first look.
Apply ==
    /\ call = "metadata" /\ Received
    /\ call' = "apply"
    /\ assets' \in Catalogues /\ manifest' \in Manifests
    /\ genuine' \in BOOLEAN /\ cosign' \in BOOLEAN /\ extracts' \in BOOLEAN
    /\ NoRequest /\ token' = FALSE
    /\ UNCHANGED content
    /\ UNCHANGED extraction

\* The install method may be one that does not update itself.
SelectAssets ==
    /\ call = "apply"
    /\ \/ Goto("failed") /\ UNCHANGED request
       \/ /\ Running /\ Selected # {} /\ HasChecksums
          /\ Goto("checksums") /\ StartRequest("checksums")
    /\ UNCHANGED extraction

ReadChecksums ==
    /\ call = "checksums" /\ Received
    /\ IF DOMAIN Checksums = {} THEN Goto("failed") /\ Forget
       ELSE IF cosign THEN Goto("signature") /\ StartRequest("artifact")
       ELSE Goto("wanted") /\ Forget
    /\ UNCHANGED extraction

ReadSignature ==
    /\ call = "signature" /\ Received
    /\ Goto("certificate") /\ StartRequest("artifact")
    /\ UNCHANGED extraction

ReadCertificate ==
    /\ call = "certificate" /\ Received
    /\ Goto("verify") /\ Forget
    /\ UNCHANGED extraction

\* The verifier accepts nothing but the manifest the signature was made for, and
\* may fail on it too.
VerifySignature ==
    /\ call = "verify"
    /\ \/ Goto("failed")
       \/ Running /\ genuine /\ Goto("wanted")
    /\ UNCHANGED <<request, extraction>>

\* The sum of the selected asset, and check_writable.
LookUpWanted ==
    /\ call = "wanted"
    /\ \/ Goto("failed")
       \/ (\E sum \in Sums : IsWanted(sum)) /\ Goto("stage")
    /\ UNCHANGED <<request, extraction>>

\* Mutant of CreateStaging: the token is not looked at before the first write.
StagesCancelled ==
    /\ call = "stage"
    /\ \/ Goto("failed") /\ UNCHANGED request
       \/ Goto("asset") /\ StartRequest("asset")
    /\ UNCHANGED extraction

CreateStaging ==
    /\ call = "stage"
    /\ \/ Goto("failed") /\ UNCHANGED request
       \/ Running /\ Goto("asset") /\ StartRequest("asset")
    /\ UNCHANGED extraction

\* The digest of the stream against the sum that is wanted.
CompareDigest ==
    /\ call = "asset" /\ Received
    /\ IF ~IsWanted(content) THEN Goto("failed") /\ UNCHANGED extraction
       ELSE IF ~extracts THEN Goto("chmod") /\ UNCHANGED extraction
       ELSE Goto("extract") /\ \E a \in Selected : StartExtract(a.suffix)
    /\ Forget

ExtractGoesOn ==
    /\ ExtractNext
    /\ UNCHANGED <<call, arguments, content, request>>

ExtractOver ==
    /\ call = "extract" /\ phase = "over"
    /\ Goto(IF extracted = "ok" THEN "chmod" ELSE "failed")
    /\ UNCHANGED <<request, extraction>>

MakeExecutable ==
    /\ call = "chmod"
    /\ \E c \in {"enter", "failed"} : Goto(c)
    /\ UNCHANGED <<request, extraction>>

\* The checks of the token before the target is touched.
EnterSwap ==
    /\ call = "enter"
    /\ Goto(IF Running THEN "staged" ELSE "failed")
    /\ UNCHANGED <<request, extraction>>

Next ==
    \/ Check \/ RequestGoesOn \/ RequestFailed \/ Apply \/ SelectAssets
    \/ ReadChecksums \/ ReadSignature \/ ReadCertificate \/ VerifySignature
    \/ LookUpWanted \/ CreateStaging \/ CompareDigest \/ ExtractGoesOn
    \/ ExtractOver \/ MakeExecutable \/ EnterSwap

Spec == Init /\ [][Next]_vars

-------------------------------------------------------------------------------
(* Properties.                                                             *)

\* What is about to replace the installed binary has the digest that the last
\* line of the manifest about it gives, for the first asset that matches the
\* platform; its manifest is the signed one where a signature was asked for, and
\* it came out of the archive whole where one was to be extracted.
StagedIsVerified ==
    call \in {"chmod", "enter", "staged"} =>
        /\ \E i \in DOMAIN assets :
              /\ Matches(assets[i]) /\ \A j \in 1..i - 1 : ~Matches(assets[j])
              /\ \E k \in DOMAIN manifest :
                    /\ manifest[k] = [name |-> assets[i], sum |-> content]
                    /\ \A l \in k + 1..Len(manifest) :
                          manifest[l] # NoLine => manifest[l].name # assets[i]
        /\ cosign => genuine
        /\ extracts => extracted = "ok"

\* UpdateApply's caller "u", seen through the download.
Applying == call \notin {"idle", "metadata", "unavailable", "failed"}
Published == IF \E s \in Sums : IsWanted(s) THEN CHOOSE s \in Sums : IsWanted(s)
             ELSE CHOOSE s \in Sums : TRUE
Stages == {"extract", "chmod", "enter", "staged"}

Operation ==
    CASE call \in {"apply", "signature", "certificate", "verify"} -> "prepare"
      [] call = "checksums" -> IF Received /\ ~cosign THEN "probe" ELSE "prepare"
      [] call = "wanted" -> "probe"
      [] call = "asset" -> IF Received THEN "verify" ELSE "download"
      [] call = "staged" -> "metadata"
      [] call \in {"stage", "extract", "chmod", "enter"} -> call
      [] OTHER -> "idle"

Staging ==
    IF call \in Stages \/ (call = "asset" /\ Received)
    THEN IF IsWanted(content) THEN content ELSE "corrupt"
    ELSE IF call = "asset" THEN "part" ELSE "none"

Abstract ==
    INSTANCE UpdateApply WITH
        Updaters <- {"u"}, Releases <- Sums, Old <- "old", Corrupt <- "corrupt",
        Part <- "part", None <- "none", Exclusive <- TRUE,
        target <- "old", backup <- "none", existed <- TRUE,
        pc <- [u \in {"u"} |-> Operation],
        asset <- [u \in {"u"} |-> IF Applying THEN Published ELSE "none"],
        archive <- [u \in {"u"} |-> Applying /\ extracts],
        cancellable <- [u \in {"u"} |-> Applying /\ cancellable],
        cancelled <- [u \in {"u"} |-> Applying /\ token],
        stage <- [u \in {"u"} |-> Staging],
        extracted <- [u \in {"u"} |->
            IF extracts /\ call \in Stages \ {"extract"} THEN content ELSE "none"],
        had <- [u \in {"u"} |-> FALSE],
        before <- [u \in {"u"} |-> IF Applying THEN "old" ELSE "none"],
        unrestored <- [u \in {"u"} |-> FALSE],
        result <- [u \in {"u"} |-> IF call = "failed" THEN "err" ELSE "none"]

\* Requests, redirects, signature and extraction step by step are the one
\* preparation, download, comparison and extraction of UpdateApply, with the
\* token looked at where it says.
ImplementsApply == Abstract!Spec

-------------------------------------------------------------------------------
(* The inductive invariant behind them.                                    *)

\* What each of the caller's requests is for.
PurposeOf == [c \in Fetching |-> IF c \in {"signature", "certificate"} THEN "artifact"
                                 ELSE c]

\* The caller fetches, extracts, or does neither; what it has passed on the way
\* still holds.
CallInv ==
    /\ IF call \in Fetching THEN stage # "off" /\ purpose = PurposeOf[call]
       ELSE stage = "off"
    /\ phase \in {"tar", "zip"} => call = "extract"
    /\ call \notin Stages \cup {"failed"} => phase = "off"
    /\ call \in {"wanted", "stage", "asset"} \cup Stages => (cosign => genuine)
    /\ call \in Stages => IsWanted(content)
    /\ call = "extract" => extracts
    /\ call \in Stages \ {"extract"} /\ extracts => extracted = "ok"

DownloadInv == DownloadTypeOK /\ RequestInv /\ ExtractInv /\ CallInv
===============================================================================
