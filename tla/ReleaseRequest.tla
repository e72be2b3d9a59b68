----------------------------- MODULE ReleaseRequest -----------------------------
(***************************************************************************)
(* One request of symaira-core-update: the metadata of the latest release  *)
(* (`fetch`, `fetch_with_client` and its cancellable partner), a signature *)
(* or certificate (`fetch_artifact_*`), the checksums and an asset         *)
(* (`download` and `download_cancellable` with the loops that read them).  *)
(* The server redirects, refuses, declares a length, sends and ends as it  *)
(* likes; the caller may cancel.                                           *)
(***************************************************************************)
EXTENDS Naturals, Sequences

CONSTANTS
    Cap,        \* the redirect cap
    MaxBody,    \* the limit on a body
    MaxSent     \* bound on what the server sends

ASSUME LimitsAssumption == Cap \in Nat \ {0} /\ MaxBody \in Nat \ {0} /\ MaxSent \in Nat

Purposes == {"metadata", "artifact", "checksums", "asset"}

\* Where a URL leads: an HTTPS address of GitHub, one of another host, one
\* without TLS.
Places == {"github", "foreign", "plain"}
Trusted == {"github"}

VARIABLES
    purpose,
    cancellable,  \* the partner with a token is called
    token,        \* the token is cancelled
    stage,        \* of the request: off, send, wait, body, over
    visited,      \* where requests were sent, in their order
    declared,     \* the length the answer declares; 0 for none
    sent,         \* what the server has sent of the body
    ended,        \* its connection: open, eof, broken
    got,          \* what the client has read of it
    outcome

request == <<purpose, cancellable, token, stage, visited, declared, sent, ended,
             got, outcome>>

Outcomes == {"none", "ok", "network", "refused", "cap", "redirect", "status",
             "decode", "tooLong", "incomplete", "timeout", "cancelled"}

RequestTypeOK ==
    /\ purpose \in Purposes
    /\ cancellable \in BOOLEAN /\ token \in BOOLEAN
    /\ stage \in {"off", "send", "wait", "body", "over"}
    /\ visited \in Seq(Places) /\ Len(visited) <= Cap + 1
    /\ declared \in 0..MaxSent /\ sent \in 0..MaxSent
    /\ ended \in {"open", "eof", "broken"}
    /\ got \in 0..MaxSent
    /\ outcome \in Outcomes

\* No request yet.
RequestOff ==
    /\ purpose = "metadata"
    /\ cancellable \in BOOLEAN
    /\ token = FALSE
    /\ stage = "off"
    /\ visited = <<>>
    /\ declared = 0
    /\ sent = 0
    /\ ended = "open"
    /\ got = 0
    /\ outcome = "none"

\* A request for p; the caller chooses its first address.
StartRequest(p) ==
    /\ stage \in {"off", "over"}
    /\ purpose' = p
    /\ stage' = "send"
    /\ \E place \in Places : visited' = <<place>>
    /\ declared' = 0
    /\ sent' = 0
    /\ ended' = "open"
    /\ got' = 0
    /\ outcome' = "none"
    /\ UNCHANGED <<cancellable, token>>

Over(o) == stage' = "over" /\ outcome' = o
Continue(s) == stage' = s /\ UNCHANGED outcome

\* A cancellable client looks at its token before it goes on.
Running == ~(cancellable /\ token)

RequestCancelled ==
    /\ stage \in {"send", "wait", "body"}
    /\ ~Running
    /\ Over("cancelled")
    /\ UNCHANGED <<purpose, cancellable, token, visited, declared, sent, ended, got>>

CancelToken ==
    /\ cancellable /\ ~token
    /\ token' = TRUE
    /\ UNCHANGED <<purpose, cancellable, stage, visited, declared, sent, ended, got,
                   outcome>>

\* An artifact is asked for over HTTPS only.
Send ==
    /\ stage = "send" /\ Running
    /\ IF purpose = "artifact" /\ Len(visited) = 1 /\ visited[1] = "plain"
       THEN Over("refused") ELSE Continue("wait")
    /\ UNCHANGED <<purpose, cancellable, token, visited, declared, sent, ended, got>>

\* Refused, reset, not certified, or too late.
NetworkFails ==
    /\ stage = "wait" /\ Running
    /\ Over("network")
    /\ UNCHANGED <<purpose, cancellable, token, visited, declared, sent, ended, got>>

-------------------------------------------------------------------------------
(* Redirects.                                                              *)

\* Mutant of Redirected: the client follows wherever it is sent.
FollowsAnywhere ==
    /\ stage = "wait" /\ Running
    /\ \E p \in Places :
          IF Len(visited) > Cap THEN Over("cap") /\ UNCHANGED visited
          ELSE Continue("send") /\ visited' = Append(visited, p)
    /\ UNCHANGED <<purpose, cancellable, token, declared, sent, ended, got>>

\* The loop over redirects of the metadata request: a redirect after the Cap-th
\* is too many.
RedirectMetadata(p) ==
    IF Len(visited) > Cap THEN Over("cap") /\ UNCHANGED visited
    ELSE IF p \notin Trusted THEN Over("refused") /\ UNCHANGED visited
    ELSE Continue("send") /\ visited' = Append(visited, p)

\* The policy of the download clients, which counts every address that was
\* asked, the first one too.
RedirectDownload(p) ==
    IF p \notin Trusted THEN Over("refused") /\ UNCHANGED visited
    ELSE IF Len(visited) >= Cap THEN Over("cap") /\ UNCHANGED visited
    ELSE Continue("send") /\ visited' = Append(visited, p)

Redirected ==
    /\ stage = "wait" /\ Running
    /\ \E p \in Places :
          IF purpose = "metadata" THEN RedirectMetadata(p) ELSE RedirectDownload(p)
    /\ UNCHANGED <<purpose, cancellable, token, declared, sent, ended, got>>

\* A redirect that names no address, or no valid one, which is looked at after
\* the cap.
RedirectedNowhere ==
    /\ stage = "wait" /\ Running
    /\ \/ Over(IF purpose = "metadata" THEN "redirect" ELSE "status")
       \/ purpose = "metadata" /\ Len(visited) > Cap /\ Over("cap")
    /\ UNCHANGED <<purpose, cancellable, token, visited, declared, sent, ended, got>>

\* A status other than 200; the rate limit is one of them.
BadStatus ==
    /\ stage = "wait" /\ Running
    /\ Over("status")
    /\ UNCHANGED <<purpose, cancellable, token, visited, declared, sent, ended, got>>

-------------------------------------------------------------------------------
(* The body.                                                               *)

Answered ==
    /\ stage = "wait" /\ Running
    /\ declared' \in 0..MaxSent
    /\ Continue("body")
    /\ UNCHANGED <<purpose, cancellable, token, visited, sent, ended, got>>

ServerSends ==
    /\ stage = "body" /\ ended = "open" /\ sent < MaxSent
    /\ sent' = sent + 1
    /\ UNCHANGED <<purpose, cancellable, token, stage, visited, declared, ended, got,
                   outcome>>

ServerEnds ==
    /\ stage = "body" /\ ended = "open"
    /\ ended' \in {"eof", "broken"}
    /\ UNCHANGED <<purpose, cancellable, token, stage, visited, declared, sent, got,
                   outcome>>

\* The metadata is read to the limit, and what follows is left; the others are
\* refused when they are longer.  A chunk that is refused is not kept.
ReadChunk ==
    /\ stage = "body" /\ Running /\ got < sent
    /\ purpose = "metadata" => got < MaxBody
    /\ \E n \in got + 1..sent :
          IF n <= MaxBody THEN got' = n /\ Continue("body")
          ELSE IF purpose = "metadata" THEN got' = MaxBody /\ Continue("body")
          ELSE UNCHANGED got /\ Over("tooLong")
    /\ UNCHANGED <<purpose, cancellable, token, visited, declared, sent, ended>>

\* Mutant of ReadEnd: the end of a body is where its connection ends.
EndsAnyhow ==
    /\ stage = "body" /\ Running
    /\ ended # "open" /\ got = sent
    /\ Over("ok")
    /\ UNCHANGED <<purpose, cancellable, token, visited, declared, sent, ended, got>>

\* The end of the body: an asset has the length that was declared for it.  A
\* blocking metadata request that took too long is not accepted.
ReadEnd ==
    /\ stage = "body" /\ Running
    /\ \/ ended = "eof" /\ got = sent
       \/ purpose = "metadata" /\ got = MaxBody
    /\ \/ Over(IF purpose = "asset" /\ declared > 0 /\ got # declared
               THEN "incomplete" ELSE "ok")
       \/ purpose = "metadata" /\ ~cancellable /\ Over("timeout")
    /\ UNCHANGED <<purpose, cancellable, token, visited, declared, sent, ended, got>>

\* The connection breaks, perhaps before all that was sent has arrived.
ReadFails ==
    /\ stage = "body" /\ Running
    /\ ended = "broken"
    /\ ~(purpose = "metadata" /\ got = MaxBody)
    /\ Over("decode")
    /\ UNCHANGED <<purpose, cancellable, token, visited, declared, sent, ended, got>>

-------------------------------------------------------------------------------
RequestStep == \/ RequestCancelled \/ Send \/ NetworkFails \/ Redirected
               \/ RedirectedNowhere \/ BadStatus \/ Answered
               \/ ReadChunk \/ ReadEnd \/ ReadFails

RequestNext == RequestStep \/ CancelToken \/ ServerSends \/ ServerEnds

RequestSpec == RequestOff /\ [][RequestNext \/ \E p \in Purposes : StartRequest(p)]_request

-------------------------------------------------------------------------------
(* Properties.                                                             *)

\* "GitHub-only HTTPS redirects": whatever the server answers, no address but
\* the caller's own is asked that is not trusted, and no more of them than the
\* cap allows: the loop of the metadata request allows one more than the policy
\* of the download clients.
TrustedHops ==
    /\ \A i \in 2..Len(visited) : visited[i] \in Trusted
    /\ Len(visited) <= (IF purpose = "metadata" THEN Cap + 1 ELSE Cap)

\* Ok is a body to its end and within the limit, as long as it was declared if
\* it is an asset; only metadata is cut off at the limit.  A body that broke off
\* is never taken for a whole one.
BodyIsTrue ==
    /\ stage = "over" /\ outcome = "ok" =>
          /\ got <= MaxBody
          /\ (ended = "eof" /\ got = sent) \/ (purpose = "metadata" /\ got = MaxBody)
          /\ purpose = "asset" /\ declared > 0 => got = declared
    /\ outcome = "tooLong" => sent > MaxBody /\ purpose # "metadata"
    /\ outcome = "cancelled" => token

-------------------------------------------------------------------------------
(* The inductive invariant behind them.                                    *)

\* A request has an outcome when it is over, and what is read of a body before
\* that is within the limit.
RequestInv ==
    /\ RequestTypeOK
    /\ TrustedHops /\ BodyIsTrue
    /\ stage # "over" => outcome = "none" /\ got <= MaxBody
===============================================================================
