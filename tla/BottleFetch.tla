----------------------------- MODULE BottleFetch -----------------------------
(***************************************************************************)
(* Fetching one bottle for an install (fetchBottle in pkgx.go, PullFile in *)
(* oci.go): from the cache when one is configured, else, or when the cache *)
(* fails in any way, from the dist; verified against the signatures the    *)
(* dist attaches to it; or over HTTP, which has no signatures.             *)
(***************************************************************************)
EXTENDS BlobTransfer

CONSTANT Environments   \* what configuration and registries may be like

Source == {"cache", "dist"}
Codecs == 3             \* ExtTarZst, ExtTarGz, ExtTarXz

(* verify: signatures are required.  oci: the dist is a registry.  cache:  *)
(* one is configured.  blob: the layer each registry's manifest describes, *)
(* None where it lacks the bottle.  signed: the blobs that enough          *)
(* signatures on the dist's manifest commit to.  honest: the registries    *)
(* that answer, and whose transfers are only cut.                          *)
Environment ==
  [verify : BOOLEAN, oci : BOOLEAN, cache : BOOLEAN,
   blob : [Source -> Content \cup {None}], signed : SUBSET Content,
   honest : SUBSET Source]

ASSUME FetchAssumption == Environments \subseteq Environment

VARIABLES
  pc,       \* what fetchBottle does next
  source,   \* the registry it pulls from
  held,     \* registries whose blob is staged in a temporary file
  codec,    \* how many codecs were tried over HTTP
  result,   \* the bottle it returned
  env       \* the environment of this behaviour

transfer == <<want, file, got, parts, attempt>>
vars == <<transfer, pc, source, held, codec, result, env>>

Ended == {"released", "refused"}

TypeOK ==
  /\ want \in Content \cup {None}
  /\ got \in Nat
  /\ parts \subseteq Content
  /\ attempt \in 0 .. Retries
  /\ pc \in {"start", "resolve", "request", "check", "verify", "http", "accepted"} \cup Ended
  /\ source \in Source
  /\ held \subseteq Source
  /\ codec \in 0 .. Codecs
  /\ result \in Content \cup {None}
  /\ env \in Environments

Init ==
  /\ want = None
  /\ file = <<>>
  /\ got = 0
  /\ parts = {}
  /\ attempt = 0
  /\ pc = "start"
  /\ source = "dist"
  /\ held = {}
  /\ codec = 0
  /\ result = None
  /\ env \in Environments

(* A dist that is no registry is refused where verification is demanded.   *)
Start ==
  /\ pc = "start"
  /\ IF env.oci
     THEN /\ pc' = "resolve"
          /\ source' = IF env.cache THEN "cache" ELSE "dist"
     ELSE /\ pc' = IF env.verify THEN "refused" ELSE "http"
          /\ UNCHANGED source
  /\ UNCHANGED <<transfer, held, codec, result, env>>

(* The temporary file of a source that failed is closed and removed.       *)
DiscardKept == held
Discard == held \ {source}

FallThroughNever == FALSE
FallThrough == source = "cache"

Fail ==
  /\ held' = Discard
  /\ IF FallThrough
     THEN source' = "dist" /\ pc' = "resolve"
     ELSE pc' = "refused" /\ UNCHANGED source

Resolve ==
  /\ pc = "resolve"
  /\ env.blob[source] # None
  /\ Open(env.blob[source])
  /\ held' = held \cup {source}
  /\ pc' = "request"
  /\ UNCHANGED <<source, codec, result, env>>

ResolveFails ==
  /\ pc = "resolve"
  /\ source \in env.honest => env.blob[source] = None
  /\ Fail
  /\ UNCHANGED <<transfer, codec, result, env>>

Offered ==
  IF source \in env.honest THEN HonestResponses(want, got) ELSE Responses(got)

Request ==
  /\ pc = "request"
  /\ \E r \in Offered :
       /\ Receive(r)
       /\ \/ /\ Resumes(r, got)
             /\ attempt' = NextAttempt(r, got)
             /\ UNCHANGED <<pc, source, held>>
          \/ GivesUp(r, got) /\ Fail /\ UNCHANGED attempt
          \/ /\ ~Resumes(r, got) /\ ~GivesUp(r, got)
             /\ pc' = "check"
             /\ UNCHANGED <<attempt, source, held>>
  /\ UNCHANGED <<codec, result, env>>

Check ==
  /\ pc = "check"
  /\ IF Intact THEN pc' = "verify" /\ UNCHANGED <<source, held>> ELSE Fail
  /\ UNCHANGED <<transfer, codec, result, env>>

(* verifyPulledDigest asks the dist, whichever registry the bytes are of.  *)
VerifiedFromDist == env.verify /\ source = "dist" => file \in env.signed
Verified == env.verify => file \in env.signed

Accept ==
  /\ pc = "verify"
  /\ Verified
  /\ result' = file
  /\ pc' = "accepted"
  /\ UNCHANGED <<transfer, source, held, codec, env>>

Reject ==
  /\ pc = "verify"
  /\ env.verify
  /\ "dist" \in env.honest => ~Verified
  /\ Fail
  /\ UNCHANGED <<transfer, codec, result, env>>

(* One codec over HTTP: it is there, it is not, or the server fails.       *)
HttpFound ==
  /\ pc = "http"
  /\ codec < Codecs
  /\ result' \in Content
  /\ pc' = "accepted"
  /\ UNCHANGED <<transfer, source, held, codec, env>>

HttpMissing ==
  /\ pc = "http"
  /\ IF codec < Codecs
     THEN codec' = codec + 1 /\ UNCHANGED pc
     ELSE pc' = "refused" /\ UNCHANGED codec
  /\ UNCHANGED <<transfer, source, held, result, env>>

HttpFails ==
  /\ pc = "http"
  /\ codec < Codecs
  /\ pc' = "refused"
  /\ UNCHANGED <<transfer, source, held, codec, result, env>>

(* The caller has read the bottle and closes it.                           *)
Release ==
  /\ pc = "accepted"
  /\ held' = {}
  /\ pc' = "released"
  /\ UNCHANGED <<transfer, source, codec, result, env>>

Next ==
  \/ Start
  \/ Resolve
  \/ ResolveFails
  \/ Request
  \/ Check
  \/ Accept
  \/ Reject
  \/ HttpFound
  \/ HttpMissing
  \/ HttpFails
  \/ Release

Spec == Init /\ [][Next]_vars
FairSpec == Spec /\ WF_vars(Next)

-----------------------------------------------------------------------------
(* What an install may rely on.                                            *)

(* What is counted is what is on disk, over every restart and resume: the  *)
(* next Range request continues exactly where the file ends                *)
(* (writeBlobFrom, fetchBlobFile).                                         *)
ResumesAtEnd == got = Len(file)

(* Pieces of one blob, over any cuts, resumed attempts and restarts, lie   *)
(* one behind the other as they do in it, so that a digest is refused only *)
(* where a piece is missing or of another blob; and what reaches the       *)
(* caller is what the manifest of the registry it came from describes,     *)
(* also where another one was tried first (fetchBlobFile, fetchBottle).    *)
PiecesBelongTogether ==
  /\ \A b \in Content : parts \subseteq {b} => file = SubSeq(b, 1, got)
  /\ env.oci /\ result # None => result = env.blob[source]

(* With verification on, nothing reaches the caller that the dist's        *)
(* signatures do not commit to, whoever served it; and over HTTP nothing   *)
(* does (verifyPulledDigest, httpDistUnverifiable).                        *)
OnlySignedAccepted ==
  env.verify /\ result # None => env.oci /\ result \in env.signed

(* A dist that has the bottle, signed where that is asked for, and whose   *)
(* transfers are cut at worst, is never refused: whatever the cache does   *)
(* first, and wherever the transfers are cut (fetchBottle, fetchBlobFile). *)
Serviceable ==
  /\ env.oci
  /\ "dist" \in env.honest
  /\ env.blob["dist"] # None
  /\ env.verify => env.blob["dist"] \in env.signed
  /\ Len(env.blob["dist"]) \in 1 .. Retries + 1

ServedWhenServiceable == Serviceable => pc # "refused"

(* The staged files: never two at a time, since a toolchain is gigabytes,  *)
(* and none that nobody is going to remove.                                *)
StagedOnce ==
  /\ held \subseteq {source}
  /\ pc \in Ended \cup {"resolve"} => held = {}

(* Every fetch ends, whatever the registries answer.                       *)
FetchEnds == <>(pc \in Ended)
=============================================================================
