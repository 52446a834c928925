------------------------- MODULE BottleFetchProofs -------------------------
(* Theorems about BottleFetch, for blobs of any length, any number of      *)
(* retries and any registries.                                             *)
EXTENDS BottleFetch, SequenceTheorems, TLAPS

-----------------------------------------------------------------------------
(* The temporary file.                                                     *)

(* Writing where the file ends appends.                                    *)
LEMMA WriteAtEnd ==
  ASSUME NEW f \in Seq(Block), NEW chunk \in Seq(Block)
  PROVE  WriteAt(f, Len(f), chunk) = f \o chunk
<1> DEFINE n == Len(f) + Len(chunk)
<1>1. Len(f) \in Nat /\ Len(chunk) \in Nat
  BY LenProperties
<1>2. /\ f \in [1 .. Len(f) -> Block]
      /\ chunk \in [1 .. Len(chunk) -> Block]
  BY LenProperties
<1>3. WriteAt(f, Len(f), chunk) =
        [i \in 1 .. n |-> IF i \in Len(f) + 1 .. n THEN chunk[i - Len(f)] ELSE f[i]]
  BY <1>1 DEF WriteAt, Larger
<1>4. WriteAt(f, Len(f), chunk) \in [1 .. n -> Block]
  BY <1>1, <1>2, <1>3
<1>5. f \o chunk \in Seq(Block) /\ Len(f \o chunk) = n
  BY ConcatProperties
<1>6. f \o chunk \in [1 .. n -> Block]
  BY <1>5, LenProperties
<1>7. ASSUME NEW i \in 1 .. n
      PROVE  WriteAt(f, Len(f), chunk)[i] = (f \o chunk)[i]
  <2>1. (f \o chunk)[i] = IF i <= Len(f) THEN f[i] ELSE chunk[i - Len(f)]
    BY ConcatProperties
  <2>2. i \in Len(f) + 1 .. n <=> ~(i <= Len(f))
    BY <1>1
  <2>3. QED
    BY <1>3, <2>1, <2>2
<1>8. QED
  BY <1>4, <1>6, <1>7

LEMMA Pieces ==
  ASSUME NEW c \in Content, NEW k \in 0 .. Len(c), NEW j \in 1 .. k + 1
  PROVE  /\ SubSeq(c, j, k) \in Seq(Block)
         /\ Len(SubSeq(c, j, k)) = k - j + 1
<1>1. c \in Seq(Block) /\ Len(c) \in Nat
  BY TransferAssumption, LenProperties
<1>2. \A i \in j .. k : c[i] \in Block
  BY <1>1, ElementOfSeq
<1>3. QED
  BY <1>1, <1>2, SubSeqProperties

(* What a response may carry, whoever sends it.                            *)
Response(r, offset) ==
  \/ r = Refusal
  \/ /\ r.kind = "whole"
     /\ r.body \in Content
     /\ r.upto \in 0 .. Len(r.body)
     /\ r.clean \in BOOLEAN
  \/ /\ r.kind = "rest"
     /\ 0 < offset
     /\ r.body \in Content
     /\ r.upto \in offset .. Len(r.body)
     /\ r.clean \in BOOLEAN

LEMMA ResponsesAre ==
  ASSUME NEW offset \in Nat, NEW r \in Responses(offset)
  PROVE  Response(r, offset)
<1>1. CASE r = Refusal
  BY <1>1 DEF Response
<1>2. CASE \E body \in Content : r \in Answers("whole", body, 0)
  <2>1. PICK body \in Content : r \in Answers("whole", body, 0)
    BY <1>2
  <2>2. PICK k \in 0 .. Len(body), c \in BOOLEAN :
          r = [kind |-> "whole", body |-> body, upto |-> k, clean |-> c]
    BY <2>1 DEF Answers
  <2>3. QED
    BY <2>2 DEF Response
<1>3. CASE \E body \in Content : 0 < offset /\ r \in Answers("rest", body, offset)
  <2>1. PICK body \in Content : 0 < offset /\ r \in Answers("rest", body, offset)
    BY <1>3
  <2>2. PICK k \in offset .. Len(body), c \in BOOLEAN :
          r = [kind |-> "rest", body |-> body, upto |-> k, clean |-> c]
    BY <2>1 DEF Answers
  <2>3. QED
    BY <2>1, <2>2 DEF Response
<1>4. r \in Wholes => \E body \in Content : r \in Answers("whole", body, 0)
  BY DEF Wholes
<1>5. r \in Rests(offset)
        => \E body \in Content : 0 < offset /\ r \in Answers("rest", body, offset)
  <2> DEFINE longer == {b \in Content : 0 < offset /\ offset < Len(b)}
  <2>1. r \in UNION {Answers("rest", body, offset) : body \in longer}
          => \E body \in longer : r \in Answers("rest", body, offset)
    <3> HIDE DEF longer
    <3> QED OBVIOUS
  <2>2. QED
    BY <2>1 DEF Rests
<1>6. QED
  BY <1>1, <1>2, <1>3, <1>4, <1>5 DEF Responses

LEMMA HonestResponsesAre ==
  ASSUME NEW offset \in Nat, NEW blob \in Content, NEW r \in HonestResponses(blob, offset)
  PROVE  /\ Response(r, offset)
         /\ r.body = blob
         /\ r.upto \in offset + 1 .. Len(blob)
         /\ r.clean <=> r.upto = Len(blob)
         /\ r.kind = IF offset = 0 THEN "whole" ELSE "rest"
  BY DEF HonestResponses, Response, Answers

(* The count follows the file through every response.                      *)
LEMMA WrittenCounted ==
  ASSUME NEW f \in Seq(Block), NEW r, Response(r, Len(f))
  PROVE  /\ Written(r, f, Len(f)) \in Seq(Block)
         /\ Len(Written(r, f, Len(f))) = Total(r, Len(f))
         /\ Total(r, Len(f)) \in Nat
<1> DEFINE n == Len(f)
<1>0. n \in Nat
  BY LenProperties
<1>1. CASE r = Refusal
  BY <1>0, <1>1 DEF Refusal, Written, Total, Restarted, Count
<1>2. CASE r.kind = "whole" /\ r.body \in Content /\ r.upto \in 0 .. Len(r.body)
  <2>1. Written(r, f, n) = SubSeq(r.body, 1, r.upto)
    BY <1>2 DEF Written
  <2>2. Total(r, n) = r.upto /\ r.upto \in Nat
    BY <1>0, <1>2, LenProperties, TransferAssumption DEF Total, Restarted, Count
  <2>3. /\ SubSeq(r.body, 1, r.upto) \in Seq(Block)
        /\ Len(SubSeq(r.body, 1, r.upto)) = r.upto - 1 + 1
    BY <1>2, <2>2, Pieces
  <2>4. QED
    BY <2>1, <2>2, <2>3
<1>3. CASE /\ r.kind = "rest"
           /\ 0 < n
           /\ r.body \in Content
           /\ r.upto \in n .. Len(r.body)
  <2> DEFINE chunk == SubSeq(r.body, n + 1, r.upto)
  <2>1. chunk \in Seq(Block) /\ Len(chunk) = r.upto - n
    <3>1. Len(r.body) \in Nat
      BY <1>3, LenProperties, TransferAssumption
    <3>2. r.upto \in 0 .. Len(r.body) /\ n + 1 \in 1 .. r.upto + 1
      BY <1>0, <1>3, <3>1
    <3>3. chunk \in Seq(Block) /\ Len(chunk) = r.upto - (n + 1) + 1
      BY <1>3, <3>2, Pieces
    <3>4. QED
      BY <1>0, <3>2, <3>3
  <2>2. Written(r, f, n) = f \o chunk
    BY <1>3, <2>1, WriteAtEnd DEF Written
  <2>3. Total(r, n) = r.upto /\ r.upto \in Nat
    BY <1>0, <1>3, LenProperties, TransferAssumption DEF Total, Restarted, Count
  <2>4. f \o chunk \in Seq(Block) /\ Len(f \o chunk) = Len(f) + Len(chunk)
    BY <2>1, ConcatProperties
  <2>5. QED
    BY <1>0, <2>1, <2>2, <2>3, <2>4
<1>4. QED
  BY <1>1, <1>2, <1>3 DEF Response

(* The rest of a blob, written behind its beginning, extends it.           *)
LEMMA RestExtends ==
  ASSUME NEW blob \in Content, NEW k \in 0 .. Len(blob), NEW r, k # 0,
         r.kind = "rest", r.body = blob, r.upto \in k .. Len(blob)
  PROVE  /\ Written(r, SubSeq(blob, 1, k), k) = SubSeq(blob, 1, r.upto)
         /\ Total(r, k) = r.upto
<1> DEFINE head == SubSeq(blob, 1, k)
           rest == SubSeq(blob, k + 1, r.upto)
<1>1. blob \in Seq(Block) /\ Len(blob) \in Nat /\ k \in Nat
  BY TransferAssumption, LenProperties
<1>2. head \in Seq(Block) /\ Len(head) = k
  <2>1. head \in Seq(Block) /\ Len(head) = k - 1 + 1
    BY <1>1, Pieces
  <2>2. QED
    BY <1>1, <2>1
<1>3. r.upto \in 0 .. Len(blob) /\ k + 1 \in 1 .. r.upto + 1
  BY <1>1
<1>4. rest \in Seq(Block)
  BY <1>3, Pieces
<1>5. WriteAt(head, k, rest) = head \o rest
  BY <1>2, <1>4, WriteAtEnd
<1>6. head \o rest = SubSeq(blob, 1, r.upto)
  <2>1. /\ 1 \in 1 .. Len(blob) + 1
        /\ k \in 1 - 1 .. Len(blob)
        /\ r.upto \in k .. Len(blob)
    BY <1>1
  <2>2. QED
    BY <1>1, <2>1, ConcatAdjacentSubSeq
<1>7. Written(r, head, k) = WriteAt(head, k, rest)
  BY DEF Written
<1>8. Total(r, k) = r.upto
  BY <1>1 DEF Total, Count, Restarted
<1>9. QED
  BY <1>5, <1>6, <1>7, <1>8

(* A response of an honest registry extends a prefix of the blob.          *)
LEMMA HonestExtends ==
  ASSUME NEW blob \in Content, NEW k \in 0 .. Len(blob),
         NEW r \in HonestResponses(blob, k)
  PROVE  /\ Written(r, SubSeq(blob, 1, k), k) = SubSeq(blob, 1, r.upto)
         /\ Total(r, k) = r.upto
         /\ r.upto \in k + 1 .. Len(blob)
         /\ r.clean <=> r.upto = Len(blob)
         /\ Count(r, k) > 0
<1>1. blob \in Seq(Block) /\ Len(blob) \in Nat /\ k \in Nat
  BY TransferAssumption, LenProperties
<1>2. /\ r.body = blob
      /\ r.upto \in k + 1 .. Len(blob)
      /\ r.clean <=> r.upto = Len(blob)
      /\ r.kind = IF k = 0 THEN "whole" ELSE "rest"
  BY <1>1, HonestResponsesAre
<1>3. Total(r, k) = r.upto /\ Count(r, k) > 0
  BY <1>1, <1>2 DEF Total, Count, Restarted
<1>4. CASE k = 0
  BY <1>1, <1>2, <1>3, <1>4 DEF Written
<1>5. CASE k # 0
  <2>1. r.upto \in k .. Len(blob) /\ r.kind = "rest"
    BY <1>1, <1>2, <1>5
  <2>2. Written(r, SubSeq(blob, 1, k), k) = SubSeq(blob, 1, r.upto)
    BY <1>2, <1>5, <2>1, RestExtends
  <2>3. QED
    BY <1>2, <1>3, <2>2
<1>6. QED
  BY <1>4, <1>5

-----------------------------------------------------------------------------
(* The states fetchBottle can be in.                                       *)

Transferring == {"request", "check", "verify"}

(* What is staged, and for whom.                                           *)
HeldInv ==
  /\ pc \in {"start", "resolve", "http"} \cup Ended => held = {}
  /\ held \subseteq {source}

(* The file and its count; what was verified is the blob asked for.        *)
FileInv ==
  /\ file \in Seq(Block)
  /\ got = Len(file)
  /\ pc \in Transferring => want \in Content
  /\ pc = "verify" => file = want

(* Pieces of one blob are its beginning.                                   *)
PartsInv ==
  \A b \in Content : parts \subseteq {b} => got <= Len(b) /\ file = SubSeq(b, 1, got)

(* What is asked for, and what is returned, is what the manifest describes.*)
OriginInv ==
  /\ pc \in Transferring => want = env.blob[source]
  /\ env.oci /\ result # None => result = env.blob[source]

(* How a result came about.                                                *)
ResultInv ==
  /\ pc \in {"resolve"} \cup Transferring => env.oci
  /\ pc = "http" => ~env.verify /\ ~env.oci
  /\ result # None => /\ pc \in {"accepted", "released"}
                      /\ env.verify => env.oci /\ result \in env.signed

(* Why a dist that can serve the bottle does: every attempt that was cut   *)
(* has moved a block, so that the attempts last as long as the blocks.     *)
ServiceInv ==
  Serviceable =>
    /\ pc \notin {"http", "refused"}
    /\ pc \in Transferring /\ source = "dist" =>
         /\ want = env.blob["dist"]
         /\ got <= Len(want)
         /\ file = SubSeq(want, 1, got)
         /\ pc = "request" => attempt <= got /\ got < Len(want)
         /\ pc # "request" => got = Len(want)

Core == TypeOK /\ HeldInv /\ FileInv /\ ResultInv /\ ServiceInv
IInv == Core /\ PartsInv /\ OriginInv

LEMMA EnvTyped ==
  ASSUME TypeOK
  PROVE  /\ env \in Environment
         /\ \A src \in Source : env.blob[src] \in Content \cup {None}
  BY FetchAssumption DEF TypeOK, Environment

LEMMA InitInv == Init => IInv
<1> SUFFICES ASSUME Init PROVE IInv
  OBVIOUS
<1>1. TypeOK
  BY TransferAssumption DEF Init, TypeOK, Ended, Source, Codecs
<1>2. FileInv
  BY EmptySeq DEF Init, FileInv, Transferring
<1>3. Core
  BY <1>1, <1>2 DEF Init, Core, HeldInv, ResultInv, ServiceInv, Transferring, Ended
<1>4. PartsInv
  <2>1. \A b \in Content : Len(b) \in Nat /\ SubSeq(b, 1, 0) = <<>>
    BY TransferAssumption, LenProperties, SubSeqEmpty
  <2>2. QED
    BY <2>1 DEF Init, PartsInv
<1>5. OriginInv
  BY DEF Init, OriginInv, Transferring
<1>6. QED
  BY <1>3, <1>4, <1>5 DEF IInv

(* Failing leaves nothing staged behind and asks the dist or refuses.      *)
LEMMA FailLeads ==
  ASSUME TypeOK, HeldInv, Fail
  PROVE  /\ held' = {}
         /\ pc' \in {"resolve", "refused"}
         /\ source' \in Source
         /\ pc' = "refused" => source = "dist"
         /\ pc' = "resolve" => source' = "dist"
  BY DEF TypeOK, HeldInv, Fail, Discard, FallThrough, Source

LEMMA OfferedAre ==
  ASSUME TypeOK, FileInv, pc = "request", NEW r \in Offered
  PROVE  Response(r, got)
<1>1. want \in Content /\ got \in Nat
  BY DEF TypeOK, FileInv, Transferring
<1>2. QED
  BY <1>1, ResponsesAre, HonestResponsesAre DEF Offered

(* A response leaves the file and the count in step.                       *)
LEMMA RequestFile ==
  ASSUME TypeOK, FileInv, pc = "request", NEW r \in Offered, Receive(r)
  PROVE  /\ file' \in Seq(Block)
         /\ got' = Len(file')
         /\ got' \in Nat
         /\ want' = want
  BY OfferedAre, WrittenCounted DEF Receive, FileInv

(* The file stays the beginning of the blob that its pieces are of.        *)
LEMMA RequestParts ==
  ASSUME TypeOK, FileInv, PartsInv, pc = "request", NEW r \in Offered, Receive(r)
  PROVE  PartsInv' /\ parts' \subseteq Content
<1>1. Response(r, got) /\ got \in Nat /\ parts \subseteq Content
  BY OfferedAre DEF TypeOK
<1>2. /\ file' = Written(r, file, got)
      /\ got' = Total(r, got)
      /\ parts' = Origins(r)
  BY DEF Receive
<1>3. CASE r = Refusal
  <2>1. file' = file /\ got' = got /\ parts' = parts
    BY <1>1, <1>2, <1>3 DEF Refusal, Written, Total, Restarted, Count, Origins
  <2>2. QED
    BY <1>1, <2>1 DEF PartsInv
<1>4. CASE r.kind = "whole" /\ r.body \in Content /\ r.upto \in 0 .. Len(r.body)
  <2>1. Len(r.body) \in Nat
    BY <1>4, TransferAssumption, LenProperties
  <2>2. file' = SubSeq(r.body, 1, r.upto) /\ parts' = {r.body}
    BY <1>2, <1>4 DEF Written, Origins
  <2>3. got' = r.upto
    BY <1>1, <1>2, <1>4, <2>1 DEF Total, Restarted, Count
  <2>4. QED
    BY <1>4, <2>1, <2>2, <2>3 DEF PartsInv
<1>5. CASE /\ r.kind = "rest" /\ 0 < got
           /\ r.body \in Content
           /\ r.upto \in got .. Len(r.body)
  <2>1. parts' = parts \cup {r.body}
    BY <1>2, <1>5 DEF Origins
  <2>2. ASSUME NEW b \in Content, parts' \subseteq {b}
        PROVE  got' <= Len(b) /\ file' = SubSeq(b, 1, got')
    <3>1. r.body = b /\ parts \subseteq {b} /\ Len(b) \in Nat
      BY <2>1, <2>2, TransferAssumption, LenProperties
    <3>2. got <= Len(b) /\ file = SubSeq(b, 1, got)
      BY <3>1 DEF PartsInv
    <3>3. got \in 0 .. Len(b) /\ got # 0 /\ r.upto \in got .. Len(b)
      BY <1>1, <1>5, <3>1, <3>2
    <3>4. Written(r, file, got) = SubSeq(b, 1, r.upto) /\ Total(r, got) = r.upto
      BY <1>5, <3>1, <3>2, <3>3, RestExtends
    <3>5. QED
      BY <1>2, <3>1, <3>3, <3>4
  <2>3. QED
    BY <1>1, <1>5, <2>1, <2>2 DEF PartsInv
<1>6. QED
  BY <1>1, <1>3, <1>4, <1>5 DEF Response

(* A response of a serviceable dist moves at least one block of the        *)
(* bottle; if it was cut, the transfer is resumed.                         *)
LEMMA RequestServed ==
  ASSUME IInv, pc = "request", Serviceable, source = "dist",
         NEW r \in Offered, Receive(r)
  PROVE  /\ file' = SubSeq(want, 1, got')
         /\ got' \in got + 1 .. Len(want)
         /\ got' # Len(want) => Resumes(r, got) /\ attempt + 1 <= got'
         /\ got' = Len(want) => ~Resumes(r, got)
         /\ ~GivesUp(r, got)
<1>1. /\ want \in Content
      /\ want = env.blob["dist"]
      /\ got \in Nat
      /\ attempt \in Nat
      /\ attempt <= got
      /\ got < Len(want)
      /\ file = SubSeq(want, 1, got)
      /\ Len(want) \in 1 .. Retries + 1
  BY DEF IInv, Core, TypeOK, FileInv, ServiceInv, Serviceable, Transferring
<1>2. r \in HonestResponses(want, got)
  BY DEF Offered, Serviceable
<1>3. got \in 0 .. Len(want)
  BY <1>1
<1>4. /\ Written(r, SubSeq(want, 1, got), got) = SubSeq(want, 1, r.upto)
      /\ Total(r, got) = r.upto
      /\ r.upto \in got + 1 .. Len(want)
      /\ r.clean <=> r.upto = Len(want)
      /\ Count(r, got) > 0
  BY <1>1, <1>2, <1>3, HonestExtends
<1>5. file' = SubSeq(want, 1, got') /\ got' = r.upto
  BY <1>1, <1>4 DEF Receive
<1>6. ~Fruitless(r, got)
  BY <1>4 DEF Fruitless
<1>7. r.upto # Len(want) => attempt < Retries
  BY <1>1, <1>4, TransferAssumption
<1>8. QED
  BY <1>1, <1>4, <1>5, <1>6, <1>7 DEF Resumes, GivesUp

LEMMA NextCore ==
  ASSUME IInv, [Next]_vars
  PROVE  Core'
<1> USE DEF IInv, Core
<1>0. env' = env
  BY DEF Next, vars, transfer, Start, Resolve, ResolveFails, Request, Check,
     Accept, Reject, HttpFound, HttpMissing, HttpFails, Release
<1>1. CASE UNCHANGED vars
  BY <1>1 DEF vars, transfer, TypeOK, HeldInv, FileInv, ResultInv, ServiceInv,
     Serviceable, Transferring
<1>2. CASE Start
  BY <1>2 DEF Start, transfer, TypeOK, HeldInv, FileInv, ResultInv, ServiceInv,
     Serviceable, Transferring, Source, Ended
<1>3. CASE Resolve
  <2>0. env.blob[source] \in Content
    BY <1>3, EnvTyped DEF Resolve, TypeOK
  <2>1. TypeOK'
    <3>1. want' \in Content /\ got' \in Nat /\ attempt' \in 0 .. Retries
      BY <1>3, <2>0, TransferAssumption DEF Resolve, Open
    <3>0. parts' \subseteq Content
      BY <1>3 DEF Resolve, Open
    <3>2. pc' = "request" /\ held' \subseteq Source /\ source' \in Source
      BY <1>3 DEF Resolve, TypeOK
    <3>3. QED
      BY <1>3, <3>0, <3>1, <3>2 DEF Resolve, TypeOK
  <2>2. HeldInv'
    BY <1>3 DEF Resolve, HeldInv, Ended
  <2>3. FileInv'
    BY <1>3, <2>0, EmptySeq DEF Resolve, Open, FileInv, Transferring
  <2>4. ResultInv'
    BY <1>3 DEF Resolve, ResultInv, Transferring
  <2>5. ServiceInv'
    <3> SUFFICES ASSUME Serviceable', source' = "dist"
                 PROVE  /\ want' = env.blob["dist"]
                        /\ got' = 0 /\ attempt' = 0
                        /\ file' = SubSeq(want', 1, got')
                        /\ 0 < Len(want')
      BY <1>0, <1>3 DEF ServiceInv, Serviceable, Resolve, Transferring
    <3>1. want' = env.blob["dist"] /\ got' = 0 /\ attempt' = 0 /\ file' = <<>>
      BY <1>3 DEF Resolve, Open
    <3>2. SubSeq(want', 1, 0) = <<>>
      BY SubSeqEmpty
    <3>3. QED
      BY <1>0, <3>1, <3>2, TransferAssumption DEF Serviceable
  <2>6. QED
    BY <2>1, <2>2, <2>3, <2>4, <2>5
<1>4. CASE ResolveFails
  <2>1. /\ held' = {}
        /\ pc' \in {"resolve", "refused"}
        /\ source' \in Source
        /\ pc' = "refused" => source = "dist"
    BY <1>4, FailLeads DEF ResolveFails
  <2>2. TypeOK' /\ HeldInv' /\ FileInv' /\ ResultInv'
    BY <1>4, <2>1 DEF ResolveFails, transfer, TypeOK, HeldInv, FileInv, ResultInv,
       Transferring, Ended
  <2>3. ServiceInv'
    BY <1>0, <1>4, <2>1 DEF ResolveFails, ServiceInv, Serviceable, Transferring
  <2>4. QED
    BY <2>2, <2>3
<1>5. CASE Request
  <2>0. PICK r \in Offered :
          /\ Receive(r)
          /\ \/ /\ Resumes(r, got)
                /\ attempt' = NextAttempt(r, got)
                /\ UNCHANGED <<pc, source, held>>
             \/ GivesUp(r, got) /\ Fail /\ UNCHANGED attempt
             \/ /\ ~Resumes(r, got) /\ ~GivesUp(r, got)
                /\ pc' = "check"
                /\ UNCHANGED <<attempt, source, held>>
    BY <1>5 DEF Request
  <2>1. pc = "request" /\ UNCHANGED <<codec, result, env>>
    BY <1>5 DEF Request
  <2>2. /\ file' \in Seq(Block)
        /\ got' = Len(file')
        /\ got' \in Nat
        /\ want' = want
        /\ parts' \subseteq Content
    BY <2>0, <2>1, RequestFile, RequestParts
  <2>3. want \in Content
    BY <2>1 DEF FileInv, Transferring
  <2>4. CASE Resumes(r, got) /\ UNCHANGED <<pc, source, held>>
               /\ attempt' = NextAttempt(r, got)
    <3>1. TypeOK' /\ HeldInv' /\ FileInv' /\ ResultInv'
      BY <2>1, <2>2, <2>3, <2>4, TransferAssumption
      DEF Resumes, NextAttempt, TypeOK, HeldInv, FileInv, ResultInv, Transferring
    <3>2. ServiceInv'
      <4> SUFFICES ASSUME Serviceable', source = "dist"
                   PROVE  /\ want' = env.blob["dist"]
                          /\ got' < Len(want')
                          /\ file' = SubSeq(want', 1, got')
                          /\ attempt' <= got'
        BY <1>0, <2>1, <2>2, <2>4 DEF ServiceInv, Serviceable, Transferring, TypeOK
      <4>1. Serviceable
        BY <1>0 DEF Serviceable
      <4>2. /\ file' = SubSeq(want, 1, got')
            /\ got' \in got + 1 .. Len(want)
            /\ got' # Len(want) => attempt + 1 <= got'
            /\ got' # Len(want)
        BY <2>0, <2>1, <2>4, <4>1, RequestServed
      <4>3. want = env.blob["dist"] /\ Len(want) \in Nat /\ got \in Nat
        BY <2>1, <2>3, <4>1, TransferAssumption, LenProperties
        DEF ServiceInv, Transferring, TypeOK
      <4>4. QED
        BY <2>2, <2>4, <4>2, <4>3 DEF NextAttempt
    <3>3. QED
      BY <3>1, <3>2
  <2>5. CASE GivesUp(r, got) /\ Fail /\ UNCHANGED attempt
    <3>1. /\ held' = {}
          /\ pc' \in {"resolve", "refused"}
          /\ source' \in Source
          /\ pc' = "refused" => source = "dist"
      BY <2>5, FailLeads
    <3>2. TypeOK' /\ HeldInv' /\ FileInv' /\ ResultInv'
      BY <2>1, <2>2, <2>3, <2>5, <3>1
      DEF TypeOK, HeldInv, FileInv, ResultInv, Transferring, Ended
    <3>3. Serviceable => source # "dist"
      BY <2>0, <2>1, <2>5, RequestServed
    <3>4. ServiceInv'
      BY <1>0, <3>1, <3>3 DEF ServiceInv, Serviceable, Transferring
    <3>5. QED
      BY <3>2, <3>4
  <2>6. CASE /\ ~Resumes(r, got) /\ ~GivesUp(r, got)
             /\ pc' = "check"
             /\ UNCHANGED <<attempt, source, held>>
    <3>1. TypeOK' /\ HeldInv' /\ FileInv' /\ ResultInv'
      BY <2>1, <2>2, <2>3, <2>6
      DEF TypeOK, HeldInv, FileInv, ResultInv, Transferring, Ended
    <3>2. ServiceInv'
      <4> SUFFICES ASSUME Serviceable', source = "dist"
                   PROVE  /\ want' = env.blob["dist"]
                          /\ got' = Len(want')
                          /\ file' = SubSeq(want', 1, got')
        BY <1>0, <2>2, <2>6 DEF ServiceInv, Serviceable, Transferring
      <4>1. Serviceable
        BY <1>0 DEF Serviceable
      <4>2. /\ file' = SubSeq(want, 1, got')
            /\ got' # Len(want) => Resumes(r, got)
        BY <2>0, <2>1, <4>1, RequestServed
      <4>3. want = env.blob["dist"]
        BY <2>1, <4>1 DEF ServiceInv, Transferring
      <4>4. QED
        BY <2>2, <2>6, <4>2, <4>3
    <3>3. QED
      BY <3>1, <3>2
  <2>7. QED
    BY <2>0, <2>4, <2>5, <2>6
<1>6. CASE Check
  <2>1. CASE Intact /\ pc' = "verify" /\ UNCHANGED <<source, held>>
    <3>1. TypeOK' /\ HeldInv' /\ FileInv' /\ ResultInv'
      BY <1>6, <2>1
      DEF Check, Intact, transfer, TypeOK, HeldInv, FileInv, ResultInv, Transferring, Ended
    <3>2. ServiceInv'
      BY <1>0, <1>6, <2>1 DEF Check, transfer, ServiceInv, Serviceable, Transferring
    <3>3. QED
      BY <3>1, <3>2
  <2>2. CASE ~Intact /\ Fail
    <3>1. /\ held' = {}
          /\ pc' \in {"resolve", "refused"}
          /\ source' \in Source
          /\ pc' = "refused" => source = "dist"
      BY <2>2, FailLeads
    <3>2. TypeOK' /\ HeldInv' /\ FileInv' /\ ResultInv'
      BY <1>6, <2>2, <3>1
      DEF Check, transfer, TypeOK, HeldInv, FileInv, ResultInv, Transferring, Ended
    <3>3. Serviceable => source # "dist"
      <4> SUFFICES ASSUME Serviceable, source = "dist" PROVE Intact
        BY <2>2
      <4>1. /\ want \in Content
            /\ got = Len(want)
            /\ file = SubSeq(want, 1, got)
        BY <1>6 DEF Check, ServiceInv, FileInv, Transferring
      <4>2. SubSeq(want, 1, Len(want)) = want
        BY <4>1, TransferAssumption, SubSeqFull
      <4>3. QED
        BY <4>1, <4>2 DEF Intact
    <3>4. ServiceInv'
      BY <1>0, <1>6, <3>1, <3>3 DEF Check, ServiceInv, Serviceable, Transferring
    <3>5. QED
      BY <3>2, <3>4
  <2>3. QED
    BY <1>6, <2>1, <2>2 DEF Check
<1>7. CASE Accept
  <2>1. file \in Content
    BY <1>7 DEF Accept, FileInv, Transferring
  <2>2. TypeOK' /\ HeldInv' /\ FileInv'
    BY <1>7, <2>1 DEF Accept, transfer, TypeOK, HeldInv, FileInv, Transferring, Ended
  <2>3. ResultInv'
    BY <1>0, <1>7 DEF Accept, Verified, ResultInv, Transferring
  <2>4. ServiceInv'
    BY <1>0, <1>7 DEF Accept, ServiceInv, Serviceable, Transferring
  <2>5. QED
    BY <2>2, <2>3, <2>4
<1>8. CASE Reject
  <2>1. /\ held' = {}
        /\ pc' \in {"resolve", "refused"}
        /\ source' \in Source
        /\ pc' = "refused" => source = "dist"
    BY <1>8, FailLeads DEF Reject
  <2>2. TypeOK' /\ HeldInv' /\ FileInv' /\ ResultInv'
    BY <1>8, <2>1 DEF Reject, transfer, TypeOK, HeldInv, FileInv, ResultInv,
       Transferring, Ended
  <2>3. Serviceable => source # "dist"
    <3> SUFFICES ASSUME Serviceable, source = "dist" PROVE Verified
      BY <1>8 DEF Reject, Serviceable
    <3>1. file = env.blob["dist"]
      BY <1>8 DEF Reject, FileInv, ServiceInv, Transferring
    <3>2. QED
      BY <1>8, <3>1 DEF Reject, Serviceable, Verified
  <2>4. ServiceInv'
    BY <1>0, <1>8, <2>1, <2>3 DEF Reject, ServiceInv, Serviceable, Transferring
  <2>5. QED
    BY <2>2, <2>4
<1>9. CASE HttpFound \/ HttpMissing \/ HttpFails
  BY <1>0, <1>9 DEF HttpFound, HttpMissing, HttpFails, transfer, TypeOK, HeldInv, FileInv,
     ResultInv, ServiceInv, Serviceable, Transferring, Ended, Codecs
<1>10. CASE Release
  BY <1>0, <1>10 DEF Release, transfer, TypeOK, HeldInv, FileInv, ResultInv,
     ServiceInv, Serviceable, Transferring, Ended
<1>11. QED
  BY <1>1, <1>2, <1>3, <1>4, <1>5, <1>6, <1>7, <1>8, <1>9, <1>10 DEF Next

(* Only a response changes what the file is put together from.             *)
LEMMA NextParts ==
  ASSUME IInv, [Next]_vars
  PROVE  PartsInv'
<1>0. TypeOK /\ FileInv /\ PartsInv
  BY DEF IInv, Core
<1>1. CASE Resolve
  <2>1. got' = 0 /\ file' = <<>>
    BY <1>1 DEF Resolve, Open
  <2>2. \A b \in Content : Len(b) \in Nat /\ SubSeq(b, 1, 0) = <<>>
    BY TransferAssumption, LenProperties, SubSeqEmpty
  <2>3. QED
    BY <2>1, <2>2 DEF PartsInv
<1>2. CASE Request
  <2>1. PICK r \in Offered : Receive(r)
    BY <1>2 DEF Request
  <2>2. QED
    BY <1>0, <1>2, <2>1, RequestParts DEF Request
<1>3. CASE UNCHANGED <<file, got, parts>>
  BY <1>0, <1>3 DEF PartsInv
<1>4. QED
  BY <1>1, <1>2, <1>3 DEF Next, vars, transfer, Start, ResolveFails, Check, Accept, Reject,
     HttpFound, HttpMissing, HttpFails, Release

(* Another registry is asked only before its own manifest is looked up.    *)
LEMMA NextOrigin ==
  ASSUME IInv, [Next]_vars
  PROVE  OriginInv'
<1>0. /\ OriginInv
      /\ pc = "verify" => file = want
      /\ result # None => pc \in {"accepted", "released"}
      /\ pc = "http" => ~env.oci
  BY DEF IInv, Core, FileInv, ResultInv
<1>1. CASE UNCHANGED vars
  BY <1>0, <1>1 DEF vars, transfer, OriginInv, Transferring
<1>2. CASE Start \/ Resolve
  BY <1>0, <1>2 DEF Start, Resolve, Open, transfer, OriginInv, Transferring
<1>3. CASE ResolveFails \/ Check \/ Reject
  BY <1>0, <1>3 DEF ResolveFails, Check, Reject, Fail, transfer, OriginInv, Transferring
<1>4. CASE Request
  BY <1>0, <1>4 DEF Request, Receive, Fail, OriginInv, Transferring
<1>5. CASE Accept
  BY <1>0, <1>5 DEF Accept, transfer, OriginInv, Transferring
<1>6. CASE HttpFound \/ HttpMissing \/ HttpFails
  BY <1>0, <1>6 DEF HttpFound, HttpMissing, HttpFails, transfer, OriginInv, Transferring
<1>7. CASE Release
  BY <1>0, <1>7 DEF Release, transfer, OriginInv, Transferring
<1>8. QED
  BY <1>1, <1>2, <1>3, <1>4, <1>5, <1>6, <1>7 DEF Next

LEMMA NextInv ==
  ASSUME IInv, [Next]_vars
  PROVE  IInv'
  BY NextCore, NextParts, NextOrigin DEF IInv

LEMMA Invariance == Spec => []IInv
  BY InitInv, NextInv, PTL DEF Spec

-----------------------------------------------------------------------------
(* The theorems.                                                           *)

(* Every state is well typed; the attempts stay within blobRetries.        *)
THEOREM TypeCorrect == Spec => []TypeOK
<1>1. IInv => TypeOK
  BY DEF IInv, Core
<1>2. QED
  BY <1>1, Invariance, PTL

(* The next Range request always continues where the file ends.            *)
THEOREM ResumesAtEndHolds == Spec => []ResumesAtEnd
<1>1. IInv => ResumesAtEnd
  BY DEF IInv, Core, FileInv, ResumesAtEnd
<1>2. QED
  BY <1>1, Invariance, PTL

(* Pieces of one blob are its beginning, however often the transfer was    *)
(* cut, resumed and restarted, whatever the registry answers; and what is  *)
(* returned is what the manifest of its registry describes.                *)
THEOREM PiecesBelongTogetherHolds == Spec => []PiecesBelongTogether
<1>1. IInv => PiecesBelongTogether
  BY DEF IInv, PartsInv, OriginInv, PiecesBelongTogether
<1>2. QED
  BY <1>1, Invariance, PTL

(* With verification on, only what the dist signed reaches the caller.     *)
THEOREM OnlySignedAcceptedHolds == Spec => []OnlySignedAccepted
<1>1. IInv => OnlySignedAccepted
  BY DEF IInv, Core, ResultInv, OnlySignedAccepted
<1>2. QED
  BY <1>1, Invariance, PTL

(* A dist that can serve the bottle is never refused because of the cache  *)
(* or of cuts, for bottles of up to Retries + 1 cuttable blocks.           *)
THEOREM ServedWhenServiceableHolds == Spec => []ServedWhenServiceable
<1>1. IInv => ServedWhenServiceable
  BY DEF IInv, Core, ServiceInv, ServedWhenServiceable
<1>2. QED
  BY <1>1, Invariance, PTL

(* Never two staged files, and none that nobody is going to remove.        *)
THEOREM StagedOnceHolds == Spec => []StagedOnce
<1>1. IInv => StagedOnce
  BY DEF IInv, Core, HeldInv, StagedOnce
<1>2. QED
  BY <1>1, Invariance, PTL
=============================================================================
