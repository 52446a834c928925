---------------------------- MODULE BlobTransfer ----------------------------
(***************************************************************************)
(* Moving one blob of a registry into a temporary file (fetchblob.go,      *)
(* blobfile.go, blobfile_disk.go): a bounded number of attempts, each of   *)
(* which asks for what is missing with a Range request and appends what    *)
(* arrives, and a size and a digest check over the assembled file.         *)
(*                                                                         *)
(* A blob is a sequence of blocks and stands for its own digest.  The      *)
(* other end decides what a response carries, and where it is cut; the     *)
(* module that uses this one says what becomes of the temporary file.      *)
(***************************************************************************)
EXTENDS Integers, Sequences

CONSTANTS
  Block,         \* what a blob is made of
  Content,       \* the blobs there are
  None,          \* no blob
  Retries        \* blobRetries

ASSUME TransferAssumption ==
  /\ None \notin Content
  /\ Retries \in Nat
  /\ Content \subseteq Seq(Block)

VARIABLES
  want,     \* the layer the manifest describes: its digest and its size
  file,     \* what the temporary file holds
  got,      \* how many blocks of it fetchBlobFile counts
  parts,    \* the blobs that it is put together from: only the registry
            \* knows them, and nothing here depends on them
  attempt   \* which attempt is under way

Larger(m, n) == IF m < n THEN n ELSE m

Open(blob) ==
  /\ want' = blob
  /\ file' = <<>>
  /\ got' = 0
  /\ parts' = {}
  /\ attempt' = 0

(* Writing at an offset leaves whatever lies behind the chunk in place.    *)
WriteAt(f, offset, chunk) ==
  [i \in 1 .. Larger(Len(f), offset + Len(chunk)) |->
     IF i \in offset + 1 .. offset + Len(chunk) THEN chunk[i - offset] ELSE f[i]]

(* What a response may be, given the offset asked for: a refusal; a whole  *)
(* blob, where no range was asked for or the range was ignored; the rest   *)
(* of a blob.  Its body stops behind block "upto", cleanly or in an error. *)
Refusal == [kind |-> "refusal", body |-> <<>>, upto |-> 0, clean |-> FALSE]

Answers(kind, body, first) ==
  {[kind |-> kind, body |-> body, upto |-> k, clean |-> c] :
     k \in first .. Len(body), c \in BOOLEAN}

Wholes == UNION {Answers("whole", body, 0) : body \in Content}
Rests(offset) ==
  UNION {Answers("rest", body, offset) :
           body \in {b \in Content : 0 < offset /\ offset < Len(b)}}

Responses(offset) == {Refusal} \cup Wholes \cup Rests(offset)

(* The responses of a registry that has the blob, honours ranges, and      *)
(* whose transfers are cut at worst, after at least one block of progress  *)
(* and before the last block.                                              *)
HonestResponses(blob, offset) ==
  {r \in Answers(IF offset = 0 THEN "whole" ELSE "rest", blob, offset + 1) :
     r.clean <=> r.upto = Len(blob)}

(* As it would be if the file were not truncated.                          *)
WrittenOver(r, f, offset) ==
  CASE r.kind = "refusal" -> f
    [] r.kind = "whole" -> WriteAt(f, 0, SubSeq(r.body, 1, r.upto))
    [] r.kind = "rest" -> WriteAt(f, offset, SubSeq(r.body, offset + 1, r.upto))

(* writeBlobFrom: an answer to a request without a range, or one that      *)
(* ignored it, truncates the file first.                                   *)
Written(r, f, offset) ==
  CASE r.kind = "refusal" -> f
    [] r.kind = "whole" -> SubSeq(r.body, 1, r.upto)
    [] r.kind = "rest" -> WriteAt(f, offset, SubSeq(r.body, offset + 1, r.upto))

Count(r, offset) ==
  CASE r.kind = "refusal" -> 0
    [] r.kind = "whole" -> r.upto
    [] r.kind = "rest" -> r.upto - offset

Restarted(r, offset) == r.kind = "whole" /\ offset > 0

TotalAppended(r, offset) == offset + Count(r, offset)
Total(r, offset) ==
  IF Restarted(r, offset) THEN Count(r, offset) ELSE offset + Count(r, offset)

Origins(r) ==
  CASE r.kind = "refusal" -> parts
    [] r.kind = "whole" -> {r.body}
    [] r.kind = "rest" -> parts \cup {r.body}

Receive(r) ==
  /\ file' = Written(r, file, got)
  /\ got' = Total(r, got)
  /\ parts' = Origins(r)
  /\ UNCHANGED want

(* Whether the loop goes on behind a response: the transfer was cut, and   *)
(* it is not the second attempt that moved nothing.                        *)
Fruitless(r, offset) == Count(r, offset) = 0 /\ attempt > 0
Resumes(r, offset) == ~r.clean /\ ~Fruitless(r, offset) /\ attempt < Retries
GivesUp(r, offset) == ~r.clean /\ Fruitless(r, offset)

NextAttemptReset(r, offset) == IF Count(r, offset) > 0 THEN 0 ELSE attempt + 1
NextAttempt(r, offset) == attempt + 1

(* The checks over the assembled file.                                     *)
Intact == /\ Len(want) > 0 => got = Len(want)
          /\ file = want
=============================================================================
