-------------------------- MODULE AttachmentUpload --------------------------
(* AttachmentManager (pandamux-server/src/attachment.rs) for one attachment  *)
(* of one thread, and its senders: the desktop uploads a pasted image once   *)
(* (upload_attachment_chunked), a hub copies a stored attachment to a node   *)
(* before every remote turn that names it (sync_attachment_to_environment),  *)
(* so two copies of the same chunks may interleave.                          *)
(*                                                                           *)
(* A chunk is its index and one unit long; the size cap of the mime type is  *)
(* UpCap units.  Left out: names, mime types and base64.                     *)
EXTENDS Naturals, FiniteSets

CONSTANTS
  UpSenders,   \* the uploads of this attachment, all of the same bytes
  UpMaxSize,   \* bound: chunks the bytes fill
  UpCap,       \* MAX_IMAGE_SIZE_BYTES or MAX_FILE_SIZE_BYTES, in chunks
  UpMaxFaults  \* bound: file and store calls that fail, and crashes

ASSUME UpAssumption == UpMaxSize \in Nat /\ UpCap \in Nat /\ UpMaxFaults \in Nat

VARIABLES
  upSize,     \* chunks of data; 0 are sent as one empty chunk
  upNext,     \* per sender: the next index, or Cut when its connection is lost
  upFly,      \* the entry of in_flight: chunks received and accumulated_bytes
  upFile,     \* the file on disk: its chunks in order, or NoFile
  upRecord,   \* whether the attachments table has the record
  upTorn,     \* a write of the file failed after it was last written
  upFaults    \* faults so far

upVars == <<upSize, upNext, upFly, upFile, upRecord, upTorn, upFaults>>

NoUpload == [chunks |-> {}, bytes |-> 0]
Cut == UpMaxSize + 2
NoFile == <<Cut>>
UpTotal == IF upSize = 0 THEN 1 ELSE upSize
ChunkLen == IF upSize = 0 THEN 0 ELSE 1
WholeFile == [i \in 1..UpTotal |-> i - 1]

UpComplete(fly) == Cardinality(fly.chunks) = UpTotal
(* Of a complete entry every index is looked up, and the size is checked    *)
(* once more; otherwise it is an error and the entry stays.                  *)
UpAssembles(fly) == 0..(UpTotal - 1) \subseteq fly.chunks /\ upSize <= UpCap
UpMayFail == upFaults < UpMaxFaults

UpInit ==
  /\ upSize = UpMaxSize
  /\ upNext = [s \in UpSenders |-> 0]
  /\ upFly = NoUpload /\ upFile = NoFile /\ upRecord = FALSE /\ upTorn = FALSE
  /\ upFaults = 0

(* The bytes to send are settled before the first chunk.                     *)
UpChooseSize ==
  /\ upFly = NoUpload /\ upFile = NoFile /\ upFaults = 0 /\ upSize > 0
  /\ \A s \in UpSenders : upNext[s] = 0
  /\ upSize' = upSize - 1
  /\ UNCHANGED <<upNext, upFly, upFile, upRecord, upTorn, upFaults>>

\* Mutant of UpReceive: the bytes of a chunk it has are added again.
UpReceiveAgain(i) ==
  [chunks |-> IF upFly.bytes + ChunkLen > UpCap THEN upFly.chunks ELSE upFly.chunks \cup {i},
   bytes |-> upFly.bytes + ChunkLen]

(* The entry after chunk i: a chunk it has is ignored; the bytes of a new    *)
(* one are added before the cap is checked and stay added when it is refused.*)
UpReceive(i) ==
  IF i \in upFly.chunks THEN upFly
  ELSE [chunks |-> IF upFly.bytes + ChunkLen > UpCap THEN upFly.chunks
                   ELSE upFly.chunks \cup {i},
        bytes |-> upFly.bytes + ChunkLen]

UpRefused(i) == i \notin upFly.chunks /\ upFly.bytes + ChunkLen > UpCap

(* put_chunk, in one step under the in_flight lock.  The last chunk writes   *)
(* the file and then the record; when either fails the entry stays, complete,*)
(* and the next copy of any chunk tries again.  A failed write may leave the *)
(* file torn.                                                                *)
UpKeep(fly) == upFly' = fly /\ UNCHANGED <<upFile, upRecord, upTorn, upFaults>>

UpStoreFile ==
  /\ upFly' = NoUpload /\ upFile' = WholeFile /\ upRecord' = TRUE /\ upTorn' = FALSE
  /\ UNCHANGED upFaults

\* Mutant of UpStoreFails: the record is saved before the file is written.
UpStoreFailsRecordFirst(fly) ==
  /\ UpMayFail /\ upFaults' = upFaults + 1
  /\ upFly' = fly
  /\ upRecord' = TRUE /\ UNCHANGED <<upFile, upTorn>>

UpStoreFails(fly) ==
  /\ UpMayFail /\ upFaults' = upFaults + 1
  /\ upFly' = fly
  /\ \/ upFile' = WholeFile /\ upTorn' = FALSE                    \* save_attachment fails
     \/ upFile' \in {upFile, << >>} /\ upTorn' = TRUE             \* fs::write fails
  /\ UNCHANGED upRecord

PutChunk(i) ==
  LET fly == UpReceive(i)
  IN IF UpRefused(i) \/ ~UpComplete(fly) \/ ~UpAssembles(fly) THEN UpKeep(fly)
     ELSE UpStoreFile \/ UpStoreFails(fly)

(* A sender puts its chunks in order and takes no notice of the answers.     *)
UpSend(s) ==
  /\ upNext[s] \in 0..(UpTotal - 1)
  /\ PutChunk(upNext[s])
  /\ upNext' = [upNext EXCEPT ![s] = @ + 1]
  /\ UNCHANGED upSize

(* Its connection is lost: the desktop's task waits for ever, the hub's      *)
(* forward returns an error and the copy is given up.                        *)
UpCut(s) ==
  /\ upNext[s] \in 0..(UpTotal - 1) /\ UpMayFail
  /\ upNext' = [upNext EXCEPT ![s] = Cut]
  /\ upFaults' = upFaults + 1
  /\ UNCHANGED <<upSize, upFly, upFile, upRecord, upTorn>>

(* The server dies: in_flight is memory only.  It may die between the file   *)
(* and the record, which UpStoreFails and this step make together.           *)
UpCrash ==
  /\ UpMayFail /\ upFaults' = upFaults + 1
  /\ upFly' = NoUpload
  /\ UNCHANGED <<upSize, upNext, upFile, upRecord, upTorn>>

UpNext == UpChooseSize \/ UpCrash \/ \E s \in UpSenders : UpSend(s) \/ UpCut(s)

UpSpec == UpInit /\ [][UpNext]_upVars

-----------------------------------------------------------------------------
(* What uploads promise. *)

(* A recorded attachment has its whole file, chunks in order and within the  *)
(* cap, however the copies interleave, unless a later copy failed to rewrite *)
(* it.                                                                       *)
UpRecordIsWhole == upRecord /\ ~upTorn => upFile = WholeFile /\ upSize <= UpCap

(* Bytes within the cap end up stored when nothing fails, although neither   *)
(* sender looks at an answer.                                                *)
UpEventuallyStored == (upSize <= UpCap) ~> (upRecord \/ upFaults > 0)
=============================================================================
