----------------------------- MODULE Artifacts ------------------------------
(***************************************************************************)
(* Artifact contents: the file store and the S3 store (packages/           *)
(* vaulltcore-artifacts local-store.ts, s3-store.ts) and the in-process    *)
(* one the automation layer wires (vaulltcore-automation artifact.ts).     *)
(*                                                                         *)
(* The contents are one owner's: a file or object per digest, next to a    *)
(* sidecar with its metadata, all in the owner's directory.  put looks     *)
(* whether the content is there, writes it if not, and writes the sidecar; *)
(* delete removes one after the other, and the directory if that left it   *)
(* empty.  Nothing ties these steps together: calls interleave, requests   *)
(* and writes fail, processes die, and a file is empty or cut while it is  *)
(* written.                                                                *)
(***************************************************************************)
EXTENDS Integers, FiniteSets

CONSTANTS
  ArtKeys,       \* digests of the owner's contents
  BinaryKeys,    \* those whose content has bytes above 127
  ArtCalls,      \* calls in flight
  MaxArtCalls,   \* bound: calls begun
  MaxArtFaults   \* bound: failed requests and writes, and deaths

ASSUME ArtifactsAssumption == BinaryKeys \subseteq ArtKeys

VARIABLES
  backend,       \* "memory", "local" or "s3"
  content,       \* what is stored of each content
  sidecar,       \* and of its metadata
  ownerDir,      \* the directory is there (files only)
  artCall,
  kept,          \* contents a put has answered for, and nobody has deleted since
  disturbed,     \* contents whose calls overlapped, were cut or failed in a write
  raced,         \* those of them a delete overlapped
  artBegun, artFaults

artVars == <<backend, content, sidecar, ownerDir, artCall, kept, disturbed, raced, artBegun,
             artFaults>>

Stored == {"none", "torn", "whole"}
ArtPc == {"idle", "look", "mkdir", "write", "writing", "meta", "unlook", "unlink",
          "unlinkMeta", "rmdir"}
NoArtCall == [pc |-> "idle", key |-> 0]

ArtifactsTypeOK ==
  /\ backend \in {"memory", "local", "s3"}
  /\ content \in [ArtKeys -> Stored] /\ sidecar \in [ArtKeys -> Stored]
  /\ ownerDir \in BOOLEAN
  /\ \A c \in ArtCalls : artCall[c].pc \in ArtPc
  /\ kept \subseteq ArtKeys /\ raced \subseteq disturbed /\ disturbed \subseteq ArtKeys
  /\ artBegun \in 0..MaxArtCalls /\ artFaults \in 0..MaxArtFaults

ArtifactsInit ==
  /\ backend \in {"memory", "local", "s3"}
  /\ content = [k \in ArtKeys |-> "none"]
  /\ sidecar = [k \in ArtKeys |-> "none"]
  /\ ownerDir = FALSE
  /\ artCall = [c \in ArtCalls |-> NoArtCall]
  /\ kept = {} /\ disturbed = {} /\ raced = {}
  /\ artBegun = 0 /\ artFaults = 0

ArtAt(c, pc) == artCall[c].pc = pc
ArtKey(c) == artCall[c].key
OthersOn(c, k) == {d \in ArtCalls \ {c} : ~ArtAt(d, "idle") /\ ArtKey(d) = k}
Deleting(c) == artCall[c].pc \in {"unlook", "unlink", "unlinkMeta"}
ArtGo(c, pc) == artCall' = [artCall EXCEPT ![c].pc = pc]
ArtFault == artFaults < MaxArtFaults /\ artFaults' = artFaults + 1

(* A call on a content others are working on disturbs it.                  *)
BeginArt(c, k, pc) ==
  /\ ArtAt(c, "idle") /\ artBegun < MaxArtCalls
  /\ artBegun' = artBegun + 1
  /\ artCall' = [artCall EXCEPT ![c] = [pc |-> pc, key |-> k]]
  /\ disturbed' = IF OthersOn(c, k) = {} THEN disturbed ELSE disturbed \cup {k}
  /\ raced' = IF OthersOn(c, k) = {} \/ (pc = "look" /\ \A d \in OthersOn(c, k) : ~Deleting(d))
             THEN raced ELSE raced \cup {k}

(* In memory put is one step, and there is no delete.                      *)
PutInMemory(k) ==
  /\ backend = "memory" /\ artBegun < MaxArtCalls
  /\ artBegun' = artBegun + 1
  /\ content' = [content EXCEPT ![k] = "whole"]
  /\ kept' = kept \cup {k}
  /\ UNCHANGED <<backend, sidecar, ownerDir, artCall, disturbed, raced, artFaults>>

-----------------------------------------------------------------------------
Put(c, k) ==
  /\ backend # "memory" /\ BeginArt(c, k, "look")
  /\ UNCHANGED <<backend, content, sidecar, ownerDir, kept, artFaults>>

(* Mutant: only a content reported missing is uploaded.                    *)
AlreadyStoredUnlessMissing(c, answered) == ~answered \/ content[ArtKey(c)] # "none"

(* existsSync, or HEAD answering 200; a HEAD that fails counts as missing. *)
AlreadyStored(c, answered) == answered /\ content[ArtKey(c)] # "none"

Look(c) ==
  /\ ArtAt(c, "look")
  /\ \E answered \in BOOLEAN :
       /\ IF answered THEN UNCHANGED artFaults ELSE backend = "s3" /\ ArtFault
       /\ ArtGo(c, IF AlreadyStored(c, answered) THEN "meta"
                   ELSE IF backend = "local" THEN "mkdir" ELSE "write")
  /\ UNCHANGED <<backend, content, sidecar, ownerDir, kept, disturbed, raced, artBegun>>

MakeDir(c) ==
  /\ ArtAt(c, "mkdir")
  /\ ownerDir' = TRUE
  /\ ArtGo(c, "write")
  /\ UNCHANGED <<backend, content, sidecar, kept, disturbed, raced, artBegun, artFaults>>

(* writeFile empties the file and then fills it.                           *)
OpenFile(c) ==
  /\ ArtAt(c, "write") /\ backend = "local" /\ ownerDir
  /\ content' = [content EXCEPT ![ArtKey(c)] = "torn"]
  /\ ArtGo(c, "writing")
  /\ UNCHANGED <<backend, sidecar, ownerDir, kept, disturbed, raced, artBegun, artFaults>>

(* The signature covers a hash of the content read as text: for bytes      *)
(* above 127 it is the hash of something else, and the service refuses.    *)
SignatureMatches(k) == k \notin BinaryKeys

(* The bytes are in place: the file is complete, or the object appears at  *)
(* once.  A file unlinked since it was opened is filled out of sight.      *)
StoreBytes(c) ==
  LET k == ArtKey(c) IN
  /\ ArtAt(c, "writing") \/ (ArtAt(c, "write") /\ backend = "s3" /\ SignatureMatches(k))
  /\ \/ /\ backend = "local" => content[k] # "none"
        /\ content' = [content EXCEPT ![k] = "whole"]
     \/ backend = "local" /\ k \in raced /\ UNCHANGED content
  /\ ArtGo(c, "meta")
  /\ UNCHANGED <<backend, sidecar, ownerDir, kept, disturbed, raced, artBegun, artFaults>>

(* put answers once the sidecar is written.                                *)
PutMeta(c) ==
  LET k == ArtKey(c) IN
  /\ ArtAt(c, "meta") /\ (backend = "local" => ownerDir)
  /\ sidecar' = [sidecar EXCEPT ![k] = "whole"]
  /\ kept' = IF \E d \in OthersOn(c, k) : Deleting(d) THEN kept ELSE kept \cup {k}
  /\ artCall' = [artCall EXCEPT ![c] = NoArtCall]
  /\ UNCHANGED <<backend, content, ownerDir, disturbed, raced, artBegun, artFaults>>

(* A PUT that cannot but be refused, a file whose directory is gone.       *)
CannotPut(c) ==
  \/ backend = "s3" /\ ArtAt(c, "write") /\ ~SignatureMatches(ArtKey(c))
  \/ backend = "local" /\ ~ownerDir /\ (ArtAt(c, "write") \/ ArtAt(c, "meta"))

(* A PUT is refused or fails, or mkdir or writeFile rejects: put throws,   *)
(* and leaves what it has stored: of a file it was writing, a piece.       *)
PutFails(c) ==
  LET k == ArtKey(c) IN
  /\ artCall[c].pc \in {"mkdir", "write", "writing", "meta"}
  /\ IF CannotPut(c) THEN UNCHANGED artFaults ELSE ArtFault
  /\ disturbed' = IF ArtAt(c, "writing") THEN disturbed \cup {k} ELSE disturbed
  /\ \/ UNCHANGED sidecar
     \/ /\ ArtAt(c, "meta") /\ backend = "local" /\ ~CannotPut(c)
        /\ sidecar' = [sidecar EXCEPT ![k] = "torn"]
  /\ artCall' = [artCall EXCEPT ![c] = NoArtCall]
  /\ UNCHANGED <<backend, content, ownerDir, kept, raced, artBegun>>

-----------------------------------------------------------------------------
Delete(c, k) ==
  /\ backend # "memory" /\ BeginArt(c, k, "unlook")
  /\ kept' = kept \ {k}
  /\ UNCHANGED <<backend, content, sidecar, ownerDir, artFaults>>

(* Whether it was there is only for the answer.                            *)
DeleteLooks(c) ==
  /\ ArtAt(c, "unlook") /\ ArtGo(c, "unlink")
  /\ UNCHANGED <<backend, content, sidecar, ownerDir, kept, disturbed, raced, artBegun, artFaults>>

(* Errors of either removal are swallowed.                                 *)
Unlink(c) ==
  LET k == ArtKey(c) IN
  /\ ArtAt(c, "unlink")
  /\ \/ content' = [content EXCEPT ![k] = "none"] /\ UNCHANGED artFaults
     \/ UNCHANGED content /\ ArtFault
  /\ ArtGo(c, "unlinkMeta")
  /\ UNCHANGED <<backend, sidecar, ownerDir, kept, disturbed, raced, artBegun>>

UnlinkMeta(c) ==
  LET k == ArtKey(c) IN
  /\ ArtAt(c, "unlinkMeta")
  /\ \/ sidecar' = [sidecar EXCEPT ![k] = "none"] /\ UNCHANGED artFaults
     \/ UNCHANGED sidecar /\ ArtFault
  /\ artCall' = [artCall EXCEPT ![c] = IF backend = "local" THEN [@ EXCEPT !.pc = "rmdir"]
                                      ELSE NoArtCall]
  /\ UNCHANGED <<backend, content, ownerDir, kept, disturbed, raced, artBegun>>

(* rmdir removes an empty directory; its errors are swallowed too.         *)
RemoveDir(c) ==
  /\ ArtAt(c, "rmdir")
  /\ \/ /\ \A k \in ArtKeys : content[k] = "none" /\ sidecar[k] = "none"
        /\ ownerDir' = FALSE /\ UNCHANGED artFaults
     \/ /\ \E k \in ArtKeys : content[k] # "none" \/ sidecar[k] # "none"
        /\ UNCHANGED <<ownerDir, artFaults>>
     \/ UNCHANGED ownerDir /\ ArtFault
  /\ artCall' = [artCall EXCEPT ![c] = NoArtCall]
  /\ UNCHANGED <<backend, content, sidecar, kept, disturbed, raced, artBegun>>

(* The process dies: files stay as they are, memory is gone.  A sidecar    *)
(* being written may be cut.                                               *)
ArtDies ==
  /\ ArtFault
  /\ LET cut == {ArtKey(c) : c \in {d \in ArtCalls : ~ArtAt(d, "idle")}}
         metas == {ArtKey(c) : c \in {d \in ArtCalls : ArtAt(d, "meta")}} IN
     /\ disturbed' = disturbed \cup cut
     /\ IF backend = "local" /\ ownerDir
        THEN \E torn \in SUBSET metas :
               sidecar' = [k \in ArtKeys |-> IF k \in torn THEN "torn" ELSE sidecar[k]]
        ELSE UNCHANGED sidecar
  /\ IF backend = "memory"
     THEN content' = [k \in ArtKeys |-> "none"] /\ kept' = {} ELSE UNCHANGED <<content, kept>>
  /\ artCall' = [c \in ArtCalls |-> NoArtCall]
  /\ UNCHANGED <<backend, ownerDir, raced, artBegun>>

ArtifactsNext ==
  \/ \E c \in ArtCalls :
       \/ \E k \in ArtKeys : Put(c, k) \/ Delete(c, k)
       \/ Look(c) \/ MakeDir(c) \/ OpenFile(c) \/ StoreBytes(c) \/ PutMeta(c) \/ PutFails(c)
       \/ DeleteLooks(c) \/ Unlink(c) \/ UnlinkMeta(c) \/ RemoveDir(c)
  \/ \E k \in ArtKeys : PutInMemory(k)
  \/ ArtDies

-----------------------------------------------------------------------------
(* get, head and verify.                                                   *)
GetOf(k) == content[k]
HeadOf(k) == sidecar[k] = "whole"
VerifyOf(k) == GetOf(k) = "whole"

(* A content put has answered for, and nobody deleted, is there and whole, *)
(* whatever other calls did, failed at or left behind.  In files that is   *)
(* so unless calls on that content overlapped, were cut or failed while    *)
(* writing it: put takes any file of the name for the content, so the      *)
(* piece a failed write leaves is what the next put answers for.  In the   *)
(* object store, where a content appears at once, it is so unless a delete *)
(* overlapped (put: look, write, sidecar).                                 *)
KeptIsWhole == \A k \in kept \ (IF backend = "s3" THEN raced ELSE disturbed) : VerifyOf(k)

(* Metadata without its content, and the other way round, is what is left  *)
(* of a call that was cut, failed, or raced with another.                  *)
HeadMatchesContent ==
  \A k \in ArtKeys \ disturbed :
    artFaults = 0 /\ backend # "memory" /\ ~(\E c \in ArtCalls : ~ArtAt(c, "idle") /\ ArtKey(c) = k) =>
      (HeadOf(k) <=> VerifyOf(k))
=============================================================================
