----------------------------- MODULE FileStores -----------------------------
(***************************************************************************)
(* The two stores of packages/db that keep their state in files: the       *)
(* secrets of LocalEncryptedFileSecretStore, one JSON file that put,       *)
(* rotate and delete read, edit and replace through a temporary file, and  *)
(* the objects of FileSystemObjectStorageAdapter, each a file of bytes and *)
(* a file of metadata.                                                     *)
(*                                                                         *)
(* A file is written in two steps, so that a crash may leave it torn.      *)
(* Reads change nothing; what they would find is what the properties say.  *)
(* Nothing excludes a second request: with two of them a put loses the     *)
(* other's secret, so the instances checked run one request at a time.     *)
(***************************************************************************)
EXTENDS Naturals, FiniteSets

CONSTANTS
    SecretIds, ObjectKeys,
    FileRequests,       \* requests that may be under way together
    MaxFileOps,         \* bound: requests
    MaxFileCrashes      \* bound: crashes

ASSUME FilesAssumption == {MaxFileOps, MaxFileCrashes} \subseteq Nat

VARIABLES
    secretsFile,    \* secrets.json
    tempFile,       \* secrets.json.tmp
    objectFiles,    \* per key and suffix, "absent", "torn" or "whole"
    fileAt,         \* where each request is
    told,           \* history: value of each secret, as last reported
    tried,          \* history: values of requests not reported since
    keysPut,        \* history: ids and object keys a put used; none is reused
    fileOps, fileCrashes

fileVars == <<secretsFile, tempFile, objectFiles, fileAt, told, tried, keysPut,
              fileOps, fileCrashes>>

Gone == 0       \* the value of a secret that is not there
Envelopes == [id : SecretIds, value : 1 .. MaxFileOps]
Torn == [state |-> "torn", secrets |-> {}]
Missing == [state |-> "absent", secrets |-> {}]
Complete(secrets) == [state |-> "whole", secrets |-> secrets]
JsonFiles == {Torn, Missing} \cup [state : {"whole"}, secrets : SUBSET Envelopes]
NoRequest == [op |-> "none", id |-> "none", value |-> 0, step |-> 0, file |-> {}]

FilesTypeOK ==
    /\ secretsFile \in JsonFiles /\ tempFile \in JsonFiles
    /\ \A e1, e2 \in secretsFile.secrets : e1.id = e2.id => e1 = e2
    /\ objectFiles \in [ObjectKeys -> [{"bytes", "metadata"} -> {"absent", "torn", "whole"}]]
    /\ \A q \in FileRequests : fileAt[q].file \subseteq Envelopes

FilesInit ==
    /\ secretsFile = Missing /\ tempFile = Missing
    /\ objectFiles = [k \in ObjectKeys |-> [f \in {"bytes", "metadata"} |-> "absent"]]
    /\ fileAt = [q \in FileRequests |-> NoRequest]
    /\ told = [i \in SecretIds |-> Gone] /\ tried = [i \in SecretIds |-> {}]
    /\ keysPut = {} /\ fileOps = 0 /\ fileCrashes = 0

StoredValue(i) ==
    IF \E e \in secretsFile.secrets : e.id = i
    THEN (CHOOSE e \in secretsFile.secrets : e.id = i).value ELSE Gone

\* The file's secrets after a request; put appends, rotate takes the place of
\* the envelope with the same id.
EditedByPush(secrets, op, id, value) ==
    IF op = "delete" THEN {e \in secrets : e.id # id}
    ELSE secrets \cup {[id |-> id, value |-> value]}
Edited(secrets, op, id, value) ==
    {e \in secrets : e.id # id}
      \cup (IF op = "delete" THEN {} ELSE {[id |-> id, value |-> value]})

Begins(q, op, id) ==
    /\ fileAt[q] = NoRequest
    /\ fileOps < MaxFileOps /\ fileOps' = fileOps + 1
    /\ fileAt' = [fileAt EXCEPT ![q] =
          [op |-> op, id |-> id, value |-> fileOps + 1, step |-> 1, file |-> {}]]
    /\ op \in {"put", "put object"} => id \notin keysPut
    /\ keysPut' = keysPut \cup (IF op \in {"put", "put object"} THEN {id} ELSE {})
    /\ UNCHANGED <<secretsFile, tempFile, objectFiles, told, fileCrashes>>

SecretOps == {"put", "rotate", "delete"}
ChangeSecret(q, op, i) ==
    /\ Begins(q, op, i)
    /\ tried' = [tried EXCEPT ![i] = @ \cup {IF op = "delete" THEN Gone ELSE fileOps + 1}]

\* A request that changes a secret is about to read, open, write, rename or
\* return; it goes on to the next step, or is over.
About(q, step) == fileAt[q].op \in SecretOps /\ fileAt[q].step = step
GoesOn(q) == fileAt' = [fileAt EXCEPT ![q].step = @ + 1]
Over(q) == fileAt' = [fileAt EXCEPT ![q] = NoRequest]

\* A file that is torn is no JSON, and a rotated secret must be there.
readStore(q) ==
    LET at == fileAt[q]
        throws == \/ secretsFile.state = "torn"
                  \/ at.op = "rotate" /\ StoredValue(at.id) = Gone
    IN  /\ About(q, 1)
        /\ \/ throws /\ Over(q)
           \/ /\ ~throws
              /\ fileAt' = [fileAt EXCEPT ![q].step = 2,
                    ![q].file = Edited(secretsFile.secrets, at.op, at.id, at.value)]
        /\ UNCHANGED <<secretsFile, tempFile, objectFiles, told, tried, keysPut,
                       fileOps, fileCrashes>>

\* Opening for writing empties the file.
OpeningInPlace == secretsFile' = Torn /\ tempFile' = Torn
Opening == tempFile' = Torn /\ UNCHANGED secretsFile

writeStore(q) ==
    /\ \/ /\ About(q, 2)
          /\ Opening /\ GoesOn(q)
       \/ /\ About(q, 3)
          /\ tempFile' \in {Complete(fileAt[q].file)} \cup
                {Torn : p \in {r \in FileRequests \ {q} : About(r, 3)}}
          /\ UNCHANGED secretsFile /\ GoesOn(q)
       \/ /\ About(q, 4)
          /\ IF tempFile = Missing      \* ENOENT: another request renamed it
             THEN UNCHANGED <<secretsFile, tempFile>> /\ Over(q)
             ELSE secretsFile' = tempFile /\ tempFile' = Missing /\ GoesOn(q)
    /\ UNCHANGED <<objectFiles, told, tried, keysPut, fileOps, fileCrashes>>

SecretReturns(q) ==
    LET at == fileAt[q]
    IN  /\ About(q, 5)
        /\ told' = [told EXCEPT ![at.id] = IF at.op = "delete" THEN Gone ELSE at.value]
        /\ tried' = [tried EXCEPT ![at.id] = {}]
        /\ Over(q)
        /\ UNCHANGED <<secretsFile, tempFile, objectFiles, keysPut, fileOps, fileCrashes>>

\* The files of an object, in the order put writes and delete unlinks them.
SuffixesMetadataFirst == <<"metadata", "bytes">>
Suffixes == <<"bytes", "metadata">>
UnlinkOrder == <<"bytes", "metadata">>

ChangeObject(q, op, k) ==
    Begins(q, op, k) /\ UNCHANGED tried

Touches(q, suffix, becomes) ==
    objectFiles' = [objectFiles EXCEPT ![fileAt[q].id][suffix] = becomes]

\* put opens and writes one file, then the other.
PutObjectStep(q) ==
    /\ fileAt[q].op = "put object"
    /\ \/ fileAt[q].step = 1 /\ Touches(q, Suffixes[1], "torn") /\ GoesOn(q)
       \/ fileAt[q].step = 2 /\ Touches(q, Suffixes[1], "whole") /\ GoesOn(q)
       \/ fileAt[q].step = 3 /\ Touches(q, Suffixes[2], "torn") /\ GoesOn(q)
       \/ fileAt[q].step = 4 /\ Touches(q, Suffixes[2], "whole") /\ Over(q)
    /\ UNCHANGED <<secretsFile, tempFile, told, tried, keysPut, fileOps, fileCrashes>>

\* delete unlinks the files, which may be missing.
DeleteObjectStep(q) ==
    /\ fileAt[q].op = "delete object"
    /\ \/ fileAt[q].step = 1 /\ Touches(q, UnlinkOrder[1], "absent") /\ GoesOn(q)
       \/ fileAt[q].step = 2 /\ Touches(q, UnlinkOrder[2], "absent") /\ Over(q)
    /\ UNCHANGED <<secretsFile, tempFile, told, tried, keysPut, fileOps, fileCrashes>>

FilesCrash ==
    /\ fileCrashes < MaxFileCrashes /\ fileCrashes' = fileCrashes + 1
    /\ fileAt' = [q \in FileRequests |-> NoRequest]
    /\ UNCHANGED <<secretsFile, tempFile, objectFiles, told, tried, keysPut, fileOps>>

FilesNext ==
    \/ \E q \in FileRequests :
          \/ \E op \in SecretOps, i \in SecretIds : ChangeSecret(q, op, i)
          \/ readStore(q) \/ writeStore(q) \/ SecretReturns(q)
          \/ \E op \in {"put object", "delete object"}, k \in ObjectKeys : ChangeObject(q, op, k)
          \/ PutObjectStep(q) \/ DeleteObjectStep(q)
    \/ FilesCrash

FilesSpec == FilesInit /\ [][FilesNext]_fileVars

-----------------------------------------------------------------------------
\* Whenever the process stops, the file of secrets can be read, and holds for
\* each secret what was reported last, or what a later request that was
\* interrupted was about to leave ("supports rotation/deletion/probe").
SecretsKept ==
    /\ secretsFile.state # "torn"
    /\ \A i \in SecretIds : StoredValue(i) \in {told[i]} \cup tried[i]

\* An object that is found with its metadata has all its bytes: put writes the
\* metadata last, and a crash in between leaves an object without.
MetadataMeansWhole ==
    \A k \in ObjectKeys :
        objectFiles[k]["metadata"] # "absent" => objectFiles[k]["bytes"] # "torn"
=============================================================================
