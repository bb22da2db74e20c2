------------------------------ MODULE Storage ------------------------------
(***************************************************************************)
(* The connection storage of the backend, internal/ssh/storage.go: the     *)
(* records in memory and the permanent file, which the next start loads.   *)
(* The cache file is emptied at each start, so only its failure to be      *)
(* written is kept.                                                        *)
(*                                                                         *)
(* An operation holds the lock, so it is one step.  A record is known by   *)
(* its host and port, its user and its mark; the file by the keys of its   *)
(* entries.  A write fails, or the process stops within it and leaves a    *)
(* file that cannot be read.                                               *)
(***************************************************************************)
EXTENDS FiniteSets

CONSTANTS
  Ids,      \* ids of records
  Hosts,    \* host and port
  Users,
  Missing   \* no record

Keys == Hosts \X Users
Entries == [key : Keys, saved : BOOLEAN]

ASSUME StorageAssumption == Missing \notin Entries

VARIABLES
  entries,   \* connections of StorageManager
  file,      \* keys in the permanent file
  excused    \* auxiliary: keys that were deleted or could not be written since the start

storageVars == <<entries, file, excused>>

Stored(es) == {i \in Ids : es[i] # Missing}
SavedKeys(es) == {es[i].key : i \in {j \in Stored(es) : es[j].saved}}
Unsaved(k) == [key |-> k, saved |-> FALSE]
Fresh(i) == entries[i] = Missing

\* Fault: the file is written anew from the records, as SaveToPermanent does.
SavePermanentAnew(es) ==
  /\ entries' = es
  /\ \/ file' = SavedKeys(es) /\ excused' = excused \ SavedKeys(es)
     \/ UNCHANGED file /\ excused' = excused \cup SavedKeys(es)

\* saveToPermanentLocked, after a change of the records: what is saved is merged into the
\* file, which keeps the rest.  The write fails, or the one to the cache file before it.
SavePermanent(es) ==
  /\ entries' = es
  /\ \/ file' = file \cup SavedKeys(es) /\ excused' = excused \ SavedKeys(es)
     \/ UNCHANGED file /\ excused' = excused \cup SavedKeys(es)

AddConnection(i, k) ==
  /\ Fresh(i)
  /\ entries' = [entries EXCEPT ![i] = Unsaved(k)]
  /\ UNCHANGED <<file, excused>>

MarkAsSaved(i) ==
  /\ ~Fresh(i)
  /\ SavePermanent([entries EXCEPT ![i].saved = TRUE])

MarkAsUnsaved(i) ==
  /\ ~Fresh(i)
  /\ entries' = [entries EXCEPT ![i].saved = FALSE]
  /\ UNCHANGED <<file, excused>>

\* The mark stays; the key that the record had stays in the file.
UpdateConnection(i, k) ==
  LET es == [entries EXCEPT ![i].key = k] IN
  /\ ~Fresh(i)
  /\ IF entries[i].saved THEN SavePermanent(es)
     ELSE entries' = es /\ UNCHANGED <<file, excused>>

\* A record of the same host and port takes the user of the one that comes in.
SyncImportConnection(k) ==
  LET same == {i \in Stored(entries) : entries[i].key[1] = k[1]} IN
  \E i \in Ids :
    /\ IF same # {} THEN i \in same ELSE Fresh(i)
    /\ SavePermanent([entries EXCEPT ![i] = [key |-> k, saved |-> TRUE]])

\* Every entry of the key goes, those of other records included.
DeleteConnection(i) ==
  /\ ~Fresh(i)
  /\ entries' = [entries EXCEPT ![i] = Missing]
  /\ IF entries[i].saved
     THEN file' \in {file \ {entries[i].key}, file} /\ excused' = excused \cup {entries[i].key}
     ELSE UNCHANGED <<file, excused>>

DeleteFromCache(i) ==
  /\ ~Fresh(i)
  /\ entries' = IF entries[i].saved THEN entries ELSE [entries EXCEPT ![i] = Missing]
  /\ UNCHANGED <<file, excused>>

\* LoadFromPermanent: a record for each entry; two of one key give two records.
LoadFromPermanent(F, es) ==
  /\ \A i \in Stored(es) : es[i].saved
  /\ SavedKeys(es) = F

\* The program is started again, after a stop that may have come within a write.
StartAgain ==
  /\ file' \in {file, {}}
  /\ \E es \in [Ids -> Entries \cup {Missing}] : LoadFromPermanent(file', es) /\ entries' = es
  /\ excused' = {}

StorageInit ==
  /\ file \in SUBSET Keys
  /\ entries \in [Ids -> Entries \cup {Missing}] /\ LoadFromPermanent(file, entries)
  /\ excused = {}

StorageNext ==
  \/ \E i \in Ids, k \in Keys : AddConnection(i, k) \/ UpdateConnection(i, k)
  \/ \E i \in Ids : MarkAsSaved(i) \/ MarkAsUnsaved(i) \/ DeleteConnection(i)
                      \/ DeleteFromCache(i)
  \/ \E k \in Keys : SyncImportConnection(k)
  \/ StartAgain

StorageSpec == StorageInit /\ [][StorageNext]_storageVars

-----------------------------------------------------------------------------

StorageTypeOK ==
  /\ entries \in [Ids -> Entries \cup {Missing}]
  /\ file \subseteq Keys
  /\ excused \subseteq Keys

\* The storage keeps what Records promises of it.
Promise == INSTANCE Records WITH kept <- file, shown <- SavedKeys(entries)
KeepsRecords == Promise!RecordsSpec

\* A record that is marked as saved is in the permanent file, unless a deletion took its
\* key or a write failed: whatever is added, renamed, imported or closed in between.
SavedAreKept == SavedKeys(entries) \subseteq file \cup excused

=============================================================================
