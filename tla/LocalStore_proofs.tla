-------------------------- MODULE LocalStore_proofs --------------------------
(***************************************************************************)
(* Theorems about LocalStore for any sets of rows and values and any number *)
(* of operations, failures and crashes.                                     *)
(***************************************************************************)
EXTENDS LocalStore, TLAPS

(***************************************************************************)
(* The inductive invariant.                                                 *)
(***************************************************************************)

Writing == pc \in {"start", "writing", "rename", "insert"}

\* A write concerns one row; its temporary file is complete before the rename,
\* and the row's file after it; until the rename, the files are untouched.
WriteOnTrack ==
    Writing =>
        /\ \A j, k \in touched : j = k
        /\ value \in Values
        /\ mem = acked
        /\ pc = "rename" => \A k \in touched : temp[k] = value
        /\ pc = "insert" => \A k \in touched : file[k] = value
        /\ pc # "insert" => \A k \in Rows \ unremoved : file[k] = acked[k]

\* A file that a removal has passed is gone, or its removal has failed.
RemoveOnTrack ==
    pc = "unlink" =>
        /\ value = None
        /\ todo \subseteq touched
        /\ \A k \in Rows \ touched : mem[k] = acked[k]
        /\ \A k \in touched \ (todo \cup unremoved) : file[k] = None

\* Nobody holds the lock.
NothingTouched == pc \in {"idle", "down"} => touched = {} /\ value = None

LocalInv ==
    /\ LocalTypes
    /\ Readable
    /\ AcknowledgedRowsSurvive
    /\ MemoryIsAcknowledged
    /\ WriteOnTrack
    /\ RemoveOnTrack
    /\ NothingTouched

\* The invariant holds of a new store in an empty directory.
LEMMA InitEstablishesInv ==
    ASSUME LocalInit
    PROVE  LocalInv
<1>1. None \in Row /\ None # Torn
  BY LocalAssumption DEF Row
<1>2. LocalTypes
  BY <1>1 DEF LocalInit, LocalTypes, NoRows, File
<1>3. Readable /\ AcknowledgedRowsSurvive /\ MemoryIsAcknowledged
  BY <1>1 DEF LocalInit, NoRows, Readable, AcknowledgedRowsSurvive, MemoryIsAcknowledged
<1> QED BY <1>2, <1>3 DEF LocalInit, LocalInv, WriteOnTrack, Writing, RemoveOnTrack, NothingTouched

\* An operation that has passed its check takes the lock.
LEMMA BeginPreservesInv ==
    ASSUME LocalInv, Begin
    PROVE  LocalInv'
<1>1. ASSUME NEW k \in Rows, NEW v \in Values, BeginWrite(k, v)
      PROVE  LocalInv'
  <2>1. LocalTypes'
    BY <1>1 DEF LocalInv, LocalTypes, BeginWrite, Lock, Row
  <2> QED BY <1>1, <2>1 DEF LocalInv, BeginWrite, Lock, Readable, AcknowledgedRowsSurvive,
          MemoryIsAcknowledged, WriteOnTrack, Writing, RemoveOnTrack, NothingTouched
<1>2. ASSUME NEW p \in Policies, delete_policy(p)
      PROVE  LocalInv'
  <2>0. p \in Rows /\ None \in Row
    BY DEF Rows, Row
  <2>1. LocalTypes'
    BY <1>2, <2>0 DEF LocalInv, LocalTypes, delete_policy, Lock, Forget
  <2> QED BY <1>2, <2>0, <2>1 DEF LocalInv, delete_policy, Lock, Forget, Readable, LocalTypes,
          AcknowledgedRowsSurvive, MemoryIsAcknowledged, WriteOnTrack, Writing, RemoveOnTrack,
          NothingTouched
<1>3. ASSUME NEW b \in Billets, delete_billet_cascade(b)
      PROVE  LocalInv'
  <2>0. {b} \cup PoliciesOf(b) \subseteq Rows /\ None \in Row
    BY DEF Rows, Row, PoliciesOf
  <2>1. LocalTypes'
    BY <1>3, <2>0 DEF LocalInv, LocalTypes, delete_billet_cascade, Lock, Forget
  <2> QED BY <1>3, <2>0, <2>1 DEF LocalInv, delete_billet_cascade, Lock, Forget, Readable,
          LocalTypes, AcknowledgedRowsSurvive, MemoryIsAcknowledged, WriteOnTrack, Writing,
          RemoveOnTrack, NothingTouched
<1>4. ASSUME NEW ks \in SUBSET {k \in KeyIds : mem[k] # None}, delete_expired_ephemeral_keys(ks)
      PROVE  LocalInv'
  <2>0. ks \subseteq Rows
    BY DEF Rows
  <2>1. LocalTypes'
    BY <1>4, <2>0 DEF LocalInv, LocalTypes, delete_expired_ephemeral_keys, Lock
  <2> QED BY <1>4, <2>0, <2>1 DEF LocalInv, delete_expired_ephemeral_keys, Lock, Readable,
          LocalTypes, AcknowledgedRowsSurvive, MemoryIsAcknowledged, WriteOnTrack, Writing,
          RemoveOnTrack, NothingTouched
<1> QED BY <1>1, <1>2, <1>3, <1>4 DEF Begin, CreateRow, UpdateRow, put_ephemeral_key

\* The steps of atomic_write, and its failures.
LEMMA AtomicWritePreservesInv ==
    ASSUME LocalInv, AtomicWrite
    PROVE  LocalInv'
<1>0. /\ Torn \notin Values /\ None \in Row /\ Values \subseteq Row /\ Row \subseteq File
      /\ Torn \in File
  BY LocalAssumption DEF Row, File
<1>1. ASSUME NEW k \in touched, StartTemp(k)
      PROVE  LocalInv'
  <2>1. LocalTypes'
    BY <1>0, <1>1 DEF LocalInv, LocalTypes, StartTemp, opVars
  <2> QED BY <1>1, <2>1 DEF LocalInv, StartTemp, opVars, Readable, AcknowledgedRowsSurvive,
          MemoryIsAcknowledged, WriteOnTrack, Writing, RemoveOnTrack, NothingTouched
<1>2. ASSUME NEW k \in touched, FinishTemp(k)
      PROVE  LocalInv'
  <2>1. LocalTypes'
    BY <1>0, <1>2 DEF LocalInv, LocalTypes, FinishTemp, opVars
  <2>2. WriteOnTrack'
    BY <1>2 DEF LocalInv, LocalTypes, FinishTemp, opVars, WriteOnTrack, Writing
  <2> QED BY <1>2, <2>1, <2>2 DEF LocalInv, FinishTemp, opVars, Readable, AcknowledgedRowsSurvive,
          MemoryIsAcknowledged, RemoveOnTrack, NothingTouched
<1>3. ASSUME NEW k \in touched, Rename(k)
      PROVE  LocalInv'
  <2>0. temp[k] = value /\ value \in Values /\ k \in Rows
    BY <1>3 DEF LocalInv, LocalTypes, Rename, WriteOnTrack, Writing
  <2>1. LocalTypes'
    BY <1>0, <1>3, <2>0 DEF LocalInv, LocalTypes, Rename, opVars
  <2>2. Readable' /\ AcknowledgedRowsSurvive'
    BY <1>0, <1>3, <2>0 DEF LocalInv, LocalTypes, Rename, opVars, Readable, AcknowledgedRowsSurvive
  <2>3. WriteOnTrack'
    BY <1>3, <2>0 DEF LocalInv, LocalTypes, Rename, opVars, WriteOnTrack, Writing
  <2> QED BY <1>3, <2>1, <2>2, <2>3 DEF LocalInv, Rename, opVars, MemoryIsAcknowledged,
          RemoveOnTrack, NothingTouched
<1>4. ASSUME NEW k \in touched, Insert(k)
      PROVE  LocalInv'
  <2>0. file[k] = value /\ value \in Values /\ k \in Rows /\ mem = acked /\ touched = {k}
    BY <1>4 DEF LocalInv, LocalTypes, Insert, WriteOnTrack, Writing
  <2>1. LocalTypes'
    BY <1>0, <1>4, <2>0 DEF LocalInv, LocalTypes, Insert, Unlock
  <2>2. Readable' /\ AcknowledgedRowsSurvive' /\ MemoryIsAcknowledged'
    BY <1>4, <2>0 DEF LocalInv, LocalTypes, Insert, Unlock, Readable, AcknowledgedRowsSurvive,
       MemoryIsAcknowledged
  <2> QED BY <1>4, <2>1, <2>2 DEF LocalInv, Insert, Unlock, WriteOnTrack, Writing, RemoveOnTrack,
          NothingTouched
<1>5. ASSUME WriteFails
      PROVE  LocalInv'
  <2>0. mem = acked /\ \A k \in Rows \ unremoved : file[k] = acked[k]
    BY <1>5 DEF LocalInv, WriteFails, WriteOnTrack, Writing
  <2>1. LocalTypes'
    BY <1>0, <1>5 DEF LocalInv, LocalTypes, WriteFails, Unlock
  <2> QED BY <1>5, <2>0, <2>1 DEF LocalInv, WriteFails, Unlock, Readable, AcknowledgedRowsSurvive,
          MemoryIsAcknowledged, WriteOnTrack, Writing, RemoveOnTrack, NothingTouched
<1> QED BY <1>1, <1>2, <1>3, <1>4, <1>5 DEF AtomicWrite

\* The removal of files, and its failures.
LEMMA RemovePreservesInv ==
    ASSUME LocalInv, Remove
    PROVE  LocalInv'
<1>0. None \in Row /\ Row \subseteq File /\ None # Torn
  BY LocalAssumption DEF Row, File
<1>1. ASSUME NEW k \in todo, Unlink(k)
      PROVE  LocalInv'
  <2>0. k \in Rows /\ value = None
    BY <1>1 DEF LocalInv, LocalTypes, RemoveOnTrack, Unlink
  <2>1. LocalTypes'
    BY <1>0, <1>1, <2>0 DEF LocalInv, LocalTypes, Unlink
  <2>2. Readable' /\ AcknowledgedRowsSurvive'
    BY <1>0, <1>1, <2>0 DEF LocalInv, LocalTypes, Unlink, Readable, AcknowledgedRowsSurvive,
       RemoveOnTrack
  <2>3. RemoveOnTrack'
    BY <1>1, <2>0 DEF LocalInv, LocalTypes, Unlink, RemoveOnTrack
  <2> QED BY <1>1, <2>1, <2>2, <2>3 DEF LocalInv, Unlink, MemoryIsAcknowledged, WriteOnTrack,
          Writing, NothingTouched
<1>2. ASSUME NEW k \in todo, UnlinkFails(k)
      PROVE  LocalInv'
  <2>1. LocalTypes'
    BY <1>2 DEF LocalInv, LocalTypes, UnlinkFails
  <2>2. AcknowledgedRowsSurvive'
    BY <1>2 DEF LocalInv, LocalTypes, UnlinkFails, AcknowledgedRowsSurvive
  <2>3. RemoveOnTrack'
    BY <1>2 DEF LocalInv, LocalTypes, UnlinkFails, RemoveOnTrack
  <2> QED BY <1>2, <2>1, <2>2, <2>3 DEF LocalInv, UnlinkFails, Readable, MemoryIsAcknowledged,
          WriteOnTrack, Writing, NothingTouched
<1>3. ASSUME Removed
      PROVE  LocalInv'
  <2>1. LocalTypes'
    BY <1>0, <1>3 DEF LocalInv, LocalTypes, Removed, Forget, Unlock
  <2>2. AcknowledgedRowsSurvive'
    BY <1>3 DEF LocalInv, LocalTypes, Removed, Unlock, AcknowledgedRowsSurvive, RemoveOnTrack
  <2>3. MemoryIsAcknowledged'
    BY <1>3 DEF LocalInv, LocalTypes, Removed, Forget, Unlock, MemoryIsAcknowledged, RemoveOnTrack
  <2> QED BY <1>3, <2>1, <2>2, <2>3 DEF LocalInv, Removed, Unlock, Readable, WriteOnTrack, Writing,
          RemoveOnTrack, NothingTouched
<1> QED BY <1>1, <1>2, <1>3 DEF Remove

\* Whatever the process was doing, what the files hold is what was
\* acknowledged, or what the callers had not been told yet.
LEMMA CrashPreservesInv ==
    ASSUME LocalInv, Crash
    PROVE  LocalInv'
<1>0. None \in Row
  BY DEF Row
<1>1. \A k \in Rows : file[k] \in Row
  BY DEF LocalInv, LocalTypes, Readable, File
<1>2. LocalTypes'
  BY <1>0, <1>1 DEF LocalInv, LocalTypes, Crash, NoRows
<1>3. AcknowledgedRowsSurvive'
  BY DEF LocalInv, LocalTypes, Crash, AcknowledgedRowsSurvive
<1> QED BY <1>2, <1>3 DEF LocalInv, Crash, Readable, MemoryIsAcknowledged, WriteOnTrack, Writing,
        RemoveOnTrack, NothingTouched

\* new finds every file readable and takes the rows as they are.
LEMMA LoadPreservesInv ==
    ASSUME LocalInv, Load
    PROVE  LocalInv'
<1>1. file \in [Rows -> Row]
  BY DEF LocalInv, LocalTypes, Load, Readable, File
<1>2. LocalTypes'
  BY <1>1 DEF LocalInv, LocalTypes, Load, opVars
<1> QED BY <1>2 DEF LocalInv, Load, opVars, Readable, AcknowledgedRowsSurvive,
        MemoryIsAcknowledged, WriteOnTrack, Writing, RemoveOnTrack, NothingTouched

\* Reads and stuttering steps change nothing.
LEMMA StutterPreservesInv ==
    ASSUME LocalInv, UNCHANGED vars
    PROVE  LocalInv'
BY DEF LocalInv, vars, opVars, LocalTypes, Readable, AcknowledgedRowsSurvive,
   MemoryIsAcknowledged, WriteOnTrack, Writing, RemoveOnTrack, NothingTouched

\* The invariant holds of every reachable state.
THEOREM LocalInvariant == LocalSpec => []LocalInv
<1>1. LocalInit => LocalInv
  BY InitEstablishesInv
<1>2. LocalInv /\ [LocalNext]_vars => LocalInv'
  BY BeginPreservesInv, AtomicWritePreservesInv, RemovePreservesInv, CrashPreservesInv,
     LoadPreservesInv, StutterPreservesInv DEF LocalNext, ReadRows
<1> QED BY <1>1, <1>2, PTL DEF LocalSpec

(***************************************************************************)
(* What follows from it.                                                    *)
(***************************************************************************)

\* No crash and no failing file operation ever leaves a row's file that does
\* not parse, so LocalDataStore::new can always load the store.
THEOREM StoreAlwaysLoadable == LocalSpec => []AlwaysLoadable
<1>1. LocalInv => AlwaysLoadable
  BY DEF LocalInv, AlwaysLoadable
<1> QED BY <1>1, LocalInvariant, PTL

\* A crash at any moment loses no acknowledged row and brings none back that
\* was removed, but for files whose removal failed.
THEOREM AcknowledgedRowsAlwaysSurvive == LocalSpec => []AcknowledgedRowsSurvive
<1>1. LocalInv => AcknowledgedRowsSurvive
  BY DEF LocalInv
<1> QED BY <1>1, LocalInvariant, PTL

\* Readers see the acknowledged rows, whatever failed on the way.
THEOREM MemoryAlwaysAcknowledged == LocalSpec => []MemoryIsAcknowledged
<1>1. LocalInv => MemoryIsAcknowledged
  BY DEF LocalInv
<1> QED BY <1>1, LocalInvariant, PTL
=============================================================================
