------------------------------ MODULE LocalStore ------------------------------
(***************************************************************************)
(* LocalDataStore: one JSON file per row, and a copy of all rows in memory  *)
(* that serves the reads.  A write holds the lock of the memory copy while  *)
(* it works on the files, one file operation at a time; each may fail, and  *)
(* the process may stop between any two, or in the middle of a write.  What *)
(* the process does not survive, the files do; `new` loads them again.      *)
(*                                                                         *)
(* A row is identified by its key: the name of a billet, the billet and id  *)
(* of a policy, the id of an ephemeral key record.  Each is one component   *)
(* of a path.                                                               *)
(***************************************************************************)
EXTENDS Naturals, FiniteSets

CONSTANTS
    Billets,     \* billet names
    Policies,    \* policy keys
    BilletOf,    \* BilletOf[p]: the directory of policy p
    KeyIds,      \* ids of ephemeral key records
    Values,      \* contents of a row
    None,        \* no such file, no such row
    Torn,        \* a file that does not parse
    MaxWrites,   \* bound on the operations started
    MaxCrashes   \* bound on the crashes

Rows == Billets \cup Policies \cup KeyIds

ASSUME LocalAssumption ==
    /\ Billets \cap Policies = {} /\ Billets \cap KeyIds = {} /\ Policies \cap KeyIds = {}
    /\ BilletOf \in [Policies -> Billets]
    /\ None \notin Values /\ Torn \notin Values /\ None # Torn
    /\ MaxWrites \in Nat /\ MaxCrashes \in Nat

VARIABLES
    mem,        \* LocalState: mem[k] is the row, or None
    file,       \* file[k]: {k}.json
    temp,       \* temp[k]: {k}.json.tmp
    pc,         \* where the holder of the write lock is
    touched,    \* the rows it is to write or remove
    value,      \* what it writes
    todo,       \* the files it has still to remove
    acked,      \* history: the rows as the callers were told
    unremoved,  \* history: the files whose removal failed
    writes,     \* operations started
    crashes     \* crashes so far

opVars == <<touched, value, todo>>
vars == <<mem, file, temp, pc, opVars, acked, unremoved, writes, crashes>>

Row == Values \cup {None}
File == Row \cup {Torn}

LocalTypes ==
    /\ mem \in [Rows -> Row]
    /\ file \in [Rows -> File]
    /\ temp \in [Rows -> File]
    /\ pc \in {"idle", "start", "writing", "rename", "insert", "unlink", "down"}
    /\ touched \subseteq Rows
    /\ value \in Row
    /\ todo \subseteq Rows
    /\ acked \in [Rows -> Row]
    /\ unremoved \subseteq Rows
    /\ writes \in Nat
    /\ crashes \in Nat

NoRows == [k \in Rows |-> None]

\* LocalDataStore::new on an empty directory.
LocalInit ==
    /\ mem = NoRows
    /\ file = NoRows
    /\ temp = NoRows
    /\ pc = "idle"
    /\ touched = {}
    /\ value = None
    /\ todo = {}
    /\ acked = NoRows
    /\ unremoved = {}
    /\ writes = 0
    /\ crashes = 0

-----------------------------------------------------------------------------
(* create_billet, create_policy, update_billet, update_policy and
   put_ephemeral_key: the check, then atomic_write, then the memory copy. *)

\* The lock is free and the bound not reached.
Lock == pc = "idle" /\ writes < MaxWrites /\ writes' = writes + 1

BeginWrite(k, v) ==
    /\ Lock
    /\ pc' = "start"
    /\ touched' = {k}
    /\ value' = v
    /\ UNCHANGED <<mem, file, temp, todo, acked, unremoved, crashes>>

\* Anything else is answered with a Conflict.
CreateRow(k, v) == k \notin KeyIds /\ mem[k] = None /\ BeginWrite(k, v)

\* Anything else is answered with NotFound.
UpdateRow(k, v) == k \notin KeyIds /\ mem[k] # None /\ BeginWrite(k, v)

put_ephemeral_key(k, v) == k \in KeyIds /\ BeginWrite(k, v)

\* Mutant: the file is written in place.
WriteInPlace(k) ==
    /\ pc = "start"
    /\ file' = [file EXCEPT ![k] = Torn]
    /\ pc' = "writing"
    /\ UNCHANGED <<mem, temp, opVars, acked, unremoved, writes, crashes>>

\* tokio::fs::write truncates the temporary file ...
StartTemp(k) ==
    /\ pc = "start"
    /\ temp' = [temp EXCEPT ![k] = Torn]
    /\ pc' = "writing"
    /\ UNCHANGED <<mem, file, opVars, acked, unremoved, writes, crashes>>

\* Mutant: the rename is left out.
NoRename(k) ==
    /\ pc = "writing"
    /\ temp' = [temp EXCEPT ![k] = value]
    /\ pc' = "insert"
    /\ UNCHANGED <<mem, file, opVars, acked, unremoved, writes, crashes>>

\* ... and fills it.
FinishTemp(k) ==
    /\ pc = "writing"
    /\ temp' = [temp EXCEPT ![k] = value]
    /\ pc' = "rename"
    /\ UNCHANGED <<mem, file, opVars, acked, unremoved, writes, crashes>>

Rename(k) ==
    /\ pc = "rename"
    /\ file' = [file EXCEPT ![k] = temp[k]]
    /\ temp' = [temp EXCEPT ![k] = None]
    /\ unremoved' = unremoved \ {k}
    /\ pc' = "insert"
    /\ UNCHANGED <<mem, opVars, acked, writes, crashes>>

Unlock == pc' = "idle" /\ touched' = {} /\ value' = None /\ todo' = {}

\* The caller gets Ok.
Insert(k) ==
    /\ pc = "insert"
    /\ mem' = [mem EXCEPT ![k] = value]
    /\ acked' = [acked EXCEPT ![k] = value]
    /\ Unlock
    /\ UNCHANGED <<file, temp, unremoved, writes, crashes>>

\* Mutant: the row is inserted although it could not be written.
InsertAllTheSame ==
    /\ pc \in {"start", "writing", "rename"}
    /\ mem' = [k \in Rows |-> IF k \in touched THEN value ELSE mem[k]]
    /\ Unlock
    /\ UNCHANGED <<file, temp, acked, unremoved, writes, crashes>>

\* A file operation fails, and the caller gets the error.
WriteFails ==
    /\ pc \in {"start", "writing", "rename"}
    /\ Unlock
    /\ UNCHANGED <<mem, file, temp, acked, unremoved, writes, crashes>>

AtomicWrite ==
    \/ \E k \in touched : StartTemp(k) \/ FinishTemp(k) \/ Rename(k) \/ Insert(k)
    \/ WriteFails

-----------------------------------------------------------------------------
(* delete_policy, delete_billet_cascade and delete_expired_ephemeral_keys. *)

PoliciesOf(b) == {p \in Policies : BilletOf[p] = b}

Forget(ks) == [k \in Rows |-> IF k \in ks THEN None ELSE mem[k]]

delete_policy(p) ==
    /\ mem[p] # None
    /\ Lock
    /\ mem' = Forget({p})
    /\ touched' = {p}
    /\ todo' = {p}
    /\ pc' = "unlink"
    /\ UNCHANGED <<file, temp, value, acked, unremoved, crashes>>

\* The directory is removed with all the files it has.
delete_billet_cascade(b) ==
    /\ mem[b] # None
    /\ Lock
    /\ mem' = Forget({b} \cup PoliciesOf(b))
    /\ touched' = {b} \cup PoliciesOf(b)
    /\ todo' = {b} \cup {p \in PoliciesOf(b) : file[p] # None \/ temp[p] # None}
    /\ pc' = "unlink"
    /\ UNCHANGED <<file, temp, value, acked, unremoved, crashes>>

\* The rows leave the memory copy after their files have been removed.
delete_expired_ephemeral_keys(ks) ==
    /\ Lock
    /\ touched' = ks
    /\ todo' = ks
    /\ pc' = "unlink"
    /\ UNCHANGED <<mem, file, temp, value, acked, unremoved, crashes>>

Cascading == touched \cap Billets # {}

\* The billet's file goes first.
Removable(k) == k \in todo /\ (todo \cap Billets # {} => k \in Billets)

Unlink(k) ==
    /\ pc = "unlink"
    /\ Removable(k)
    /\ file' = [file EXCEPT ![k] = None]
    /\ temp' = IF Cascading /\ k \in Policies THEN [temp EXCEPT ![k] = None] ELSE temp
    /\ unremoved' = unremoved \ {k}
    /\ todo' = todo \ {k}
    /\ UNCHANGED <<mem, pc, touched, value, acked, writes, crashes>>

\* remove_file fails, or remove_dir_all stops half way: the error is ignored.
UnlinkFails(k) ==
    /\ pc = "unlink"
    /\ Removable(k)
    /\ LET left == IF Cascading /\ k \in Policies THEN todo ELSE {k}
       IN  /\ unremoved' = unremoved \cup {f \in left : file[f] # None}
           /\ todo' = todo \ left
    /\ UNCHANGED <<mem, file, temp, pc, touched, value, acked, writes, crashes>>

\* The caller gets Ok.
Removed ==
    /\ pc = "unlink"
    /\ todo = {}
    /\ mem' = Forget(touched)
    /\ acked' = [k \in Rows |-> IF k \in touched THEN None ELSE acked[k]]
    /\ Unlock
    /\ UNCHANGED <<file, temp, unremoved, writes, crashes>>

Remove ==
    \/ \E k \in todo : Unlink(k) \/ UnlinkFails(k)
    \/ Removed

-----------------------------------------------------------------------------
(* The process stops, and a new one loads what it finds. *)

Crash ==
    /\ pc # "down"
    /\ crashes < MaxCrashes
    /\ crashes' = crashes + 1
    /\ pc' = "down"
    /\ mem' = NoRows
    /\ touched' = {} /\ value' = None /\ todo' = {}
    /\ acked' = [k \in Rows |-> IF k \in touched THEN file[k] ELSE acked[k]]
    /\ UNCHANGED <<file, temp, unremoved, writes>>

Readable == \A k \in Rows : file[k] # Torn

\* load_billets, load_policies and load_keys; they fail if one file does not
\* parse, and skip the temporary files.
Load ==
    /\ pc = "down"
    /\ Readable
    /\ mem' = file
    /\ acked' = file
    /\ unremoved' = {}
    /\ pc' = "idle"
    /\ UNCHANGED <<file, temp, opVars, writes, crashes>>

-----------------------------------------------------------------------------
\* get_billet, list_billets, get_policy, list_policies_for_billet,
\* list_all_policies and get_active_ephemeral_keys wait for the lock, and
\* change nothing.
ReadRows == pc = "idle" /\ UNCHANGED vars

\* What the callers ask for.  PolicyCrudService::create has seen the billet; its
\* race with a deletion is the subject of AdminCrud.
Begin ==
    \/ \E k \in Rows, v \in Values :
          \/ (k \in Policies => mem[BilletOf[k]] # None) /\ CreateRow(k, v)
          \/ UpdateRow(k, v)
          \/ put_ephemeral_key(k, v)
    \/ \E p \in Policies : delete_policy(p)
    \/ \E b \in Billets : delete_billet_cascade(b)
    \/ \E ks \in (SUBSET {k \in KeyIds : mem[k] # None}) \ {{}} : delete_expired_ephemeral_keys(ks)

LocalNext == ReadRows \/ Begin \/ AtomicWrite \/ Remove \/ Crash \/ Load

LocalSpec == LocalInit /\ [][LocalNext]_vars

-----------------------------------------------------------------------------
(* Properties. *)

\* Whenever the process stops, the next one can load the store: no row's file
\* is ever half written (atomic_write).
AlwaysLoadable == Readable

\* What a restart would bring back, at any moment, is what the callers were
\* told, row by row: the file of a row holds its acknowledged contents, or
\* already what the operation under way gives it, unless a removal failed.
AcknowledgedRowsSurvive ==
    \A k \in Rows \ unremoved :
        \/ file[k] = acked[k]
        \/ k \in touched /\ file[k] = value

\* Once the lock is free, readers see what the callers were told: an operation
\* that failed half way has changed nothing in memory.
MemoryIsAcknowledged == pc = "idle" => mem = acked
=============================================================================
