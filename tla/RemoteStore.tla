----------------------------- MODULE RemoteStore -----------------------------
(***************************************************************************)
(* DynamoDataStore and FirestoreDataStore: the DataStore trait over a       *)
(* remote database that several instances of the service share.  There is   *)
(* no lock: an operation that takes several calls (a cascade, a purge, a    *)
(* paged listing, a check followed by a write) meets the calls of others    *)
(* between any two of its own.  A call may fail, and one that fails may     *)
(* have been carried out; a handler may stop after any call.                *)
(*                                                                         *)
(* DynamoDB reads are eventually consistent (no query, scan or get asks for *)
(* a consistent read), its conditional writes are checked on the row        *)
(* itself; Firestore reads are consistent.  A row is reduced to its status  *)
(* and, for a billet, its tags.  "partial" is a Firestore document with the *)
(* fields of an update's mask only: it does not deserialize.                *)
(***************************************************************************)
EXTENDS Naturals, FiniteSets, FiniteSetsExt

CONSTANTS
    Clients,      \* tasks that call the store, of all instances
    Billets,      \* billet names
    Tags,         \* billet tags
    Policies,     \* policy keys
    BilletOf,     \* BilletOf[p]: the billet of policy p
    KeyIds,       \* ids of ephemeral key records
    BatchSize,    \* 25 for BatchWriteItem, 500 for a transaction
    MaxRetries,   \* how often a batch is sent again
    None,         \* a row no caller was told about
    MaxWrites     \* bound on the operations that write

Rows == Billets \cup Policies \cup KeyIds

ASSUME RemoteAssumption ==
    /\ Billets \cap Policies = {} /\ Billets \cap KeyIds = {} /\ Policies \cap KeyIds = {}
    /\ BilletOf \in [Policies -> Billets]
    /\ {"caller", "purge"} \cap Billets = {}   \* what else a listing is for
    /\ BatchSize \in Nat \ {0} /\ MaxRetries \in Nat /\ MaxWrites \in Nat

VARIABLES
    backend,   \* the backend build_datastore chose
    doc,       \* doc[x]: "none", "whole" or "partial"
    tags,      \* tags[b]: the tags of row b
    fresh,     \* rows whose last change has not reached every replica
    expired,   \* key records whose expires_at has passed
    op,        \* op[c]: the operation client c is in
    writes,    \* operations that write, started so far
    acked,     \* history: what the callers were told of a row
    touched,   \* history: touched[c], listed rows changed since c began to list
    raced      \* history: policies written while a cascade of their billet ran

tableVars == <<doc, tags, fresh, expired>>
vars == <<backend, tableVars, op, writes, acked, touched, raced>>

\* A document has all its fields or, after an update that found none, those
\* of the update's mask.
Statuses == {"none", "whole", "partial"}

PoliciesOf(b) == {p \in Policies : BilletOf[p] = b}
Idle == [kind |-> "idle"]

Ops ==
    {Idle}
    \cup [kind : {"insert"}, row : Billets \cup Policies, tags : SUBSET Tags, checked : BOOLEAN]
    \cup [kind : {"update"}, row : Billets, tags : SUBSET Tags]
    \cup [kind : {"reread"}, row : Policies]
    \cup [kind : {"list"}, use : {"caller", "purge"} \cup Billets, table : BOOLEAN,
          of : SUBSET Rows, rest : SUBSET Rows, found : SUBSET Rows, cut : BOOLEAN]
    \cup [kind : {"listed"}, of : SUBSET Rows, found : SUBSET Rows, cut : BOOLEAN]
    \cup [kind : {"delete"}, use : {"purge"} \cup Billets, todo : SUBSET Rows,
          chunk : SUBSET Rows, retries : 0 .. MaxRetries]

RemoteTypes ==
    /\ backend \in {"dynamodb", "firestore"}
    /\ doc \in [Rows -> Statuses]
    /\ tags \in [Billets -> SUBSET Tags]
    /\ fresh \subseteq Rows
    /\ expired \subseteq KeyIds
    /\ op \in [Clients -> Ops]
    /\ writes \in 0 .. MaxWrites
    /\ acked \in [Rows -> {None} \cup SUBSET Tags]
    /\ touched \in [Clients -> SUBSET Rows]
    /\ raced \subseteq Policies
    /\ backend = "dynamodb" => \A x \in Rows : doc[x] # "partial"
    /\ backend = "firestore" => fresh = {}

\* build_datastore has connected to one of the two; the tables are what
\* earlier processes left, every policy with its billet.
RemoteInit ==
    /\ backend \in {"dynamodb", "firestore"}
    /\ doc \in {d \in [Rows -> {"none", "whole"}] :
                  /\ \A p \in Policies : d[p] = "whole" => d[BilletOf[p]] = "whole"
                  /\ \A k \in KeyIds : d[k] = "none"}
    /\ tags \in {tm \in [Billets -> SUBSET Tags] :
                   \A b \in Billets : doc[b] = "none" => tm[b] = {}}
    /\ fresh = {}
    /\ expired = {}
    /\ op = [c \in Clients |-> Idle]
    /\ writes = 0
    /\ acked = [x \in Rows |-> None]
    /\ touched = [c \in Clients |-> {}]
    /\ raced = {}

-----------------------------------------------------------------------------
(* One call of the database. *)

Cascading(b) ==
    \E c \in Clients : op[c].kind \in {"list", "delete"} /\ op[c].use = b

\* The status of the rows of D becomes st.  A caller that is told so (told is
\* not None) may rely on it.
Put(D, st, told) ==
    /\ doc' = [x \in Rows |-> IF x \in D THEN st ELSE doc[x]]
    /\ fresh' = IF backend = "firestore" THEN {}
                ELSE fresh \cup {x \in D : (doc[x] = "none") # (st = "none")}
    /\ touched' = [c \in Clients |-> IF op[c].kind \in {"list", "listed"}
                                     THEN touched[c] \cup (D \cap op[c].of) ELSE {}]
    /\ acked' = [x \in Rows |-> IF x \in D THEN told ELSE acked[x]]
    /\ raced' = IF st = "none" THEN raced \ D
                ELSE raced \cup {p \in D \cap Policies :
                       Cascading(BilletOf[p]) \/ doc[BilletOf[p]] # "whole"}

\* Nothing changes but the operation of client c.
Continue(c, next) ==
    /\ op' = [op EXCEPT ![c] = next]
    /\ touched' = IF next.kind \in {"list", "listed"} THEN touched
                  ELSE [touched EXCEPT ![c] = {}]
    /\ UNCHANGED <<backend, tableVars, acked, raced>>

Began == writes < MaxWrites /\ writes' = writes + 1

\* item_to_billet, item_to_policy and item_to_key give an attribute that is
\* missing a default: every item is a record.
ItemIsRecord(st) == st # "none"

\* A document deserializes only with all its fields.
DocIsRecord(st) == st = "whole"

IsRecord(x) == IF backend = "dynamodb" THEN ItemIsRecord(doc[x]) ELSE DocIsRecord(doc[x])

\* What get_item may answer: the replica it asks may be behind.
get_item(x) == IF x \in fresh THEN {"none", "whole"} ELSE {doc[x]}

\* What a lookup of a document answers: "partial" is an error.
by_id_in(x) == {doc[x]}

Lookup(x) == IF backend = "dynamodb" THEN get_item(x) ELSE by_id_in(x)

Settle(x) ==
    /\ x \in fresh
    /\ fresh' = fresh \ {x}
    /\ UNCHANGED <<backend, doc, tags, expired, op, writes, acked, touched, raced>>

Expire(k) ==
    /\ doc[k] = "whole" /\ k \notin expired
    /\ expired' = expired \cup {k}
    /\ UNCHANGED <<backend, doc, tags, fresh, op, writes, acked, touched, raced>>

-----------------------------------------------------------------------------
(* Writes of one row.  The admin API looks for the billet before it calls. *)

BeginInsert(c, x, ts) ==
    Continue(c, [kind |-> "insert", row |-> x, tags |-> ts, checked |-> backend = "dynamodb"])

\* BilletCrud::create has not found the name.
BeginCreateBillet(c, b, ts) ==
    op[c] = Idle /\ "none" \in Lookup(b) /\ Began /\ BeginInsert(c, b, ts)

\* PolicyCrud::create has found the billet; the id is a new one.
BeginCreatePolicy(c, p) ==
    /\ op[c] = Idle /\ "whole" \in Lookup(BilletOf[p]) /\ Began
    /\ doc[p] = "none" /\ p \notin fresh
    /\ BeginInsert(c, p, {})

\* Firestore: the document is looked up before it is inserted.
CheckDocument(c) ==
    /\ op[c].kind = "insert" /\ ~op[c].checked
    /\ Continue(c, IF doc[op[c].row] = "none" THEN [op[c] EXCEPT !.checked = TRUE] ELSE Idle)
    /\ UNCHANGED writes

\* told = None: the row is written and the answer is lost.
Insert(c, told) ==
    /\ op[c].kind = "insert" /\ op[c].checked
    /\ told \in {op[c].tags, None}
    /\ Put({op[c].row}, "whole", told)
    /\ tags' = IF op[c].row \in Billets THEN [tags EXCEPT ![op[c].row] = op[c].tags] ELSE tags
    /\ op' = [op EXCEPT ![c] = Idle]
    /\ UNCHANGED <<backend, expired, writes>>

\* put_item with attribute_not_exists, in the billets and the policies table.
PutBilletItem(c, told) ==
    /\ backend = "dynamodb"
    /\ op[c].kind = "insert" /\ op[c].row \in Billets
    /\ doc[op[c].row] = "none"
    /\ Insert(c, told)

PutPolicyItem(c, told) ==
    /\ backend = "dynamodb"
    /\ op[c].kind = "insert" /\ op[c].row \in Policies
    /\ doc[op[c].row] = "none"
    /\ Insert(c, told)

\* An insert with a document id fails when the document is there.
InsertBilletDoc(c, told) ==
    /\ backend = "firestore"
    /\ op[c].kind = "insert" /\ op[c].row \in Billets
    /\ doc[op[c].row] = "none"
    /\ Insert(c, told)

InsertPolicyDoc(c, told) ==
    /\ backend = "firestore"
    /\ op[c].kind = "insert" /\ op[c].row \in Policies
    /\ doc[op[c].row] = "none"
    /\ Insert(c, told)

\* BilletCrud::update reads the record and writes it back.
BeginUpdateBillet(c, b, ts) ==
    /\ op[c] = Idle /\ "whole" \in Lookup(b) /\ Began
    /\ Continue(c, [kind |-> "update", row |-> b, tags |-> ts])

\* Mutant: update_item without its condition.
UnconditionalUpdate(c, told) ==
    /\ op[c].kind = "update" /\ backend = "dynamodb"
    /\ told \in {op[c].tags, None}
    /\ Put({op[c].row}, IF doc[op[c].row] = "none" THEN "partial" ELSE "whole", told)
    /\ tags' = [tags EXCEPT ![op[c].row] = IF op[c].tags = {} THEN @ ELSE op[c].tags]
    /\ op' = [op EXCEPT ![c] = Idle]
    /\ UNCHANGED <<backend, expired, writes>>

\* update_item with attribute_exists.  A string set cannot be empty, so that
\* the expression without tags is sent and the old ones stay.
UpdateBilletItem(c, told) ==
    /\ op[c].kind = "update" /\ backend = "dynamodb"
    /\ doc[op[c].row] = "whole"
    /\ told \in {op[c].tags, None}
    /\ Put({op[c].row}, "whole", told)
    /\ tags' = [tags EXCEPT ![op[c].row] = IF op[c].tags = {} THEN @ ELSE op[c].tags]
    /\ op' = [op EXCEPT ![c] = Idle]
    /\ UNCHANGED <<backend, expired, writes>>

\* An update with a field mask writes a document that is not there, with the
\* fields of the mask; the answer does not deserialize, and the caller gets an
\* error.
UpdateBilletDoc(c, told) ==
    /\ op[c].kind = "update" /\ backend = "firestore"
    /\ told \in {op[c].tags, None}
    /\ IF doc[op[c].row] = "whole" THEN Put({op[c].row}, "whole", told)
       ELSE told = None /\ Put({op[c].row}, "partial", None)
    /\ tags' = [tags EXCEPT ![op[c].row] = op[c].tags]
    /\ op' = [op EXCEPT ![c] = Idle]
    /\ UNCHANGED <<backend, expired, writes>>

\* PolicyCrud::update writes without a read before it, and reads after it.
UpdatePolicyItem(c, p) ==
    /\ op[c] = Idle /\ backend = "dynamodb" /\ doc[p] = "whole" /\ Began
    /\ Put({p}, "whole", None)
    /\ op' = [op EXCEPT ![c] = [kind |-> "reread", row |-> p]]
    /\ UNCHANGED <<backend, tags, expired>>

UpdatePolicyDoc(c, p) ==
    /\ op[c] = Idle /\ backend = "firestore" /\ Began
    /\ Put({p}, IF doc[p] = "whole" THEN "whole" ELSE "partial", None)
    /\ op' = [op EXCEPT ![c] = IF doc[p] = "whole" THEN [kind |-> "reread", row |-> p] ELSE Idle]
    /\ UNCHANGED <<backend, tags, expired>>

\* The caller is told of the update only if get_policy finds the row.
RereadPolicy(c) ==
    /\ op[c].kind = "reread" /\ "whole" \in Lookup(op[c].row)
    /\ op' = [op EXCEPT ![c] = Idle]
    /\ acked' = [acked EXCEPT ![op[c].row] = IF doc[op[c].row] = "whole" THEN {} ELSE @]
    /\ UNCHANGED <<backend, tableVars, writes, touched, raced>>

\* Neither backend asks whether the row is there.
DeletePolicyItem(c, p) ==
    /\ op[c] = Idle /\ Began /\ backend = "dynamodb"
    /\ Put({p}, "none", None)
    /\ UNCHANGED <<backend, tags, expired, op>>

DeletePolicyDoc(c, p) ==
    /\ op[c] = Idle /\ Began /\ backend = "firestore"
    /\ Put({p}, "none", None)
    /\ UNCHANGED <<backend, tags, expired, op>>

\* put_item without a condition, an update with all fields in its mask.
PutKeyItem(c, k) ==
    /\ op[c] = Idle /\ doc[k] = "none" /\ k \notin expired /\ Began
    /\ backend = "dynamodb"
    /\ Put({k}, "whole", {})
    /\ UNCHANGED <<backend, tags, expired, op>>

PutKeyDoc(c, k) ==
    /\ op[c] = Idle /\ doc[k] = "none" /\ k \notin expired /\ Began
    /\ backend = "firestore"
    /\ Put({k}, "whole", {})
    /\ UNCHANGED <<backend, tags, expired, op>>

-----------------------------------------------------------------------------
(* Listings for a caller, the query of a cascade and that of a purge. `table`
   marks a listing of a whole table. *)

BeginListing(c, use, target, table) ==
    /\ op[c] = Idle
    /\ op' = [op EXCEPT ![c] = [kind |-> "list", use |-> use, table |-> table,
                                of |-> target, rest |-> target, found |-> {}, cut |-> FALSE]]
    /\ touched' = [touched EXCEPT ![c] = fresh \cap target]
    /\ UNCHANGED <<backend, tableVars, acked>>

list_billets(c) == BeginListing(c, "caller", Billets, TRUE) /\ UNCHANGED <<writes, raced>>
list_all_policies(c) == BeginListing(c, "caller", Policies, TRUE) /\ UNCHANGED <<writes, raced>>

\* The key records a filter with expires_at > now and expires_at <= before lets
\* through; the time is that of the call.
ActiveKeys == KeyIds \ expired
ExpiredKeys == KeyIds \cap expired

get_active_ephemeral_keys(c) ==
    BeginListing(c, "caller", ActiveKeys, FALSE) /\ UNCHANGED <<writes, raced>>

delete_expired_ephemeral_keys(c) ==
    /\ ExpiredKeys # {} /\ Began
    /\ BeginListing(c, "purge", ExpiredKeys, FALSE)
    /\ UNCHANGED raced

\* BilletCrud::delete has found the billet.  A policy that is not yet on every
\* replica counts as written at the same time.
delete_billet_cascade(c, b) ==
    /\ "whole" \in Lookup(b) /\ Began
    /\ BeginListing(c, b, PoliciesOf(b), FALSE)
    /\ raced' = raced \cup (PoliciesOf(b) \cap fresh)

\* A listing is over: the caller has it, or the rows found are to be deleted.
Listed(o, found, cut) ==
    IF o.use = "caller"
    THEN [kind |-> "listed", of |-> o.of, found |-> found, cut |-> cut]
    ELSE [kind |-> "delete", use |-> o.use, todo |-> found, chunk |-> {}, retries |-> 0]

\* The rows of a page that a read of it may return.
Returned(page) ==
    {rows \in SUBSET page : \A x \in page \ fresh : x \in rows <=> IsRecord(x)}

\* What the next page may cover: something, unless nothing is left.
Pages(o) == IF o.rest = {} THEN {{}} ELSE (SUBSET o.rest) \ {{}}

AfterPage(o, page, rows) ==
    IF page = o.rest THEN Listed(o, o.found \cup rows, FALSE)
    ELSE [o EXCEPT !.rest = @ \ page, !.found = @ \cup rows]

\* Mutant: last_evaluated_key is ignored.
OnePage(c) ==
    /\ op[c].kind = "list" /\ backend = "dynamodb"
    /\ \E page \in Pages(op[c]) : \E rows \in Returned(page) :
          Continue(c, Listed(op[c], rows, FALSE))
    /\ UNCHANGED writes

\* A query or a scan goes on while there is a last_evaluated_key.
ItemPage(c) ==
    /\ op[c].kind = "list" /\ backend = "dynamodb"
    /\ \E page \in Pages(op[c]) : \E rows \in Returned(page) :
          Continue(c, AfterPage(op[c], page, rows))
    /\ UNCHANGED writes

\* A Firestore query is answered from one snapshot, or fails.
QueryDocs(c) ==
    /\ op[c].kind = "list" /\ backend = "firestore" /\ ~op[c].table
    /\ \E rows \in Returned(op[c].rest) : Continue(c, AfterPage(op[c], op[c].rest, rows))
    /\ UNCHANGED writes

\* stream_all reads page after page ...
StreamPage(c) ==
    /\ op[c].kind = "list" /\ backend = "firestore" /\ op[c].table
    /\ \E page \in Pages(op[c]) : \E rows \in Returned(page) :
          Continue(c, AfterPage(op[c], page, rows))
    /\ UNCHANGED writes

\* ... and has no place for an error: a page that fails ends the stream, and
\* what was collected is returned with Ok.
StreamCut(c) ==
    /\ op[c].kind = "list" /\ backend = "firestore" /\ op[c].table
    /\ Continue(c, Listed(op[c], op[c].found, TRUE))
    /\ UNCHANGED writes

Reply(c) ==
    /\ op[c].kind = "listed"
    /\ Continue(c, Idle)
    /\ UNCHANGED writes

-----------------------------------------------------------------------------
(* Batches of deletions. *)

Deleting(c, use) == op[c].kind = "delete" /\ op[c].use \in use

\* The batch in hand, or the next one.
Chunks(o) ==
    IF o.chunk # {} THEN {o.chunk}
    ELSE {ch \in SUBSET o.todo : Cardinality(ch) = Min({BatchSize, Cardinality(o.todo)})}

\* The batch is done: on to the next one.
Done(o, chunk) == [o EXCEPT !.todo = @ \ chunk, !.chunk = {}, !.retries = 0]

\* The rows of `gone` are deleted and the operation goes on as `next`.
DeleteRows(c, gone, next) ==
    /\ Put(gone, "none", None)
    /\ op' = [op EXCEPT ![c] = next]
    /\ UNCHANGED <<backend, tags, expired, writes>>

\* Mutant: what comes back unprocessed is taken for done.
Processed(o, chunk, left) == Done(o, chunk)

\* Mutant: one retry more than allowed.
OneRetryMore(o, chunk, left) ==
    IF left = {} THEN Done(o, chunk)
    ELSE IF o.retries > MaxRetries THEN Idle
    ELSE [o EXCEPT !.chunk = chunk, !.retries = @ + 1]

\* The whole batch is sent again, up to MaxRetries times, and then the cascade
\* gives up.
AfterBatch(o, chunk, left) ==
    IF left = {} THEN Done(o, chunk)
    ELSE IF o.retries = MaxRetries THEN Idle
    ELSE [o EXCEPT !.chunk = chunk, !.retries = @ + 1]

\* batch_write_item: the rows of `left` come back unprocessed.
BatchWritePolicies(c) ==
    /\ Deleting(c, Billets) /\ op[c].todo # {} /\ backend = "dynamodb"
    /\ \E chunk \in Chunks(op[c]) : \E left \in SUBSET chunk :
          DeleteRows(c, chunk \ left, AfterBatch(op[c], chunk, left))

\* A purge does not look at what comes back.
BatchWriteKeys(c) ==
    /\ Deleting(c, {"purge"}) /\ op[c].todo # {} /\ backend = "dynamodb"
    /\ \E chunk \in Chunks(op[c]) : \E left \in SUBSET chunk :
          DeleteRows(c, chunk \ left, Done(op[c], chunk))

\* begin_transaction ... commit.
CommitPolicies(c) ==
    /\ Deleting(c, Billets) /\ op[c].todo # {} /\ backend = "firestore"
    /\ \E chunk \in Chunks(op[c]) : DeleteRows(c, chunk, Done(op[c], chunk))

CommitKeys(c) ==
    /\ Deleting(c, {"purge"}) /\ op[c].todo # {} /\ backend = "firestore"
    /\ \E chunk \in Chunks(op[c]) : DeleteRows(c, chunk, Done(op[c], chunk))

\* The billet itself, unconditionally; the cascade returns Ok.
DeleteBilletItem(c) ==
    /\ Deleting(c, Billets) /\ op[c].todo = {} /\ backend = "dynamodb"
    /\ DeleteRows(c, {op[c].use}, Idle)

DeleteBilletDoc(c) ==
    /\ Deleting(c, Billets) /\ op[c].todo = {} /\ backend = "firestore"
    /\ DeleteRows(c, {op[c].use}, Idle)

PurgeReturns(c) ==
    /\ Deleting(c, {"purge"}) /\ op[c].todo = {}
    /\ Continue(c, Idle)
    /\ UNCHANGED writes

\* A call fails without effect, or the handler is dropped, or its instance
\* stops.  A batch that fails after a part of it was carried out is a batch
\* with rows left, followed by this.
Abandon(c) ==
    /\ op[c].kind \notin {"idle", "listed"}
    /\ Continue(c, Idle)
    /\ UNCHANGED writes

-----------------------------------------------------------------------------
CreateOrUpdate(c) ==
    \/ \E b \in Billets, ts \in SUBSET Tags :
         BeginCreateBillet(c, b, ts) \/ BeginUpdateBillet(c, b, ts)
    \/ \E p \in Policies :
         BeginCreatePolicy(c, p) \/ UpdatePolicyItem(c, p) \/ UpdatePolicyDoc(c, p)
    \/ CheckDocument(c) \/ RereadPolicy(c)
    \/ \E told \in {None} \cup SUBSET Tags :
         \/ PutBilletItem(c, told) \/ PutPolicyItem(c, told)
         \/ InsertBilletDoc(c, told) \/ InsertPolicyDoc(c, told)
         \/ UpdateBilletItem(c, told) \/ UpdateBilletDoc(c, told)
    \/ \E k \in KeyIds : PutKeyItem(c, k) \/ PutKeyDoc(c, k)

Delete(c) ==
    \/ \E p \in Policies : DeletePolicyItem(c, p) \/ DeletePolicyDoc(c, p)
    \/ \E b \in Billets : delete_billet_cascade(c, b)
    \/ delete_expired_ephemeral_keys(c)
    \/ BatchWritePolicies(c) \/ BatchWriteKeys(c) \/ CommitPolicies(c) \/ CommitKeys(c)
    \/ DeleteBilletItem(c) \/ DeleteBilletDoc(c) \/ PurgeReturns(c)

List(c) ==
    \/ list_billets(c) \/ list_all_policies(c) \/ get_active_ephemeral_keys(c)
    \/ ItemPage(c) \/ QueryDocs(c) \/ StreamPage(c) \/ StreamCut(c) \/ Reply(c)

RemoteNext ==
    \/ \E x \in Rows : Settle(x)
    \/ \E k \in KeyIds : Expire(k)
    \/ \E c \in Clients : CreateOrUpdate(c) \/ Delete(c) \/ List(c) \/ Abandon(c)

RemoteSpec == RemoteInit /\ [][RemoteNext]_vars

-----------------------------------------------------------------------------
\* delete_billet_cascade removes policies before their billet and gives up
\* before it when a batch does not go through.  So, whatever fails and
\* whoever stops half-way, a policy is without its billet only if it was
\* written while a cascade of that billet was under way.
OrphansOnlyFromRaces ==
    \A p \in Policies :
        doc[p] = "whole" /\ doc[BilletOf[p]] = "none" => p \in raced

\* A listing that was read to its end holds exactly the rows that were there
\* from its beginning to its end, over any number of pages and whatever is
\* written in between; about the others it may say anything.
ListingsAreComplete ==
    \A c \in Clients :
        op[c].kind = "listed" /\ ~op[c].cut =>
            \A x \in op[c].of \ touched[c] : x \in op[c].found <=> doc[x] = "whole"

\* What a caller was told of a row holds until somebody changes the row: it
\* is there and whole, with the tags the caller gave.  The exception is an
\* update on DynamoDB that removes every tag: it keeps the old ones.
AcknowledgedRowsStored ==
    \A x \in Rows : acked[x] # None =>
        /\ doc[x] = "whole"
        /\ x \in Billets => \/ tags[x] = acked[x]
                            \/ backend = "dynamodb" /\ acked[x] = {}

\* The same without the exception: "storing the billet metadata with those tags
\* and then retrieving it [...] SHALL produce a `tags` attribute that is equal to
\* the original tag set".  An update that removes every tag breaks it on DynamoDB.
UpdatedTagsStored ==
    \A b \in Billets : acked[b] # None => tags[b] = acked[b]
=============================================================================
