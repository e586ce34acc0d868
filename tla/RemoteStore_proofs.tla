-------------------------- MODULE RemoteStore_proofs --------------------------
(***************************************************************************)
(* Theorems about RemoteStore for any sets of clients, billets, policies    *)
(* and key records, any batch size and any number of operations: what       *)
(* survives when the calls of several instances meet between any two of     *)
(* one operation's own, fail, and are answered by replicas that are behind. *)
(***************************************************************************)
EXTENDS RemoteStore, TLAPS

(***************************************************************************)
(* The inductive invariant.                                                 *)
(***************************************************************************)

\* A cascade knows of every policy of its billet that it did not race: it has
\* still to list it, has found it, or has it among those to delete.
CascadeMissesNone ==
    \A c \in Clients : \A b \in Billets : \A p \in PoliciesOf(b) :
        doc[p] = "whole" /\ p \notin raced =>
            /\ op[c].kind = "list" /\ op[c].use = b => p \in op[c].rest \cup op[c].found
            /\ op[c].kind = "delete" /\ op[c].use = b => p \in op[c].todo

\* A policy that some replica does not have yet, of a billet that is being
\* deleted, counts as raced.
FreshIsRaced ==
    \A p \in Policies :
        Cascading(BilletOf[p]) /\ doc[p] = "whole" /\ p \in fresh => p \in raced

\* A cascade lists and deletes policies of its billet only, a purge key
\* records only.
OwnRows(use) == IF use = "purge" THEN KeyIds ELSE PoliciesOf(use)

DeletesOwnRows ==
    \A c \in Clients :
        /\ op[c].kind = "list" /\ op[c].use # "caller" => op[c].of \subseteq OwnRows(op[c].use)
        /\ op[c].kind = "delete" => op[c].todo \subseteq OwnRows(op[c].use)
                                    /\ op[c].chunk \subseteq op[c].todo

\* A listing has split what it covers into pages read and pages to read; only
\* callers list whole tables.
ListingSplit ==
    \A c \in Clients : op[c].kind = "list" =>
        /\ op[c].rest \subseteq op[c].of
        /\ op[c].found \subseteq op[c].of \ op[c].rest
        /\ ~op[c].cut
        /\ op[c].table => op[c].use = "caller"

\* A row of a listing that nobody has touched is the same on every replica.
UntouchedIsSettled ==
    \A c \in Clients : op[c].kind \in {"list", "listed"} =>
        \A x \in op[c].of \ touched[c] : x \notin fresh

\* The pages a listing has read hold exactly the untouched rows that are there.
PagesAreComplete ==
    \A c \in Clients : op[c].kind = "list" =>
        \A x \in op[c].of \ (touched[c] \cup op[c].rest) : x \in op[c].found <=> doc[x] = "whole"

RemoteInv ==
    /\ RemoteTypes
    /\ OrphansOnlyFromRaces
    /\ ListingsAreComplete
    /\ AcknowledgedRowsStored
    /\ CascadeMissesNone
    /\ FreshIsRaced
    /\ DeletesOwnRows
    /\ ListingSplit
    /\ UntouchedIsSettled
    /\ PagesAreComplete

-----------------------------------------------------------------------------
(***************************************************************************)
(* The operations a client may be in.                                       *)
(***************************************************************************)

InsertOps == [kind : {"insert"}, row : Billets \cup Policies, tags : SUBSET Tags,
              checked : BOOLEAN]
UpdateOps == [kind : {"update"}, row : Billets, tags : SUBSET Tags]
RereadOps == [kind : {"reread"}, row : Policies]
ListOps == [kind : {"list"}, use : {"caller", "purge"} \cup Billets, table : BOOLEAN,
            of : SUBSET Rows, rest : SUBSET Rows, found : SUBSET Rows, cut : BOOLEAN]
ListedOps == [kind : {"listed"}, of : SUBSET Rows, found : SUBSET Rows, cut : BOOLEAN]
DeleteOps == [kind : {"delete"}, use : {"purge"} \cup Billets, todo : SUBSET Rows,
              chunk : SUBSET Rows, retries : 0 .. MaxRetries]

\* The kind of an operation tells which fields it has.
LEMMA OpOfKind ==
    ASSUME NEW o \in Ops
    PROVE  /\ o.kind = "idle" => o = Idle
           /\ o.kind = "insert" => o \in InsertOps
           /\ o.kind = "update" => o \in UpdateOps
           /\ o.kind = "reread" => o \in RereadOps
           /\ o.kind = "list" => o \in ListOps
           /\ o.kind = "listed" => o \in ListedOps
           /\ o.kind = "delete" => o \in DeleteOps
<1>1. /\ Idle.kind = "idle"
      /\ \A r \in InsertOps : r.kind = "insert"
      /\ \A r \in UpdateOps : r.kind = "update"
      /\ \A r \in RereadOps : r.kind = "reread"
      /\ \A r \in ListOps : r.kind = "list"
      /\ \A r \in ListedOps : r.kind = "listed"
      /\ \A r \in DeleteOps : r.kind = "delete"
  BY DEF Idle, InsertOps, UpdateOps, RereadOps, ListOps, ListedOps, DeleteOps
<1>2. o \in {Idle} \cup InsertOps \cup UpdateOps \cup RereadOps \cup ListOps \cup ListedOps
            \cup DeleteOps
  BY DEF Ops, InsertOps, UpdateOps, RereadOps, ListOps, ListedOps, DeleteOps
<1> QED BY <1>1, <1>2

LEMMA OpsContains ==
    Idle \in Ops /\ InsertOps \subseteq Ops /\ UpdateOps \subseteq Ops /\ RereadOps \subseteq Ops
    /\ ListOps \subseteq Ops /\ ListedOps \subseteq Ops /\ DeleteOps \subseteq Ops
BY DEF Ops, InsertOps, UpdateOps, RereadOps, ListOps, ListedOps, DeleteOps

\* The tables an earlier process left satisfy the invariant.
LEMMA InitEstablishesInv ==
    ASSUME RemoteInit
    PROVE  RemoteInv
<1>1. \A c \in Clients : op[c] = Idle /\ op[c].kind = "idle"
  BY DEF RemoteInit, Idle
<1>2. RemoteTypes
  <2>1. op \in [Clients -> Ops]
    BY OpsContains DEF RemoteInit
  <2>2. doc \in [Rows -> Statuses] /\ \A x \in Rows : doc[x] # "partial"
    BY DEF RemoteInit, Statuses
  <2>3. tags \in [Billets -> SUBSET Tags]
    BY DEF RemoteInit
  <2> QED BY <2>1, <2>2, <2>3, RemoteAssumption DEF RemoteInit, RemoteTypes
<1>3. OrphansOnlyFromRaces
  <2>1. \A p \in Policies : doc[p] = "whole" => doc[BilletOf[p]] = "whole"
    BY DEF RemoteInit
  <2> QED BY <2>1 DEF OrphansOnlyFromRaces
<1>4. AcknowledgedRowsStored
  BY DEF RemoteInit, AcknowledgedRowsStored
<1>5. ListingsAreComplete /\ CascadeMissesNone /\ DeletesOwnRows /\ ListingSplit
      /\ UntouchedIsSettled /\ PagesAreComplete
  BY <1>1 DEF ListingsAreComplete, CascadeMissesNone, DeletesOwnRows, ListingSplit,
     UntouchedIsSettled, PagesAreComplete
<1>6. FreshIsRaced
  BY DEF RemoteInit, FreshIsRaced
<1> QED BY <1>2, <1>3, <1>4, <1>5, <1>6 DEF RemoteInv

-----------------------------------------------------------------------------
(***************************************************************************)
(* A call that writes rows, made by client c, after which c goes on with    *)
(* `next`, which is not a listing.                                          *)
(***************************************************************************)

WriteCall(c, D, st, told, next) ==
    /\ c \in Clients
    /\ D \subseteq Rows
    /\ st \in Statuses
    /\ told \in {None} \cup SUBSET Tags
    /\ next \in Ops
    /\ next.kind \notin {"list", "listed"}
    /\ Put(D, st, told)
    /\ op' = [op EXCEPT ![c] = next]
    /\ UNCHANGED <<backend, expired>>
    /\ writes' \in 0 .. MaxWrites

\* Only Firestore writes partial documents.
LEMMA WriteKeepsTypes ==
    ASSUME RemoteTypes,
           NEW c, NEW D, NEW st, NEW told, NEW next, WriteCall(c, D, st, told, next),
           st = "partial" => backend = "firestore",
           tags' \in [Billets -> SUBSET Tags]
    PROVE  RemoteTypes'
<1>1. doc' \in [Rows -> Statuses] /\ (backend = "dynamodb" => \A x \in Rows : doc'[x] # "partial")
  BY DEF RemoteTypes, WriteCall, Put
<1>2. fresh' \subseteq Rows /\ (backend = "firestore" => fresh' = {})
  BY DEF RemoteTypes, WriteCall, Put
<1>3. op' \in [Clients -> Ops]
  BY DEF RemoteTypes, WriteCall
<1>4. acked' \in [Rows -> {None} \cup SUBSET Tags]
  BY DEF RemoteTypes, WriteCall, Put
<1>5. touched' \in [Clients -> SUBSET Rows]
  <2>1. ASSUME NEW d \in Clients
        PROVE  (IF op[d].kind \in {"list", "listed"} THEN touched[d] \cup (D \cap op[d].of) ELSE {})
                 \in SUBSET Rows
    BY DEF RemoteTypes, WriteCall
  <2> QED BY <2>1 DEF WriteCall, Put
<1>6. raced' \subseteq Policies
  BY DEF RemoteTypes, WriteCall, Put
<1> QED BY <1>1, <1>2, <1>3, <1>4, <1>5, <1>6 DEF RemoteTypes, WriteCall

\* A write counts as a touch for every listing that covers the row.
LEMMA WriteKeepsListings ==
    ASSUME RemoteInv,
           NEW c, NEW D, NEW st, NEW told, NEW next, WriteCall(c, D, st, told, next)
    PROVE  ListingsAreComplete' /\ ListingSplit' /\ UntouchedIsSettled' /\ PagesAreComplete'
<1> SUFFICES ASSUME NEW d \in Clients, op'[d].kind \in {"list", "listed"}
             PROVE  /\ op'[d].kind = "listed" /\ ~op'[d].cut =>
                         \A x \in op'[d].of \ touched'[d] : x \in op'[d].found <=> doc'[x] = "whole"
                    /\ op'[d].kind = "list" =>
                         /\ op'[d].rest \subseteq op'[d].of
                         /\ op'[d].found \subseteq op'[d].of \ op'[d].rest
                         /\ ~op'[d].cut
                         /\ op'[d].table => op'[d].use = "caller"
                    /\ \A x \in op'[d].of \ touched'[d] : x \notin fresh'
                    /\ op'[d].kind = "list" =>
                         \A x \in op'[d].of \ (touched'[d] \cup op'[d].rest) :
                             x \in op'[d].found <=> doc'[x] = "whole"
  BY DEF ListingsAreComplete, ListingSplit, UntouchedIsSettled, PagesAreComplete
<1>1. op'[d] = op[d]
  BY DEF WriteCall, RemoteInv, RemoteTypes
<1>2. touched'[d] = touched[d] \cup (D \cap op[d].of)
  BY <1>1 DEF WriteCall, Put
<1>3. op[d].of \subseteq Rows
  BY <1>1, OpOfKind DEF RemoteInv, RemoteTypes, ListOps, ListedOps
<1>4. ASSUME NEW x \in op[d].of \ touched'[d]
      PROVE  x \in op[d].of \ touched[d] /\ doc'[x] = doc[x] /\ x \notin fresh'
  <2>1. x \in Rows /\ x \notin D /\ x \notin touched[d]
    BY <1>2, <1>3
  <2>2. x \notin fresh
    BY <1>1, <2>1 DEF RemoteInv, UntouchedIsSettled
  <2> QED BY <2>1, <2>2 DEF WriteCall, Put
<1> QED BY <1>1, <1>2, <1>4 DEF RemoteInv, ListingsAreComplete, ListingSplit, PagesAreComplete

\* What the caller is told is what is written.
LEMMA WriteKeepsAcknowledged ==
    ASSUME RemoteInv,
           NEW c, NEW D, NEW st, NEW told, NEW next, WriteCall(c, D, st, told, next),
           told # None => st = "whole",
           told # None => \A b \in D \cap Billets :
                             tags'[b] = told \/ (backend = "dynamodb" /\ told = {}),
           \A b \in Billets \ D : tags'[b] = tags[b]
    PROVE  AcknowledgedRowsStored'
<1> SUFFICES ASSUME NEW x \in Rows, acked'[x] # None
             PROVE  /\ doc'[x] = "whole"
                    /\ x \in Billets => \/ tags'[x] = acked'[x]
                                        \/ backend = "dynamodb" /\ acked'[x] = {}
  BY DEF AcknowledgedRowsStored, WriteCall
<1>1. CASE x \in D
  BY <1>1 DEF WriteCall, Put
<1>2. CASE x \notin D
  BY <1>2 DEF WriteCall, Put, RemoteInv, AcknowledgedRowsStored
<1> QED BY <1>1, <1>2

\* A billet is deleted when no policy of it is left but raced ones.
LEMMA WriteKeepsOrphans ==
    ASSUME RemoteInv,
           NEW c, NEW D, NEW st, NEW told, NEW next, WriteCall(c, D, st, told, next),
           st = "none" => \A b \in D \cap Billets : \A p \in PoliciesOf(b) :
                             doc[p] = "whole" => p \in raced
    PROVE  OrphansOnlyFromRaces'
<1> SUFFICES ASSUME NEW p \in Policies, doc'[p] = "whole", doc'[BilletOf[p]] = "none"
             PROVE  p \in raced'
  BY DEF OrphansOnlyFromRaces
<1>1. p \in Rows /\ BilletOf[p] \in Rows /\ BilletOf[p] \in Billets /\ p \in PoliciesOf(BilletOf[p])
  BY RemoteAssumption DEF Rows, PoliciesOf
<1>2. CASE st = "none"
  <2>1. p \notin D /\ doc[p] = "whole"
    BY <1>1, <1>2 DEF WriteCall, Put
  <2>2. p \in raced
    BY <1>1, <1>2, <2>1 DEF WriteCall, Put, RemoteInv, OrphansOnlyFromRaces
  <2> QED BY <1>2, <2>1, <2>2 DEF WriteCall, Put
<1>3. CASE st # "none"
  <2>1. doc[BilletOf[p]] = "none"
    BY <1>1, <1>3 DEF WriteCall, Put
  <2>2. CASE p \in D
    BY <1>3, <2>1, <2>2 DEF WriteCall, Put
  <2>3. CASE p \notin D
    BY <1>1, <1>3, <2>1, <2>3 DEF WriteCall, Put, RemoteInv, OrphansOnlyFromRaces
  <2> QED BY <2>2, <2>3
<1> QED BY <1>2, <1>3

\* A write cannot hide a policy from the cascades: one written meanwhile is
\* raced, and a cascade leaves out only what it has deleted.
LEMMA WriteKeepsCascades ==
    ASSUME RemoteInv,
           NEW c, NEW D, NEW st, NEW told, NEW next, WriteCall(c, D, st, told, next),
           next.kind = "delete" =>
               /\ op[c].kind = "delete" /\ next.use = op[c].use /\ st = "none"
               /\ op[c].use \in Billets => op[c].todo \ D \subseteq next.todo
               /\ next.todo \subseteq op[c].todo /\ next.chunk \subseteq next.todo
    PROVE  CascadeMissesNone' /\ FreshIsRaced' /\ DeletesOwnRows'
<1>1. \A d \in Clients : op'[d] = IF d = c THEN next ELSE op[d]
  BY DEF WriteCall, RemoteInv, RemoteTypes
<1>2. ASSUME NEW p \in Policies, doc'[p] = "whole", p \in D
      PROVE  st = "whole" /\ (Cascading(BilletOf[p]) => p \in raced')
  BY <1>2 DEF WriteCall, Put
<1>3. ASSUME NEW p \in Policies, doc'[p] = "whole", p \notin raced', p \notin D
      PROVE  doc[p] = "whole" /\ p \notin raced
  BY <1>3 DEF WriteCall, Put, Rows
<1>4. CascadeMissesNone'
  <2> SUFFICES ASSUME NEW d \in Clients, NEW b \in Billets, NEW p \in PoliciesOf(b),
                      doc'[p] = "whole", p \notin raced',
                      op'[d].kind \in {"list", "delete"}, op'[d].use = b
               PROVE  /\ op'[d].kind = "list" => p \in op'[d].rest \cup op'[d].found
                      /\ op'[d].kind = "delete" => p \in op'[d].todo
    BY DEF CascadeMissesNone, PoliciesOf
  <2>0. p \in Policies /\ BilletOf[p] = b
    BY DEF PoliciesOf
  <2>1. op[d].kind = op'[d].kind /\ op[d].use = b
    BY <1>1 DEF WriteCall
  <2>2. Cascading(b)
    BY <2>1 DEF Cascading
  <2>3. p \notin D
    BY <1>2, <2>0, <2>2
  <2>4. doc[p] = "whole" /\ p \notin raced
    BY <1>3, <2>0, <2>3
  <2>5. /\ op[d].kind = "list" => p \in op[d].rest \cup op[d].found
        /\ op[d].kind = "delete" => p \in op[d].todo
    BY <2>1, <2>4 DEF RemoteInv, CascadeMissesNone
  <2> QED BY <1>1, <2>1, <2>3, <2>5 DEF WriteCall
<1>5. FreshIsRaced'
  <2> SUFFICES ASSUME NEW p \in Policies, NEW d \in Clients,
                      op'[d].kind \in {"list", "delete"}, op'[d].use = BilletOf[p],
                      doc'[p] = "whole", p \in fresh', p \notin raced'
               PROVE  FALSE
    BY DEF FreshIsRaced, Cascading
  <2>1. Cascading(BilletOf[p])
    BY <1>1 DEF Cascading, WriteCall
  <2>2. p \notin D
    BY <1>2, <2>1
  <2>3. doc[p] = "whole" /\ p \notin raced
    BY <1>3, <2>2
  <2>4. p \in fresh
    BY <2>2 DEF WriteCall, Put
  <2> QED BY <2>1, <2>3, <2>4 DEF RemoteInv, FreshIsRaced
<1>6. DeletesOwnRows'
  <2> SUFFICES ASSUME NEW d \in Clients
               PROVE  /\ op'[d].kind = "list" /\ op'[d].use # "caller" =>
                           op'[d].of \subseteq OwnRows(op'[d].use)
                      /\ op'[d].kind = "delete" => op'[d].todo \subseteq OwnRows(op'[d].use)
                                                   /\ op'[d].chunk \subseteq op'[d].todo
    BY DEF DeletesOwnRows, OwnRows, PoliciesOf
  <2>1. CASE d = c
    BY <1>1, <2>1 DEF WriteCall, RemoteInv, DeletesOwnRows
  <2>2. CASE d # c
    BY <1>1, <2>2 DEF RemoteInv, DeletesOwnRows
  <2> QED BY <2>1, <2>2
<1> QED BY <1>4, <1>5, <1>6

-----------------------------------------------------------------------------
(***************************************************************************)
(* A step that leaves the tables alone.                                     *)
(***************************************************************************)

Quiet(c, next) ==
    /\ c \in Clients
    /\ next \in Ops
    /\ Continue(c, next)
    /\ writes' \in 0 .. MaxWrites

LEMMA QuietKeepsTables ==
    ASSUME RemoteInv, NEW c, NEW next, Quiet(c, next)
    PROVE  RemoteTypes' /\ OrphansOnlyFromRaces' /\ AcknowledgedRowsStored'
<1>1. op' \in [Clients -> Ops] /\ touched' \in [Clients -> SUBSET Rows]
  BY DEF RemoteInv, RemoteTypes, Quiet, Continue
<1> QED BY <1>1 DEF RemoteInv, RemoteTypes, OrphansOnlyFromRaces, AcknowledgedRowsStored, Quiet,
        Continue, tableVars

\* The next operation is no listing and no deletion.
LEMMA QuietElsewhere ==
    ASSUME RemoteInv, NEW c, NEW next, Quiet(c, next),
           next.kind \notin {"list", "listed", "delete"}
    PROVE  RemoteInv'
<1>1. \A d \in Clients : op'[d] = IF d = c THEN next ELSE op[d]
  BY DEF Quiet, Continue, RemoteInv, RemoteTypes
<1>2. \A d \in Clients : d # c => touched'[d] = touched[d]
  BY DEF Quiet, Continue, RemoteInv, RemoteTypes
<1>3. UNCHANGED <<doc, fresh, raced>>
  BY DEF Quiet, Continue, tableVars
<1>4. ListingsAreComplete' /\ ListingSplit' /\ UntouchedIsSettled' /\ PagesAreComplete'
  BY <1>1, <1>2, <1>3 DEF RemoteInv, ListingsAreComplete, ListingSplit, UntouchedIsSettled,
     PagesAreComplete
<1>5. CascadeMissesNone'
  BY <1>1, <1>3 DEF RemoteInv, CascadeMissesNone, PoliciesOf
<1>6. FreshIsRaced'
  BY <1>1, <1>3 DEF RemoteInv, FreshIsRaced, Cascading
<1>7. DeletesOwnRows'
  BY <1>1 DEF RemoteInv, DeletesOwnRows, OwnRows, PoliciesOf
<1> QED BY <1>4, <1>5, <1>6, <1>7, QuietKeepsTables DEF RemoteInv

\* The rows a read of a page returns are those that are there, but for rows
\* that have not settled.
LEMMA ReturnedRows ==
    ASSUME RemoteTypes, NEW page \in SUBSET Rows, NEW rows \in Returned(page)
    PROVE  rows \subseteq page /\ \A x \in page \ fresh : x \in rows <=> doc[x] = "whole"
<1>1. \A x \in Rows : IsRecord(x) <=> doc[x] = "whole"
  BY DEF RemoteTypes, Statuses, IsRecord, ItemIsRecord, DocIsRecord
<1> QED BY <1>1 DEF Returned

\* The operation n of a client that has read a page in the course of o.
PageRead(o, page, rows, n) ==
    /\ page = o.rest /\ o.use = "caller" =>
         n.kind = "listed" /\ n.of = o.of /\ n.found = o.found \cup rows
    /\ page = o.rest /\ o.use # "caller" =>
         n.kind = "delete" /\ n.use = o.use /\ n.todo = o.found \cup rows /\ n.chunk = {}
    /\ page # o.rest =>
         /\ n.kind = "list" /\ n.use = o.use /\ n.of = o.of /\ n.cut = o.cut
         /\ n.table = o.table /\ n.rest = o.rest \ page /\ n.found = o.found \cup rows

LEMMA AfterPageOp ==
    ASSUME NEW o \in ListOps, NEW page \in SUBSET Rows, NEW rows \in SUBSET Rows
    PROVE  /\ AfterPage(o, page, rows) \in Ops
           /\ PageRead(o, page, rows, AfterPage(o, page, rows))
<1> DEFINE n == AfterPage(o, page, rows)
<1>1. CASE page = o.rest /\ o.use = "caller"
  <2>1. n =
          [kind |-> "listed", of |-> o.of, found |-> o.found \cup rows, cut |-> FALSE]
    BY <1>1 DEF AfterPage, Listed
  <2>2. n \in ListedOps
    BY <2>1 DEF ListOps, ListedOps
  <2> QED BY <1>1, <2>1, <2>2, OpsContains DEF PageRead
<1>2. CASE page = o.rest /\ o.use # "caller"
  <2>1. n =
          [kind |-> "delete", use |-> o.use, todo |-> o.found \cup rows, chunk |-> {}, retries |-> 0]
    BY <1>2 DEF AfterPage, Listed
  <2>2. n \in DeleteOps
    BY <1>2, <2>1, RemoteAssumption DEF ListOps, DeleteOps
  <2> QED BY <1>2, <2>1, <2>2, OpsContains DEF PageRead
<1>3. CASE page # o.rest
  <2>1. n = [o EXCEPT !.rest = @ \ page, !.found = @ \cup rows]
    BY <1>3 DEF AfterPage
  <2>2. n \in ListOps
    BY <2>1 DEF ListOps
  <2> QED BY <1>3, <2>1, <2>2, OpsContains DEF ListOps, PageRead
<1> QED BY <1>1, <1>2, <1>3

\* A page is read, of a query or a scan, of a cascade, a purge or a listing for
\* a caller.
LEMMA PageKeepsInv ==
    ASSUME RemoteInv, NEW c \in Clients, op[c].kind = "list",
           NEW page \in SUBSET op[c].rest, NEW rows \in Returned(page),
           Continue(c, AfterPage(op[c], page, rows)), UNCHANGED writes
    PROVE  RemoteInv'
<1> DEFINE o == op[c]
           n == AfterPage(o, page, rows)
<1>0. o \in ListOps /\ page \in SUBSET Rows /\ rows \in SUBSET Rows /\ rows \subseteq page
  BY OpOfKind, ReturnedRows DEF RemoteInv, RemoteTypes, ListOps
<1>1. Quiet(c, n)
  BY <1>0, AfterPageOp DEF Quiet, RemoteInv, RemoteTypes
<1>2. \A d \in Clients : op'[d] = IF d = c THEN n ELSE op[d]
  BY DEF Continue, RemoteInv, RemoteTypes
<1>3. \A d \in Clients : d # c => touched'[d] = touched[d]
  BY DEF Continue, RemoteInv, RemoteTypes
<1>4. n.kind \in {"list", "listed"} => touched'[c] = touched[c]
  BY DEF Continue
<1>5. UNCHANGED <<doc, fresh, raced>>
  BY DEF Continue, tableVars
<1>6. \A x \in page \ fresh : x \in rows <=> doc[x] = "whole"
  BY <1>0, ReturnedRows DEF RemoteInv
<1>7. /\ o.rest \subseteq o.of /\ o.found \subseteq o.of \ o.rest /\ ~o.cut
      /\ o.table => o.use = "caller"
      /\ \A x \in o.of \ touched[c] : x \notin fresh
      /\ \A x \in o.of \ (touched[c] \cup o.rest) : x \in o.found <=> doc[x] = "whole"
  BY DEF RemoteInv, ListingSplit, UntouchedIsSettled, PagesAreComplete
<1>8. \A x \in o.of \ (touched[c] \cup (o.rest \ page)) :
          x \in o.found \cup rows <=> doc[x] = "whole"
  <2> SUFFICES ASSUME NEW x \in o.of \ (touched[c] \cup (o.rest \ page))
               PROVE  x \in o.found \cup rows <=> doc[x] = "whole"
    OBVIOUS
  <2>1. CASE x \in page
    BY <1>6, <1>7, <2>1
  <2>2. CASE x \notin page
    BY <1>0, <1>7, <2>2
  <2> QED BY <2>1, <2>2
<1>9. ASSUME o.use \in Billets, NEW p \in PoliciesOf(o.use), doc[p] = "whole", p \notin raced
      PROVE  p \in (o.rest \ page) \cup (o.found \cup rows)
  <2>1. p \in Policies /\ BilletOf[p] = o.use
    BY DEF PoliciesOf
  <2>2. p \in o.rest \cup o.found
    BY <1>9 DEF RemoteInv, CascadeMissesNone
  <2>3. Cascading(BilletOf[p])
    BY <2>1 DEF Cascading
  <2>4. p \notin fresh
    BY <1>9, <2>1, <2>3 DEF RemoteInv, FreshIsRaced
  <2> QED BY <1>6, <1>9, <2>2, <2>4
<1>a. o.use # "caller" => o.of \subseteq OwnRows(o.use)
  BY DEF RemoteInv, DeletesOwnRows
<1>b. PageRead(o, page, rows, n)
  BY <1>0, AfterPageOp
<1> HIDE DEF n
<1>c. ListingsAreComplete' /\ UntouchedIsSettled'
  <2> SUFFICES ASSUME NEW d \in Clients
               PROVE  /\ op'[d].kind = "listed" /\ ~op'[d].cut =>
                           \A x \in op'[d].of \ touched'[d] : x \in op'[d].found <=> doc'[x] = "whole"
                      /\ op'[d].kind \in {"list", "listed"} =>
                           \A x \in op'[d].of \ touched'[d] : x \notin fresh'
    BY DEF ListingsAreComplete, UntouchedIsSettled
  <2>1. CASE d = c
    BY <1>2, <1>4, <1>5, <1>7, <1>8, <1>b, <2>1 DEF PageRead
  <2>2. CASE d # c
    BY <1>2, <1>3, <1>5, <2>2 DEF RemoteInv, ListingsAreComplete, UntouchedIsSettled
  <2> QED BY <2>1, <2>2
<1>d. ListingSplit' /\ PagesAreComplete'
  <2> SUFFICES ASSUME NEW d \in Clients, op'[d].kind = "list"
               PROVE  /\ op'[d].rest \subseteq op'[d].of
                      /\ op'[d].found \subseteq op'[d].of \ op'[d].rest
                      /\ ~op'[d].cut
                      /\ op'[d].table => op'[d].use = "caller"
                      /\ \A x \in op'[d].of \ (touched'[d] \cup op'[d].rest) :
                             x \in op'[d].found <=> doc'[x] = "whole"
    BY DEF ListingSplit, PagesAreComplete
  <2>1. CASE d = c
    <3>1. page # o.rest
      BY <1>2, <1>b, <2>1 DEF PageRead
    <3>2. /\ n.rest \subseteq n.of /\ n.found \subseteq n.of \ n.rest /\ ~n.cut
          /\ n.table => n.use = "caller"
      BY <1>0, <1>7, <1>b, <3>1 DEF PageRead
    <3> QED BY <1>2, <1>4, <1>5, <1>8, <1>b, <2>1, <3>1, <3>2 DEF PageRead
  <2>2. CASE d # c
    BY <1>2, <1>3, <1>5, <2>2 DEF RemoteInv, ListingSplit, PagesAreComplete
  <2> QED BY <2>1, <2>2
<1>e. CascadeMissesNone'
  <2> SUFFICES ASSUME NEW d \in Clients, NEW b \in Billets, NEW p \in PoliciesOf(b),
                      doc[p] = "whole", p \notin raced
               PROVE  /\ op'[d].kind = "list" /\ op'[d].use = b =>
                            p \in op'[d].rest \cup op'[d].found
                      /\ op'[d].kind = "delete" /\ op'[d].use = b => p \in op'[d].todo
    BY <1>5 DEF CascadeMissesNone, PoliciesOf
  <2>1. CASE d = c
    BY <1>2, <1>9, <1>b, <2>1 DEF PageRead
  <2>2. CASE d # c
    BY <1>2, <2>2 DEF RemoteInv, CascadeMissesNone
  <2> QED BY <2>1, <2>2
<1>f. FreshIsRaced'
  <2>1. \A b : Cascading(b)' => Cascading(b)
    BY <1>2, <1>b DEF Cascading, PageRead
  <2> QED BY <1>5, <2>1 DEF RemoteInv, FreshIsRaced
<1>g. DeletesOwnRows'
  <2> SUFFICES ASSUME NEW d \in Clients
               PROVE  /\ op'[d].kind = "list" /\ op'[d].use # "caller" =>
                           op'[d].of \subseteq OwnRows(op'[d].use)
                      /\ op'[d].kind = "delete" => op'[d].todo \subseteq OwnRows(op'[d].use)
                                                   /\ op'[d].chunk \subseteq op'[d].todo
    BY DEF DeletesOwnRows, OwnRows, PoliciesOf
  <2>1. CASE d = c
    BY <1>0, <1>2, <1>7, <1>a, <1>b, <2>1 DEF PageRead
  <2>2. CASE d # c
    BY <1>2, <2>2 DEF RemoteInv, DeletesOwnRows
  <2> QED BY <2>1, <2>2
<1> QED BY <1>1, <1>c, <1>d, <1>e, <1>f, <1>g, QuietKeepsTables DEF RemoteInv

\* A listing begins.  The rows of a cascade that have not settled are raced.
LEMMA BeginListingKeepsInv ==
    ASSUME RemoteInv, NEW c \in Clients, NEW use \in {"caller", "purge"} \cup Billets,
           NEW target \in SUBSET Rows, NEW table \in BOOLEAN, BeginListing(c, use, target, table),
           table => use = "caller",
           use # "caller" => target = OwnRows(use) \/ (use = "purge" /\ target \subseteq KeyIds),
           raced' = IF use \in Billets THEN raced \cup (PoliciesOf(use) \cap fresh) ELSE raced,
           writes' \in 0 .. MaxWrites
    PROVE  RemoteInv'
<1> DEFINE n == [kind |-> "list", use |-> use, table |-> table, of |-> target,
                 rest |-> target, found |-> {}, cut |-> FALSE]
<1>1. \A d \in Clients : op'[d] = IF d = c THEN n ELSE op[d]
  BY DEF BeginListing, RemoteInv, RemoteTypes
<1>2. \A d \in Clients : touched'[d] = IF d = c THEN fresh \cap target ELSE touched[d]
  BY DEF BeginListing, RemoteInv, RemoteTypes
<1>3. UNCHANGED <<backend, doc, tags, fresh, expired, acked>> /\ raced \subseteq raced'
  BY DEF BeginListing, tableVars
<1>4. n \in ListOps
  BY DEF ListOps
<1>5. /\ n.kind = "list" /\ n.use = use /\ n.of = target /\ n.rest = target /\ n.found = {}
      /\ n.cut = FALSE /\ n.table = table
  OBVIOUS
<1>6. op' \in [Clients -> Ops] /\ touched' \in [Clients -> SUBSET Rows]
  BY <1>4, OpsContains DEF BeginListing, RemoteInv, RemoteTypes
<1>7. raced' \subseteq Policies
  BY DEF RemoteInv, RemoteTypes, PoliciesOf
<1> HIDE DEF n
<1>8. RemoteTypes'
  BY <1>3, <1>6, <1>7 DEF RemoteInv, RemoteTypes
<1>9. OrphansOnlyFromRaces' /\ AcknowledgedRowsStored'
  BY <1>3 DEF RemoteInv, OrphansOnlyFromRaces, AcknowledgedRowsStored
<1>a. ListingsAreComplete' /\ UntouchedIsSettled' /\ ListingSplit' /\ PagesAreComplete'
  BY <1>1, <1>2, <1>3, <1>5 DEF RemoteInv, ListingsAreComplete, UntouchedIsSettled, ListingSplit,
     PagesAreComplete
<1>b. CascadeMissesNone'
  <2> SUFFICES ASSUME NEW d \in Clients, NEW b \in Billets, NEW p \in PoliciesOf(b),
                      doc[p] = "whole", p \notin raced'
               PROVE  /\ op'[d].kind = "list" /\ op'[d].use = b =>
                            p \in op'[d].rest \cup op'[d].found
                      /\ op'[d].kind = "delete" /\ op'[d].use = b => p \in op'[d].todo
    BY <1>3 DEF CascadeMissesNone, PoliciesOf
  <2>1. CASE d = c
    BY <1>1, <1>5, <2>1, RemoteAssumption DEF OwnRows
  <2>2. CASE d # c
    BY <1>1, <1>3, <2>2 DEF RemoteInv, CascadeMissesNone
  <2> QED BY <2>1, <2>2
<1>c. FreshIsRaced'
  <2> SUFFICES ASSUME NEW p \in Policies, NEW d \in Clients,
                      op'[d].kind \in {"list", "delete"}, op'[d].use = BilletOf[p],
                      doc[p] = "whole", p \in fresh
               PROVE  p \in raced'
    BY <1>3 DEF FreshIsRaced, Cascading
  <2>1. CASE d = c
    BY <1>1, <1>5, <2>1, RemoteAssumption DEF PoliciesOf
  <2>2. CASE d # c
    BY <1>1, <1>3, <2>2 DEF RemoteInv, FreshIsRaced, Cascading
  <2> QED BY <2>1, <2>2
<1>d. DeletesOwnRows'
  <2> SUFFICES ASSUME NEW d \in Clients
               PROVE  /\ op'[d].kind = "list" /\ op'[d].use # "caller" =>
                           op'[d].of \subseteq OwnRows(op'[d].use)
                      /\ op'[d].kind = "delete" => op'[d].todo \subseteq OwnRows(op'[d].use)
                                                   /\ op'[d].chunk \subseteq op'[d].todo
    BY DEF DeletesOwnRows, OwnRows, PoliciesOf
  <2>1. CASE d = c
    BY <1>1, <1>5, <2>1 DEF OwnRows
  <2>2. CASE d # c
    BY <1>1, <2>2 DEF RemoteInv, DeletesOwnRows
  <2> QED BY <2>1, <2>2
<1> QED BY <1>8, <1>9, <1>a, <1>b, <1>c, <1>d DEF RemoteInv

\* stream_all ends early: what the caller gets is marked as cut.
LEMMA StreamCutKeepsInv ==
    ASSUME RemoteInv, NEW c \in Clients, StreamCut(c)
    PROVE  RemoteInv'
<1> DEFINE o == op[c]
           n == [kind |-> "listed", of |-> o.of, found |-> o.found, cut |-> TRUE]
<1>0. o \in ListOps
  BY OpOfKind DEF StreamCut, RemoteInv, RemoteTypes
<1>a. o.use = "caller"
  BY DEF StreamCut, RemoteInv, ListingSplit
<1>1. Continue(c, n) /\ n \in ListedOps
  BY <1>0, <1>a DEF StreamCut, Listed, ListOps, ListedOps
<1>2. Quiet(c, n)
  BY <1>1, OpsContains DEF Quiet, StreamCut, RemoteInv, RemoteTypes
<1>3. \A d \in Clients : op'[d] = IF d = c THEN n ELSE op[d]
  BY <1>1 DEF Continue, RemoteInv, RemoteTypes
<1>4. n.kind = "listed" /\ n.cut /\ n.of = o.of
  OBVIOUS
<1> HIDE DEF n
<1>5. UNCHANGED <<doc, fresh, raced, touched>>
  BY <1>1, <1>4 DEF Continue, tableVars
<1>6. ListingsAreComplete' /\ UntouchedIsSettled' /\ ListingSplit' /\ PagesAreComplete'
  BY <1>3, <1>4, <1>5 DEF RemoteInv, ListingsAreComplete, UntouchedIsSettled, ListingSplit,
     PagesAreComplete, StreamCut
<1>7. CascadeMissesNone'
  BY <1>3, <1>4, <1>5 DEF RemoteInv, CascadeMissesNone, PoliciesOf
<1>8. FreshIsRaced'
  BY <1>3, <1>4, <1>5 DEF RemoteInv, FreshIsRaced, Cascading
<1>9. DeletesOwnRows'
  BY <1>3, <1>4 DEF RemoteInv, DeletesOwnRows, OwnRows, PoliciesOf
<1> QED BY <1>2, <1>6, <1>7, <1>8, <1>9, QuietKeepsTables DEF RemoteInv

\* A change reaches every replica; a key record expires.
LEMMA SettleAndExpireKeepInv ==
    ASSUME RemoteInv,
           (\E x \in Rows : Settle(x)) \/ (\E k \in KeyIds : Expire(k))
    PROVE  RemoteInv'
<1>1. UNCHANGED <<backend, doc, tags, op, writes, acked, touched, raced>> /\ fresh' \subseteq fresh
  BY DEF Settle, Expire
<1>2. expired' \subseteq KeyIds
  BY DEF Settle, Expire, RemoteInv, RemoteTypes
<1>3. RemoteTypes'
  BY <1>1, <1>2 DEF RemoteInv, RemoteTypes
<1>4. OrphansOnlyFromRaces' /\ ListingsAreComplete' /\ AcknowledgedRowsStored'
  BY <1>1 DEF RemoteInv, OrphansOnlyFromRaces, ListingsAreComplete, AcknowledgedRowsStored
<1>5. CascadeMissesNone' /\ FreshIsRaced' /\ DeletesOwnRows'
  BY <1>1 DEF RemoteInv, CascadeMissesNone, FreshIsRaced, DeletesOwnRows, OwnRows, PoliciesOf,
     Cascading
<1>6. ListingSplit' /\ UntouchedIsSettled' /\ PagesAreComplete'
  BY <1>1 DEF RemoteInv, ListingSplit, UntouchedIsSettled, PagesAreComplete
<1> QED BY <1>3, <1>4, <1>5, <1>6 DEF RemoteInv

-----------------------------------------------------------------------------
(***************************************************************************)
(* The actions.                                                             *)
(***************************************************************************)

\* A write that is not a deletion, by a client that goes on with no deletion.
LEMMA StoreKeepsInv ==
    ASSUME RemoteInv,
           NEW c, NEW D, NEW st, NEW told, NEW next, WriteCall(c, D, st, told, next),
           next.kind # "delete", st \in {"whole", "partial"},
           st = "partial" => backend = "firestore" /\ told = None,
           tags' \in [Billets -> SUBSET Tags],
           told # None => \A b \in D \cap Billets :
                             tags'[b] = told \/ (backend = "dynamodb" /\ told = {}),
           \A b \in Billets \ D : tags'[b] = tags[b]
    PROVE  RemoteInv'
<1>1. RemoteTypes'
  BY WriteKeepsTypes DEF RemoteInv
<1>2. AcknowledgedRowsStored'
  BY WriteKeepsAcknowledged
<1>3. OrphansOnlyFromRaces'
  BY WriteKeepsOrphans
<1>4. CascadeMissesNone' /\ FreshIsRaced' /\ DeletesOwnRows'
  BY WriteKeepsCascades
<1> QED BY <1>1, <1>2, <1>3, <1>4, WriteKeepsListings DEF RemoteInv

\* A write that deletes rows.
LEMMA RemoveKeepsInv ==
    ASSUME RemoteInv, NEW c, NEW D, NEW next, WriteCall(c, D, "none", None, next),
           UNCHANGED tags,
           next.kind = "delete" =>
               /\ op[c].kind = "delete" /\ next.use = op[c].use
               /\ op[c].use \in Billets => op[c].todo \ D \subseteq next.todo
               /\ next.todo \subseteq op[c].todo /\ next.chunk \subseteq next.todo,
           \A b \in D \cap Billets : \A p \in PoliciesOf(b) : doc[p] = "whole" => p \in raced
    PROVE  RemoteInv'
<1>1. RemoteTypes'
  BY WriteKeepsTypes DEF RemoteInv, RemoteTypes
<1>2. AcknowledgedRowsStored'
  BY WriteKeepsAcknowledged
<1>3. OrphansOnlyFromRaces'
  BY WriteKeepsOrphans
<1>4. CascadeMissesNone' /\ FreshIsRaced' /\ DeletesOwnRows'
  BY WriteKeepsCascades
<1> QED BY <1>1, <1>2, <1>3, <1>4, WriteKeepsListings DEF RemoteInv

\* A client begins an operation that writes.
LEMMA BeganBounded ==
    ASSUME RemoteTypes, Began
    PROVE  writes' \in 0 .. MaxWrites
BY RemoteAssumption DEF RemoteTypes, Began

\* put_item, an insert of a document.
LEMMA InsertKeepsInv ==
    ASSUME RemoteInv, NEW c \in Clients, NEW told \in {None} \cup SUBSET Tags, Insert(c, told)
    PROVE  RemoteInv'
<1>0. op[c] \in InsertOps
  BY OpOfKind DEF Insert, RemoteInv, RemoteTypes
<1>1. op[c].row \in Billets \cup Policies /\ op[c].tags \in SUBSET Tags
  BY <1>0 DEF InsertOps
<1>2. Idle.kind = "idle"
  BY DEF Idle
<1>3. WriteCall(c, {op[c].row}, "whole", told, Idle)
  BY <1>1, <1>2, OpsContains DEF WriteCall, Insert, Rows, Statuses, RemoteInv, RemoteTypes
<1>4. tags' \in [Billets -> SUBSET Tags]
  BY <1>1 DEF Insert, RemoteInv, RemoteTypes
<1>5. told # None => \A b \in {op[c].row} \cap Billets : tags'[b] = told
  BY <1>1 DEF Insert, RemoteInv, RemoteTypes
<1>6. \A b \in Billets \ {op[c].row} : tags'[b] = tags[b]
  BY <1>1 DEF Insert, RemoteInv, RemoteTypes
<1> QED BY <1>2, <1>3, <1>4, <1>5, <1>6, StoreKeepsInv

\* update_item, and an update with a field mask.
LEMMA UpdateBilletKeepsInv ==
    ASSUME RemoteInv, NEW c \in Clients, NEW told \in {None} \cup SUBSET Tags,
           UpdateBilletItem(c, told) \/ UpdateBilletDoc(c, told)
    PROVE  RemoteInv'
<1>0. op[c] \in UpdateOps
  BY OpOfKind DEF UpdateBilletItem, UpdateBilletDoc, RemoteInv, RemoteTypes
<1>1. op[c].row \in Billets /\ op[c].tags \in SUBSET Tags
  BY <1>0 DEF UpdateOps
<1>2. Idle.kind = "idle"
  BY DEF Idle
<1>3. PICK st \in {"whole", "partial"} :
         /\ Put({op[c].row}, st, told)
         /\ st = "partial" => backend = "firestore" /\ told = None
  BY DEF UpdateBilletItem, UpdateBilletDoc
<1>4. WriteCall(c, {op[c].row}, st, told, Idle)
  BY <1>1, <1>2, <1>3, OpsContains DEF WriteCall, UpdateBilletItem, UpdateBilletDoc, Rows, Statuses,
     RemoteInv, RemoteTypes
<1>5. tags' \in [Billets -> SUBSET Tags]
  BY <1>1 DEF UpdateBilletItem, UpdateBilletDoc, RemoteInv, RemoteTypes
<1>6. told # None => \A b \in {op[c].row} \cap Billets :
                        tags'[b] = told \/ (backend = "dynamodb" /\ told = {})
  BY <1>1 DEF UpdateBilletItem, UpdateBilletDoc, RemoteInv, RemoteTypes
<1>7. \A b \in Billets \ {op[c].row} : tags'[b] = tags[b]
  BY <1>1 DEF UpdateBilletItem, UpdateBilletDoc, RemoteInv, RemoteTypes
<1> QED BY <1>2, <1>3, <1>4, <1>5, <1>6, <1>7, StoreKeepsInv

\* PolicyCrud::update.
LEMMA UpdatePolicyKeepsInv ==
    ASSUME RemoteInv, NEW c \in Clients, NEW p \in Policies,
           UpdatePolicyItem(c, p) \/ UpdatePolicyDoc(c, p)
    PROVE  RemoteInv'
<1>1. p \in Rows /\ {p} \cap Billets = {}
  BY RemoteAssumption DEF Rows
<1>2. PICK st \in {"whole", "partial"}, next \in {Idle, [kind |-> "reread", row |-> p]} :
         /\ Put({p}, st, None) /\ op' = [op EXCEPT ![c] = next]
         /\ st = "partial" => backend = "firestore"
  BY DEF UpdatePolicyItem, UpdatePolicyDoc
<1>3. [kind |-> "reread", row |-> p] \in RereadOps
  BY DEF RereadOps
<1>4. next \in Ops
  BY <1>2, <1>3, OpsContains
<1>5. next.kind \in {"idle", "reread"}
  BY <1>2 DEF Idle
<1>6. writes' \in 0 .. MaxWrites
  BY BeganBounded DEF RemoteInv, UpdatePolicyItem, UpdatePolicyDoc
<1>7. WriteCall(c, {p}, st, None, next)
  BY <1>1, <1>2, <1>4, <1>5, <1>6 DEF WriteCall, UpdatePolicyItem, UpdatePolicyDoc, Statuses
<1>8. UNCHANGED tags /\ tags' \in [Billets -> SUBSET Tags]
  BY DEF UpdatePolicyItem, UpdatePolicyDoc, RemoteInv, RemoteTypes
<1> QED BY <1>1, <1>2, <1>5, <1>7, <1>8, StoreKeepsInv

\* put_ephemeral_key.
LEMMA PutKeyKeepsInv ==
    ASSUME RemoteInv, NEW c \in Clients, NEW k \in KeyIds, PutKeyItem(c, k) \/ PutKeyDoc(c, k)
    PROVE  RemoteInv'
<1>1. k \in Rows /\ {k} \cap Billets = {}
  BY RemoteAssumption DEF Rows
<1>2. op[c] = Idle /\ UNCHANGED op /\ Put({k}, "whole", {}) /\ UNCHANGED <<backend, tags, expired>>
  BY DEF PutKeyItem, PutKeyDoc
<1>3. op' = [op EXCEPT ![c] = Idle]
  BY <1>2 DEF RemoteInv, RemoteTypes
<1>4. Idle.kind = "idle"
  BY DEF Idle
<1>5. writes' \in 0 .. MaxWrites
  BY BeganBounded DEF RemoteInv, PutKeyItem, PutKeyDoc
<1>6. WriteCall(c, {k}, "whole", {}, Idle)
  BY <1>1, <1>2, <1>3, <1>4, <1>5, OpsContains DEF WriteCall, Statuses
<1>7. tags' \in [Billets -> SUBSET Tags]
  BY <1>2 DEF RemoteInv, RemoteTypes
<1> QED BY <1>1, <1>2, <1>4, <1>6, <1>7, StoreKeepsInv

\* PolicyCrud::update looks at the row it has written.
LEMMA RereadKeepsInv ==
    ASSUME RemoteInv, NEW c \in Clients, RereadPolicy(c)
    PROVE  RemoteInv'
<1>0. op[c] \in RereadOps
  BY OpOfKind DEF RereadPolicy, RemoteInv, RemoteTypes
<1>1. op[c].row \in Policies /\ op[c].row \in Rows /\ op[c].row \notin Billets
  BY <1>0, RemoteAssumption DEF RereadOps, Rows
<1>2. \A d \in Clients : op'[d] = IF d = c THEN Idle ELSE op[d]
  BY DEF RereadPolicy, RemoteInv, RemoteTypes
<1>3. Idle.kind = "idle" /\ Idle \in Ops
  BY OpsContains DEF Idle
<1>4. UNCHANGED <<backend, doc, tags, fresh, expired, writes, touched, raced>>
  BY DEF RereadPolicy, tableVars
<1>5. \A x \in Rows : acked'[x] = IF x = op[c].row /\ doc[x] = "whole" THEN {} ELSE acked[x]
  BY <1>1 DEF RereadPolicy, RemoteInv, RemoteTypes
<1>6. RemoteTypes'
  <2>1. op' \in [Clients -> Ops]
    BY <1>3 DEF RereadPolicy, RemoteInv, RemoteTypes
  <2>2. acked' \in [Rows -> {None} \cup SUBSET Tags]
    BY <1>1 DEF RereadPolicy, RemoteInv, RemoteTypes
  <2> QED BY <1>4, <2>1, <2>2 DEF RemoteInv, RemoteTypes
<1>7. AcknowledgedRowsStored'
  BY <1>1, <1>4, <1>5 DEF RemoteInv, AcknowledgedRowsStored
<1>8. OrphansOnlyFromRaces' /\ ListingsAreComplete'
  BY <1>2, <1>3, <1>4 DEF RemoteInv, OrphansOnlyFromRaces, ListingsAreComplete
<1>9. ListingSplit' /\ UntouchedIsSettled' /\ PagesAreComplete'
  BY <1>2, <1>3, <1>4 DEF RemoteInv, ListingSplit, UntouchedIsSettled, PagesAreComplete
<1>a. CascadeMissesNone' /\ FreshIsRaced'
  BY <1>2, <1>3, <1>4 DEF RemoteInv, CascadeMissesNone, FreshIsRaced, Cascading, PoliciesOf
<1>b. DeletesOwnRows'
  BY <1>2, <1>3 DEF RemoteInv, DeletesOwnRows, OwnRows, PoliciesOf
<1> QED BY <1>6, <1>7, <1>8, <1>9, <1>a, <1>b DEF RemoteInv

\* The first calls of creations and updates, and the end of an operation.
LEMMA QuietActionsKeepInv ==
    ASSUME RemoteInv, NEW c \in Clients,
           \/ \E b \in Billets, ts \in SUBSET Tags :
                BeginCreateBillet(c, b, ts) \/ BeginUpdateBillet(c, b, ts)
           \/ \E p \in Policies : BeginCreatePolicy(c, p)
           \/ CheckDocument(c) \/ PurgeReturns(c) \/ Reply(c) \/ Abandon(c)
    PROVE  RemoteInv'
<1>0. Idle \in Ops /\ Idle.kind = "idle"
  BY OpsContains DEF Idle
<1>1. writes \in 0 .. MaxWrites
  BY DEF RemoteInv, RemoteTypes
<1>2. ASSUME NEW x \in Billets \cup Policies, NEW ts \in SUBSET Tags, BeginInsert(c, x, ts), Began
      PROVE  RemoteInv'
  <2> DEFINE n == [kind |-> "insert", row |-> x, tags |-> ts, checked |-> backend = "dynamodb"]
  <2>1. n \in InsertOps /\ n.kind = "insert"
    BY DEF InsertOps
  <2>2. Quiet(c, n)
    BY <1>2, <2>1, OpsContains, BeganBounded DEF Quiet, BeginInsert, RemoteInv
  <2> QED BY <2>1, <2>2, QuietElsewhere
<1>3. ASSUME NEW b \in Billets, NEW ts \in SUBSET Tags, BeginUpdateBillet(c, b, ts)
      PROVE  RemoteInv'
  <2> DEFINE n == [kind |-> "update", row |-> b, tags |-> ts]
  <2>1. n \in UpdateOps /\ n.kind = "update"
    BY DEF UpdateOps
  <2>2. Quiet(c, n)
    BY <1>3, <2>1, OpsContains, BeganBounded DEF Quiet, BeginUpdateBillet, RemoteInv
  <2> QED BY <2>1, <2>2, QuietElsewhere
<1>4. ASSUME CheckDocument(c)
      PROVE  RemoteInv'
  <2> DEFINE n == [op[c] EXCEPT !.checked = TRUE]
  <2>0. op[c] \in InsertOps
    BY <1>4, OpOfKind DEF CheckDocument, RemoteInv, RemoteTypes
  <2>1. n \in InsertOps /\ n.kind = "insert"
    BY <2>0 DEF InsertOps
  <2>2. Quiet(c, n) \/ Quiet(c, Idle)
    BY <1>0, <1>1, <1>4, <2>1, OpsContains DEF Quiet, CheckDocument
  <2> QED BY <1>0, <2>1, <2>2, QuietElsewhere
<1>5. ASSUME PurgeReturns(c) \/ Reply(c) \/ Abandon(c)
      PROVE  RemoteInv'
  <2>1. Quiet(c, Idle)
    BY <1>0, <1>1, <1>5 DEF Quiet, PurgeReturns, Reply, Abandon
  <2> QED BY <1>0, <2>1, QuietElsewhere
<1> QED BY <1>2, <1>3, <1>4, <1>5 DEF BeginCreateBillet, BeginCreatePolicy

\* The listings a caller, a purge and a cascade begin, and their pages.
LEMMA ListKeepsInv ==
    ASSUME RemoteInv, NEW c \in Clients,
           \/ List(c)
           \/ delete_expired_ephemeral_keys(c)
           \/ \E b \in Billets : delete_billet_cascade(c, b)
    PROVE  RemoteInv'
<1>0. writes \in 0 .. MaxWrites /\ "caller" \notin Billets /\ "purge" \notin Billets
  BY RemoteAssumption DEF RemoteInv, RemoteTypes
<1>1. /\ Billets \in SUBSET Rows /\ Policies \in SUBSET Rows
      /\ ActiveKeys \in SUBSET Rows /\ ExpiredKeys \in SUBSET Rows
      /\ \A b \in Billets : PoliciesOf(b) \in SUBSET Rows
  BY DEF Rows, ActiveKeys, ExpiredKeys, PoliciesOf
<1>2. CASE list_billets(c)
  BY <1>0, <1>1, <1>2, BeginListingKeepsInv DEF list_billets
<1>3. CASE list_all_policies(c)
  BY <1>0, <1>1, <1>3, BeginListingKeepsInv DEF list_all_policies
<1>4. CASE get_active_ephemeral_keys(c)
  BY <1>0, <1>1, <1>4, BeginListingKeepsInv DEF get_active_ephemeral_keys
<1>5. CASE delete_expired_ephemeral_keys(c)
  <2>1. writes' \in 0 .. MaxWrites
    BY <1>5, BeganBounded DEF delete_expired_ephemeral_keys, RemoteInv
  <2>2. ExpiredKeys \subseteq KeyIds
    BY DEF ExpiredKeys
  <2> QED BY <1>0, <1>1, <1>5, <2>1, <2>2, BeginListingKeepsInv DEF delete_expired_ephemeral_keys
<1>6. ASSUME NEW b \in Billets, delete_billet_cascade(c, b)
      PROVE  RemoteInv'
  <2>1. writes' \in 0 .. MaxWrites
    BY <1>6, BeganBounded DEF delete_billet_cascade, RemoteInv
  <2>2. PoliciesOf(b) = OwnRows(b)
    BY <1>0 DEF OwnRows
  <2>3. BeginListing(c, b, PoliciesOf(b), FALSE) /\ raced' = raced \cup (PoliciesOf(b) \cap fresh)
    BY <1>6 DEF delete_billet_cascade
  <2> QED BY <1>1, <2>1, <2>2, <2>3, BeginListingKeepsInv
<1>7. ASSUME op[c].kind = "list", NEW page \in Pages(op[c]), NEW rows \in Returned(page),
             Continue(c, AfterPage(op[c], page, rows)), UNCHANGED writes
      PROVE  RemoteInv'
  <2>1. page \in SUBSET op[c].rest
    BY DEF Pages
  <2> QED BY <1>7, <2>1, PageKeepsInv
<1>8. CASE ItemPage(c) \/ StreamPage(c)
  BY <1>7, <1>8 DEF ItemPage, StreamPage
<1>9. CASE QueryDocs(c)
  <2>1. PICK rows \in Returned(op[c].rest) : Continue(c, AfterPage(op[c], op[c].rest, rows))
    BY <1>9 DEF QueryDocs
  <2>2. op[c].rest \in SUBSET op[c].rest
    OBVIOUS
  <2> QED BY <1>9, <2>1, <2>2, PageKeepsInv DEF QueryDocs
<1>a. CASE StreamCut(c)
  BY <1>a, StreamCutKeepsInv
<1>b. CASE Reply(c)
  BY <1>b, QuietActionsKeepInv
<1> QED BY <1>2, <1>3, <1>4, <1>5, <1>6, <1>8, <1>9, <1>a, <1>b DEF List

\* The operation n that follows a batch of rows of chunk, those of `left` not
\* deleted.
BatchTried(o, chunk, left, n) ==
    /\ n \in Ops
    /\ n.kind \in {"delete", "idle"}
    /\ n.kind = "delete" =>
         /\ n.use = o.use
         /\ o.use \in Billets => o.todo \ (chunk \ left) \subseteq n.todo
         /\ n.todo \subseteq o.todo /\ n.chunk \subseteq n.todo

LEMMA DoneOp ==
    ASSUME NEW o \in DeleteOps, NEW chunk \in SUBSET o.todo, NEW left \in SUBSET chunk,
           o.use \in Billets => left = {}
    PROVE  BatchTried(o, chunk, left, Done(o, chunk))
<1> DEFINE n == [o EXCEPT !.todo = @ \ chunk, !.chunk = {}, !.retries = 0]
<1>0. 0 \in 0 .. MaxRetries /\ {} \in SUBSET Rows /\ o.todo \ chunk \in SUBSET Rows
  BY RemoteAssumption DEF DeleteOps
<1>1. n \in DeleteOps
  BY <1>0 DEF DeleteOps
<1>2. n.kind = "delete" /\ n.use = o.use /\ n.todo = o.todo \ chunk /\ n.chunk = {}
  BY DEF DeleteOps
<1> QED BY <1>1, <1>2, OpsContains DEF Done, BatchTried

LEMMA AfterBatchOp ==
    ASSUME NEW o \in DeleteOps, NEW chunk \in SUBSET o.todo, NEW left \in SUBSET chunk
    PROVE  BatchTried(o, chunk, left, AfterBatch(o, chunk, left))
<1>1. CASE left = {}
  BY <1>1, DoneOp DEF AfterBatch
<1>2. CASE left # {} /\ o.retries = MaxRetries
  <2>1. AfterBatch(o, chunk, left) = Idle
    BY <1>2 DEF AfterBatch
  <2>2. Idle \in Ops /\ Idle.kind = "idle"
    BY OpsContains DEF Idle
  <2> QED BY <2>1, <2>2 DEF BatchTried
<1>3. CASE left # {} /\ o.retries # MaxRetries
  <2> DEFINE n == [o EXCEPT !.chunk = chunk, !.retries = @ + 1]
  <2>0. o.retries + 1 \in 0 .. MaxRetries
    BY <1>3, RemoteAssumption DEF DeleteOps
  <2>1. n \in DeleteOps
    BY <2>0 DEF DeleteOps
  <2>2. n.kind = "delete" /\ n.use = o.use /\ n.todo = o.todo /\ n.chunk = chunk
    BY DEF DeleteOps
  <2>3. AfterBatch(o, chunk, left) = n
    BY <1>3 DEF AfterBatch
  <2> QED BY <2>1, <2>2, <2>3, OpsContains DEF BatchTried
<1> QED BY <1>1, <1>2, <1>3

\* One batch of a cascade or a purge.
LEMMA BatchKeepsInv ==
    ASSUME RemoteInv, NEW c \in Clients, op[c].kind = "delete",
           NEW chunk \in Chunks(op[c]), NEW left \in SUBSET chunk, NEW n,
           BatchTried(op[c], chunk, left, n), DeleteRows(c, chunk \ left, n)
    PROVE  RemoteInv'
<1>0. op[c] \in DeleteOps
  BY OpOfKind DEF RemoteInv, RemoteTypes
<1>1. op[c].todo \subseteq Rows /\ op[c].todo \cap Billets = {}
  <2>1. op[c].todo \subseteq KeyIds \cup Policies
    BY DEF RemoteInv, DeletesOwnRows, OwnRows, PoliciesOf
  <2> QED BY <2>1, RemoteAssumption DEF Rows
<1>2. chunk \subseteq op[c].todo
  BY DEF Chunks, RemoteInv, DeletesOwnRows
<1>3. WriteCall(c, chunk \ left, "none", None, n) /\ UNCHANGED tags
  BY <1>1, <1>2 DEF WriteCall, DeleteRows, BatchTried, Statuses, RemoteInv, RemoteTypes
<1>4. n.kind = "delete" =>
               /\ op[c].kind = "delete" /\ n.use = op[c].use
               /\ op[c].use \in Billets => op[c].todo \ (chunk \ left) \subseteq n.todo
               /\ n.todo \subseteq op[c].todo /\ n.chunk \subseteq n.todo
  BY DEF BatchTried
<1>5. (chunk \ left) \cap Billets = {}
  BY <1>1, <1>2
<1> QED BY <1>3, <1>4, <1>5, RemoveKeepsInv

\* The batches, the billet itself, and a policy that is deleted alone.
LEMMA DeleteKeepsInv ==
    ASSUME RemoteInv, NEW c \in Clients, Delete(c)
    PROVE  RemoteInv'
<1>0. "purge" \notin Billets /\ Idle \in Ops /\ Idle.kind = "idle"
  BY RemoteAssumption, OpsContains DEF Idle
<1>a. op[c].kind = "delete" =>
         op[c] \in DeleteOps /\ \A chunk \in Chunks(op[c]) : chunk \in SUBSET op[c].todo
  BY OpOfKind DEF RemoteInv, RemoteTypes, DeletesOwnRows, Chunks
<1>1. ASSUME NEW p \in Policies, DeletePolicyItem(c, p) \/ DeletePolicyDoc(c, p)
      PROVE  RemoteInv'
  <2>1. op' = [op EXCEPT ![c] = Idle]
    BY <1>1 DEF DeletePolicyItem, DeletePolicyDoc, RemoteInv, RemoteTypes
  <2>2. writes' \in 0 .. MaxWrites
    BY <1>1, BeganBounded DEF DeletePolicyItem, DeletePolicyDoc, RemoteInv
  <2>3. WriteCall(c, {p}, "none", None, Idle) /\ UNCHANGED tags
    BY <1>0, <1>1, <2>1, <2>2 DEF WriteCall, DeletePolicyItem, DeletePolicyDoc, Rows, Statuses
  <2>4. {p} \cap Billets = {}
    BY RemoteAssumption
  <2> QED BY <1>0, <2>3, <2>4, RemoveKeepsInv
<1>2. CASE BatchWritePolicies(c)
  <2>0. PICK chunk \in Chunks(op[c]) : \E left \in SUBSET chunk :
          DeleteRows(c, chunk \ left, AfterBatch(op[c], chunk, left))
    BY <1>2 DEF BatchWritePolicies
  <2>1. PICK left \in SUBSET chunk : DeleteRows(c, chunk \ left, AfterBatch(op[c], chunk, left))
    BY <2>0
  <2>2. op[c].kind = "delete"
    BY <1>2 DEF BatchWritePolicies, Deleting
  <2>3. BatchTried(op[c], chunk, left, AfterBatch(op[c], chunk, left))
    BY <1>a, <2>2, AfterBatchOp
  <2> QED BY <2>1, <2>2, <2>3, BatchKeepsInv
<1>3. CASE BatchWriteKeys(c)
  <2>0. PICK chunk \in Chunks(op[c]) : \E left \in SUBSET chunk :
          DeleteRows(c, chunk \ left, Done(op[c], chunk))
    BY <1>3 DEF BatchWriteKeys
  <2>1. PICK left \in SUBSET chunk : DeleteRows(c, chunk \ left, Done(op[c], chunk))
    BY <2>0
  <2>2. op[c].kind = "delete" /\ op[c].use \notin Billets
    BY <1>0, <1>3 DEF BatchWriteKeys, Deleting
  <2>3. BatchTried(op[c], chunk, left, Done(op[c], chunk))
    BY <1>a, <2>2, DoneOp
  <2> QED BY <2>1, <2>2, <2>3, BatchKeepsInv
<1>4. CASE CommitPolicies(c) \/ CommitKeys(c)
  <2>1. PICK chunk \in Chunks(op[c]) : DeleteRows(c, chunk, Done(op[c], chunk))
    BY <1>4 DEF CommitPolicies, CommitKeys
  <2>2. op[c].kind = "delete"
    BY <1>4 DEF CommitPolicies, CommitKeys, Deleting
  <2>3. {} \in SUBSET chunk /\ chunk \ {} = chunk
    OBVIOUS
  <2>4. BatchTried(op[c], chunk, {}, Done(op[c], chunk))
    BY <1>a, <2>2, DoneOp
  <2> QED BY <2>1, <2>2, <2>3, <2>4, BatchKeepsInv
<1>5. CASE DeleteBilletItem(c) \/ DeleteBilletDoc(c)
  <2>1. /\ op[c].kind = "delete" /\ op[c].use \in Billets /\ op[c].todo = {}
        /\ DeleteRows(c, {op[c].use}, Idle)
    BY <1>5 DEF DeleteBilletItem, DeleteBilletDoc, Deleting
  <2>2. WriteCall(c, {op[c].use}, "none", None, Idle) /\ UNCHANGED tags
    BY <1>0, <2>1 DEF WriteCall, DeleteRows, Rows, Statuses, RemoteInv, RemoteTypes
  <2>3. \A b \in {op[c].use} \cap Billets : \A p \in PoliciesOf(b) : doc[p] = "whole" => p \in raced
    BY <2>1 DEF RemoteInv, CascadeMissesNone
  <2> QED BY <1>0, <2>2, <2>3, RemoveKeepsInv
<1>6. CASE PurgeReturns(c)
  BY <1>6, QuietActionsKeepInv
<1>7. CASE delete_expired_ephemeral_keys(c) \/ \E b \in Billets : delete_billet_cascade(c, b)
  BY <1>7, ListKeepsInv
<1> QED BY <1>1, <1>2, <1>3, <1>4, <1>5, <1>6, <1>7 DEF Delete

\* A step without effect.
LEMMA StutterKeepsInv ==
    ASSUME RemoteInv, UNCHANGED vars
    PROVE  RemoteInv'
<1>1. UNCHANGED <<backend, doc, tags, fresh, expired, op, writes, acked, touched, raced>>
  BY DEF vars, tableVars
<1>2. RemoteTypes' /\ OrphansOnlyFromRaces' /\ ListingsAreComplete' /\ AcknowledgedRowsStored'
  BY <1>1 DEF RemoteInv, RemoteTypes, OrphansOnlyFromRaces, ListingsAreComplete,
     AcknowledgedRowsStored
<1>3. CascadeMissesNone' /\ FreshIsRaced' /\ DeletesOwnRows'
  BY <1>1 DEF RemoteInv, CascadeMissesNone, FreshIsRaced, DeletesOwnRows, OwnRows, PoliciesOf,
     Cascading
<1>4. ListingSplit' /\ UntouchedIsSettled' /\ PagesAreComplete'
  BY <1>1 DEF RemoteInv, ListingSplit, UntouchedIsSettled, PagesAreComplete
<1> QED BY <1>2, <1>3, <1>4 DEF RemoteInv

\* Every call of every client preserves the invariant.
LEMMA NextPreservesInv ==
    ASSUME RemoteInv, [RemoteNext]_vars
    PROVE  RemoteInv'
<1>1. CASE UNCHANGED vars
  BY <1>1, StutterKeepsInv
<1>2. CASE (\E x \in Rows : Settle(x)) \/ (\E k \in KeyIds : Expire(k))
  BY <1>2, SettleAndExpireKeepInv
<1>3. ASSUME NEW c \in Clients, CreateOrUpdate(c)
      PROVE  RemoteInv'
  <2>1. ASSUME NEW told \in {None} \cup SUBSET Tags,
               \/ PutBilletItem(c, told) \/ PutPolicyItem(c, told)
               \/ InsertBilletDoc(c, told) \/ InsertPolicyDoc(c, told)
        PROVE  RemoteInv'
    BY <2>1, InsertKeepsInv DEF PutBilletItem, PutPolicyItem, InsertBilletDoc, InsertPolicyDoc
  <2> QED BY <1>3, <2>1, QuietActionsKeepInv, UpdatePolicyKeepsInv, UpdateBilletKeepsInv,
          RereadKeepsInv, PutKeyKeepsInv DEF CreateOrUpdate
<1>4. ASSUME NEW c \in Clients, Delete(c) \/ List(c) \/ Abandon(c)
      PROVE  RemoteInv'
  BY <1>4, DeleteKeepsInv, ListKeepsInv, QuietActionsKeepInv
<1> QED BY <1>1, <1>2, <1>3, <1>4 DEF RemoteNext

LEMMA RemoteInvariant == RemoteSpec => []RemoteInv
<1>1. RemoteInit => RemoteInv
  BY InitEstablishesInv
<1>2. RemoteInv /\ [RemoteNext]_vars => RemoteInv'
  BY NextPreservesInv
<1> QED BY <1>1, <1>2, PTL DEF RemoteSpec

-----------------------------------------------------------------------------
\* Rows, replicas and the operations of the clients keep their shape; DynamoDB
\* never holds a partial item, and a Firestore read is never behind.
THEOREM RemoteTypeCorrect == RemoteSpec => []RemoteTypes
<1>1. RemoteInv => RemoteTypes
  BY DEF RemoteInv
<1> QED BY <1>1, RemoteInvariant, PTL

\* delete_billet_cascade: however many cascades, writes, failures and crashes
\* meet, a policy without its billet was written during a cascade of it.
THEOREM NoOrphansWithoutRace == RemoteSpec => []OrphansOnlyFromRaces
<1>1. RemoteInv => OrphansOnlyFromRaces
  BY DEF RemoteInv
<1> QED BY <1>1, RemoteInvariant, PTL

\* The pagination loops of list_billets, list_all_policies and
\* get_active_ephemeral_keys miss no row and invent none, over any number of
\* pages.
THEOREM ListingsComplete == RemoteSpec => []ListingsAreComplete
<1>1. RemoteInv => ListingsAreComplete
  BY DEF RemoteInv
<1> QED BY <1>1, RemoteInvariant, PTL

\* What create, update and put were acknowledged with is in the table until
\* somebody changes the row.
THEOREM AcknowledgedStored == RemoteSpec => []AcknowledgedRowsStored
<1>1. RemoteInv => AcknowledgedRowsStored
  BY DEF RemoteInv
<1> QED BY <1>1, RemoteInvariant, PTL
=============================================================================
