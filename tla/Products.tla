------------------------------ MODULE Products ------------------------------
(***************************************************************************)
(* Product records, the barcodes recorded against them, the inspections    *)
(* that are of them, and merging one product into another                  *)
(* (api/app/api/v1/products.py), by requests that overlap.  Products have  *)
(* a version, which every update of the row compares; barcodes have none,  *)
(* and a merge moves the inspections by one statement that compares none.  *)
(* What a product says of itself is left out but that it is updated, and   *)
(* so are the responsible parties, which no merge moves.                   *)
(***************************************************************************)
EXTENDS Naturals, Sequences, FiniteSets, Requests

CONSTANTS
    Product,      \* products that may be recorded
    Package,      \* inspections that may be opened on them
    Barcode,
    Desk,         \* requests about products that may be in flight together
    Unrecorded    \* no row yet

VARIABLES
    merges,     \* the targets in product_merge_records of a source, by time
    into,       \* products.merged_into_id; a product that is not merged: itself
    barcodes,   \* product_identifiers: the barcodes of a product
    primary,    \* those that are primary
    found,      \* the product an inspection was opened on
    now,        \* inspections.product_id
    desk        \* the progress of each request

productVars == <<merges, into, barcodes, primary, found, now, desk>>

-----------------------------------------------------------------------------
Updates    == [op : {"update"}, product : Product]
Recordings == [op : {"barcode"}, product : Product, barcode : Barcode, primary : BOOLEAN]
Merges     == [op : {"load", "merge"}, product : Product, target : Product,
               barcodes : SUBSET Barcode, moved : SUBSET Package]

ASSUME ProductAssumption == IsFiniteSet(Product) /\ Unrecorded \notin Product

Recorded == {p \in Product : into[p] # Unrecorded}

ProductInit ==
    /\ merges = [p \in Product |-> << >>]
    /\ into = [p \in Product |-> Unrecorded]
    /\ barcodes = [p \in Product |-> {}]
    /\ primary = [p \in Product |-> {}]
    /\ found = [i \in Package |-> Unrecorded]
    /\ now = [i \in Package |-> Unrecorded]
    /\ desk = [r \in Desk |-> Idle]

TakeUp(r, request) ==
    /\ desk[r] = Idle
    /\ desk' = [desk EXCEPT ![r] = request]
    /\ UNCHANGED <<merges, into, barcodes, primary, found, now>>

-----------------------------------------------------------------------------
(* Records                                                                 *)

\* create_product_record, with the barcodes given, the first of them primary.
RecordProduct ==
    \E p \in Product \ Recorded, given \in SUBSET Barcode :
        /\ \A q \in Recorded : given \cap barcodes[q] = {}
        /\ into' = [into EXCEPT ![p] = p]
        /\ barcodes' = [barcodes EXCEPT ![p] = given]
        /\ \E first \in SUBSET given :
              /\ Cardinality(first) = IF given = {} THEN 0 ELSE 1
              /\ primary' = [primary EXCEPT ![p] = first]
        /\ UNCHANGED <<merges, found, now, desk>>

\* create_inspection: any product that is found, a merged one too.
Inspect ==
    \E i \in Package, p \in Recorded :
        /\ now[i] = Unrecorded
        /\ found' = [found EXCEPT ![i] = p]
        /\ now' = [now EXCEPT ![i] = p]
        /\ UNCHANGED <<merges, into, barcodes, primary, desk>>

BeginUpdate(r) == \E p \in Recorded : TakeUp(r, [op |-> "update", product |-> p])

\* add_identifier: no other product has the barcode, and it is primary if the
\* product has no primary one.
BeginBarcode(r) ==
    \E p \in Recorded, code \in Barcode :
        /\ \A q \in Recorded \ {p} : code \notin barcodes[q]
        /\ TakeUp(r, [op |-> "barcode", product |-> p, barcode |-> code,
                    primary |-> primary[p] = {}])

\* The requests whose version of a product another request has made stale.
Holding(p) == {r \in Desk : /\ desk[r].op \in {"update", "load", "merge"}
                            /\ desk[r].product = p}

CommitUpdate(r) ==
    /\ desk[r].op = "update"
    /\ desk' = Ended(desk, r, Holding(desk[r].product))
    /\ UNCHANGED <<merges, into, barcodes, primary, found, now>>

\* The table allows a barcode once for a product.
CommitBarcode(r) ==
    LET p    == desk[r].product
        code == desk[r].barcode
    IN  /\ desk[r].op = "barcode"
        /\ code \notin barcodes[p]
        /\ barcodes' = [barcodes EXCEPT ![p] = @ \cup {code}]
        /\ primary' = [primary EXCEPT ![p] = IF desk[r].primary THEN @ \cup {code} ELSE @]
        /\ desk' = Ended(desk, r, {})
        /\ UNCHANGED <<merges, into, found, now>>

-----------------------------------------------------------------------------
(* Merging                                                                 *)

\* The target may have been merged itself.
BeginMerge(r) ==
    \E source, target \in Recorded :
        /\ source # target
        /\ into[source] = source
        /\ TakeUp(r, [op |-> "load", product |-> source, target |-> target,
                    barcodes |-> barcodes[source], moved |-> {}])

\* UPDATE inspections: it waits for a merge that holds one of the rows, and
\* then looks at what that merge has left.
MoveInspections(r) ==
    LET moved == {i \in Package : now[i] = desk[r].product}
    IN  /\ desk[r].op = "load"
        /\ \A q \in Desk : desk[q].op = "merge" => desk[q].moved \cap moved = {}
        /\ desk' = [desk EXCEPT ![r].op = "merge", ![r].moved = moved]
        /\ UNCHANGED <<merges, into, barcodes, primary, found, now>>

\* A mutant of Outdated: the version of the source is not compared.
OutdatedNever(r) == {}

\* What the source's new version stops.
Outdated(r) == Holding(desk[r].product)

\* The barcodes that were loaded become the target's, none of them primary; the
\* table refuses one that the target has.
CommitMerge(r) ==
    LET source == desk[r].product
        target == desk[r].target
        codes  == desk[r].barcodes
    IN  /\ desk[r].op = "merge"
        /\ codes \cap barcodes[target] = {}
        /\ now' = [i \in Package |-> IF i \in desk[r].moved THEN target ELSE now[i]]
        /\ barcodes' = [barcodes EXCEPT ![source] = @ \ codes, ![target] = @ \cup codes]
        /\ primary' = [primary EXCEPT ![source] = @ \ codes]
        /\ into' = [into EXCEPT ![source] = target]
        /\ merges' = [merges EXCEPT ![source] = Append(@, target)]
        /\ desk' = Ended(desk, r, Outdated(r))
        /\ UNCHANGED found

AbortProduct(r) ==
    /\ desk[r] # Idle
    /\ desk' = Ended(desk, r, {})
    /\ UNCHANGED <<merges, into, barcodes, primary, found, now>>

-----------------------------------------------------------------------------
ProductNext ==
    \/ RecordProduct
    \/ Inspect
    \/ \E r \in Desk :
          \/ BeginUpdate(r) \/ BeginBarcode(r) \/ BeginMerge(r)
          \/ MoveInspections(r)
          \/ CommitUpdate(r) \/ CommitBarcode(r) \/ CommitMerge(r)
          \/ AbortProduct(r)

ProductSpec == ProductInit /\ [][ProductNext]_productVars

-----------------------------------------------------------------------------
(* Properties                                                              *)

\* The products merged, and where from there, in any number of steps.
Reached(p) ==
    LET steps[n \in Nat] ==
            IF n = 0 THEN {p}
            ELSE LET before == steps[n - 1]
                 IN  before \cup {into[q] : q \in before}
    IN  steps[Cardinality(Product)]

\* Of the merges of one product in flight together one succeeds, and the record
\* of it is what the product says; an inspection is of the product it was
\* opened on or of one which the records of merges lead to.
InspectionsFollowTheMerges ==
    /\ \A p \in Recorded :
          merges[p] = IF into[p] = p THEN << >> ELSE <<into[p]>>
    /\ \A i \in Package : now[i] # Unrecorded => now[i] \in Reached(found[i])
=============================================================================
