---------------------------- MODULE IndexCatalog ----------------------------
(***************************************************************************)
(* What the index tables promise a reader: the READY batches form a        *)
(* catalog of segments.  A batch enters the catalog once, above all others *)
(* and with archives none of them holds; once withdrawn it never returns.  *)
(***************************************************************************)
EXTENDS Naturals

CONSTANTS
  Archives,     \* archive_id values
  Batches       \* batch_id values

VARIABLES
  catalog,      \* the READY batches and the archives each makes searchable
  retired       \* batches that will not be in the catalog (again)

cvars == <<catalog, retired>>

CatalogInit == catalog = [b \in Batches |-> {}] /\ retired = {}

Publish(b, s) ==
  /\ catalog[b] = {} /\ b \notin retired
  /\ s # {} /\ \A c \in Batches : catalog[c] \cap s = {} /\ (catalog[c] # {} => c < b)
  /\ catalog' = [catalog EXCEPT ![b] = s]
  /\ retired' = retired

Retire(b) ==
  /\ b \notin retired
  /\ catalog' = [catalog EXCEPT ![b] = {}]
  /\ retired' = retired \cup {b}

CatalogNext ==
  \E b \in Batches : Retire(b) \/ \E s \in SUBSET Archives : Publish(b, s)

CatalogSpec == CatalogInit /\ [][CatalogNext]_cvars
=============================================================================
