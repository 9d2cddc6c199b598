----------------------------- MODULE ProductGraph -----------------------------
(***************************************************************************)
(* The product graph of chapter 9: seed.py loading catalog and orders with *)
(* MERGE, embed_products.py hanging a chunk of text on each product, both  *)
(* again after every edit of the catalog, and what the agents' tools read  *)
(* from it at any moment.  A step is one auto-commit transaction: one      *)
(* session.run of a script.                                                *)
(***************************************************************************)
EXTENDS Naturals, FiniteSets

CONSTANTS
  Products, Ingredients,
  Concerns,  \* each customer's, as safety_check knows them
  Bought,    \* the products of each order in ORDERS
  Catalogs,  \* the ingredients of each product, as the first catalog may have them
  MaxEdits   \* edits of the catalog

VARIABLES
  catalog,   \* catalog_data.py: each product's ingredients and description
  edits,
  contains,  \* the graph: CONTAINS edges, of the products there are
  history,   \* the graph: CONTAINS_PRODUCT edges, of the orders there are
  chunks,    \* the graph: the text of the chunk of each product that has one
  seeding,   \* the run of seed.py: the catalog it imported and what it has to load
  embedding, \* the run of embed_products.py, likewise
  loaded     \* history: which scripts have run to the end on the catalog as it is

scripts == <<seeding, embedding>>
vars == <<catalog, edits, contains, history, chunks, scripts, loaded>>

NoSeed == [running |-> FALSE, catalog |-> <<>>, products |-> {}, product |-> "none",
           left |-> {}, orders |-> {}]

NoEmbedding == [running |-> FALSE, catalog |-> <<>>, products |-> {}, seeded |-> FALSE]

TypeOK ==
  /\ catalog \in [Products -> [ingredients : SUBSET Ingredients, text : 0 .. MaxEdits]]
  /\ edits \in 0 .. MaxEdits
  /\ DOMAIN contains \subseteq Products
  /\ \A p \in DOMAIN contains : contains[p] \subseteq Ingredients
  /\ DOMAIN history \subseteq DOMAIN Bought
  /\ DOMAIN chunks \subseteq DOMAIN contains
  /\ seeding.running \in BOOLEAN /\ seeding.products \subseteq Products
  /\ embedding.running \in BOOLEAN /\ embedding.products \subseteq Products
  /\ loaded \subseteq {"seed", "embed"}

Init ==
  /\ \E first \in Catalogs :
       catalog = [p \in Products |-> [ingredients |-> first[p], text |-> 0]]
  /\ edits = 0
  /\ contains = <<>> /\ history = <<>> /\ chunks = <<>>
  /\ seeding = NoSeed /\ embedding = NoEmbedding
  /\ loaded = {}

With(f, x, y) == [z \in DOMAIN f \cup {x} |-> IF z = x THEN y ELSE f[z]]

\* An edit of PRODUCTS.
Edit ==
  /\ edits < MaxEdits
  /\ edits' = edits + 1
  /\ \E p \in Products, is \in SUBSET Ingredients :
       catalog' = [catalog EXCEPT ![p] = [ingredients |-> is, text |-> edits']]
  /\ loaded' = {}
  /\ UNCHANGED <<contains, history, chunks, scripts>>

-----------------------------------------------------------------------------
(* seed.py: load_catalog, then load_customers_and_orders *)

StartSeed ==
  /\ ~seeding.running
  /\ seeding' = [NoSeed EXCEPT !.running = TRUE, !.catalog = catalog, !.products = Products,
                               !.orders = DOMAIN Bought]
  /\ UNCHANGED <<catalog, edits, contains, history, chunks, embedding, loaded>>

\* Mutant: the product is written afresh.
MergeProductAfresh(p) ==
  /\ p \in seeding.products /\ seeding.left = {}
  /\ contains' = With(contains, p, {})
  /\ seeding' = [seeding EXCEPT !.products = @ \ {p}, !.product = p,
                                !.left = seeding.catalog[p].ingredients]
  /\ UNCHANGED <<catalog, edits, history, chunks, embedding, loaded>>

\* MERGE leaves the edges of a product that is there alone.
MergeProduct(p) ==
  /\ p \in seeding.products /\ seeding.left = {}
  /\ contains' = IF p \in DOMAIN contains THEN contains ELSE With(contains, p, {})
  /\ seeding' = [seeding EXCEPT !.products = @ \ {p}, !.product = p,
                                !.left = seeding.catalog[p].ingredients]
  /\ UNCHANGED <<catalog, edits, history, chunks, embedding, loaded>>

MergeIngredient(i) ==
  /\ i \in seeding.left
  /\ contains' = [contains EXCEPT ![seeding.product] = @ \cup {i}]
  /\ seeding' = [seeding EXCEPT !.left = @ \ {i}]
  /\ UNCHANGED <<catalog, edits, history, chunks, embedding, loaded>>

\* Its products are matched, not merged: one that is not there is left out.
MergeOrder(o) ==
  /\ seeding.products = {} /\ seeding.left = {} /\ o \in seeding.orders
  /\ history' = With(history, o, (IF o \in DOMAIN history THEN history[o] ELSE {})
                                 \cup (Bought[o] \cap DOMAIN contains))
  /\ seeding' = [seeding EXCEPT !.orders = @ \ {o}]
  /\ UNCHANGED <<catalog, edits, contains, chunks, embedding, loaded>>

\* The run ends, or dies at any point and leaves what it has loaded.
EndSeed ==
  /\ seeding.running
  /\ loaded' = IF seeding.products \cup seeding.left \cup seeding.orders = {}
                  /\ seeding.catalog = catalog
               THEN loaded \cup {"seed"} ELSE loaded
  /\ seeding' = NoSeed
  /\ UNCHANGED <<catalog, edits, contains, history, chunks, embedding>>

-----------------------------------------------------------------------------
(* embed_products.py *)

StartEmbedding ==
  /\ ~embedding.running
  /\ embedding' = [running |-> TRUE, catalog |-> catalog, products |-> Products,
                   seeded |-> "seed" \in loaded]
  /\ UNCHANGED <<catalog, edits, contains, history, chunks, seeding, loaded>>

\* The product is matched: without it the statement does nothing.
Embed(p) ==
  /\ p \in embedding.products
  /\ chunks' = IF p \in DOMAIN contains THEN With(chunks, p, embedding.catalog[p].text) ELSE chunks
  /\ embedding' = [embedding EXCEPT !.products = @ \ {p}]
  /\ UNCHANGED <<catalog, edits, contains, history, seeding, loaded>>

EndEmbedding ==
  /\ embedding.running
  /\ loaded' = IF embedding.products = {} /\ embedding.catalog = catalog /\ embedding.seeded
               THEN loaded \cup {"embed"} ELSE loaded
  /\ embedding' = NoEmbedding
  /\ UNCHANGED <<catalog, edits, contains, history, chunks, seeding>>

-----------------------------------------------------------------------------
(* The agents' tools *)

Contents(p) == IF p \in DOMAIN contains THEN contains[p] ELSE {}

\* safety_check.
Decision(c, p) ==
  IF Contents(p) = {} THEN "unknown"
  ELSE IF Concerns[c] \cap Contents(p) # {} THEN "unsafe" ELSE "safe"

\* customer_order_history: MATCH drops an order without products.
OrdersShown == {o \in DOMAIN history : history[o] # {}}

\* products_and_alternatives: what a search can return, by the text of a chunk.
Rows == {[product |-> p, blurb |-> chunks[p]] : p \in DOMAIN chunks}

Next ==
  \/ Edit \/ StartSeed \/ EndSeed \/ StartEmbedding \/ EndEmbedding
  \/ \E p \in Products : MergeProduct(p) \/ Embed(p)
  \/ \E i \in Ingredients : MergeIngredient(i)
  \/ \E o \in DOMAIN Bought : MergeOrder(o)

Spec == Init /\ [][Next]_vars

-----------------------------------------------------------------------------

(***************************************************************************)
(* Once seed.py has loaded the catalog as it is, safety_check never calls  *)
(* a product safe that contains what the customer avoids, while seed.py    *)
(* runs again or after it died half way, and whatever was loaded before.   *)
(***************************************************************************)
SafeMeansSafe ==
  "seed" \in loaded => \A c \in DOMAIN Concerns, p \in Products :
    Decision(c, p) = "safe" => Concerns[c] \cap catalog[p].ingredients = {}

(***************************************************************************)
(* Once seed.py has run, every order is shown with all that was bought:    *)
(* orders are loaded after the products they only match.                   *)
(***************************************************************************)
HistoryIsComplete ==
  "seed" \in loaded => \A o \in DOMAIN Bought : o \in OrdersShown /\ history[o] = Bought[o]

(***************************************************************************)
(* Once embed_products.py has run after seed.py, every product can be      *)
(* found, by its description as it is.                                     *)
(***************************************************************************)
EverythingIsFound ==
  "embed" \in loaded => Rows = {[product |-> p, blurb |-> catalog[p].text] : p \in Products}

=============================================================================
