----------------------------- MODULE CatalogueProofs -----------------------------
(***************************************************************************)
(* Proofs about what an office keeps for its firms: the routing of         *)
(* messages to funnels, documents and their content, the media of          *)
(* conversations, specialists, the firms they serve and their scripts.     *)
(* They hold for any number of products, documents, files, specialists,    *)
(* firms, steps, rules and overlapping requests, with failing statements   *)
(* and crashes.                                                            *)
(***************************************************************************)
EXTENDS Catalogue, TLAPS, FiniteSetTheorems, WellFoundedInduction

-----------------------------------------------------------------------------
(* Numbers.                                                                *)

\* A finite set of numbers has a greatest one, and Max is it.
HasGreatest(S) == \E x \in S : \A y \in S : x >= y
LEMMA FiniteMax ==
  ASSUME NEW S \in SUBSET Int, IsFiniteSet(S), S # {}
  PROVE Max(S) \in S /\ \A y \in S : Max(S) >= y
<1> DEFINE Bad == {n \in Nat : \E T \in SUBSET Int : /\ IsFiniteSet(T) /\ T # {} /\ Cardinality(T) = n
                                                     /\ ~HasGreatest(T)}
<1>1. ASSUME Bad # {} PROVE FALSE
  <2>0. Bad \subseteq Nat
    OBVIOUS
  <2>1. PICK n \in Bad : \A m \in Bad : ~(<<m, n>> \in OpToRel(<, Nat))
    BY <1>1, <2>0, WFMin, NatLessThanWellFounded, Zenon
  <2>2. PICK T \in SUBSET Int : IsFiniteSet(T) /\ T # {} /\ Cardinality(T) = n /\ ~HasGreatest(T)
    OBVIOUS
  <2>3. PICK x \in T : TRUE
    BY <2>2
  <2> DEFINE U == T \ {x}
  <2>4. IsFiniteSet(U) /\ Cardinality(U) = n - 1 /\ U \in SUBSET Int
    BY <2>2, FS_RemoveElement
  <2>5. U # {}
    BY <2>2 DEF HasGreatest
  <2>6. CASE HasGreatest(U)
    <3>1. PICK g \in U : \A y \in U : g >= y
      BY <2>6 DEF HasGreatest
    <3>2. x \in Int /\ g \in Int
      BY <2>2
    <3>3. CASE g >= x
      BY <2>2, <3>1, <3>3 DEF HasGreatest
    <3>4. CASE x > g
      <4>1. \A y \in T : x >= y
        BY <2>2, <3>1, <3>2, <3>4
      <4> QED
        BY <2>2, <4>1 DEF HasGreatest
    <3> QED
      BY <3>2, <3>3, <3>4
  <2>7. CASE ~HasGreatest(U)
    <3>1. n - 1 \in Nat
      BY <2>4, FS_CardinalityType
    <3>2. n - 1 \in Bad
      BY <2>4, <2>5, <2>7, <3>1
    <3>3. <<n - 1, n>> \in OpToRel(<, Nat)
      BY <3>1 DEF OpToRel
    <3> QED
      BY <2>1, <3>2, <3>3
  <2> QED
    BY <2>6, <2>7
<1>2. HasGreatest(S)
  <2>1. Cardinality(S) \in Nat /\ Cardinality(S) \notin Bad
    BY <1>1, FS_CardinalityType
  <2> QED
    BY <2>1
<1>3. \E x \in S : \A y \in S : x >= y
  BY <1>2 DEF HasGreatest
<1> QED
  BY <1>3 DEF Max

\* What finitely many rows hold.
LEMMA FiniteImage ==
  ASSUME NEW ids, IsFiniteSet(ids), NEW f, DOMAIN f = ids PROVE IsFiniteSet({f[x] : x \in ids})
<1> DEFINE S == {f[x] : x \in ids}
           g == [x \in ids |-> f[x]]
<1>1. g \in [ids -> S] /\ \A t \in S : \E x \in ids : g[x] = t
  OBVIOUS
<1> HIDE DEF g, S
<1>2. g \in Surjection(ids, S)
  BY <1>1 DEF Surjection
<1>3. IsFiniteSet(S)
  BY <1>2, FS_Surjection
<1> QED
  BY <1>3 DEF S

\* The greatest of finitely many numbers and zero.
LEMMA MaxWithZero ==
  ASSUME NEW S \in SUBSET Int, IsFiniteSet(S) PROVE Max(S \cup {0}) \in Nat
<1>1. IsFiniteSet(S \cup {0}) /\ S \cup {0} \in SUBSET Int /\ 0 \in S \cup {0}
  BY FS_AddElement
<1>2. Max(S \cup {0}) \in S \cup {0} /\ Max(S \cup {0}) >= 0
  BY <1>1, FiniteMax
<1>3. Max(S \cup {0}) \in Int
  BY <1>1, <1>2
<1> QED
  BY <1>2, <1>3

\* The numbers of finitely many rows and zero.
LEMMA GreatestOrder ==
  ASSUME NEW ids, IsFiniteSet(ids), NEW rows, \A x \in ids : rows[x].order \in Int
  PROVE Max({rows[x].order : x \in ids} \cup {0}) \in Nat
<1> DEFINE S == {rows[x].order : x \in ids}
           f == [x \in ids |-> rows[x].order]
<1>1. S = {f[x] : x \in ids} /\ DOMAIN f = ids /\ S \in SUBSET Int
  OBVIOUS
<1> HIDE DEF f, S
<1>2. IsFiniteSet(S)
  BY <1>1, FiniteImage
<1>3. Max(S \cup {0}) \in Nat
  BY <1>1, <1>2, MaxWithZero
<1> QED
  BY <1>3 DEF S

-----------------------------------------------------------------------------
(* Products.                                                               *)

USE ProductAssumption

\* A message that is being matched, and one that was.
MatchRecord ==
  [phase : {"match"}, tenant : Tenant, text : SUBSET Keyword, ids : SUBSET Product,
   seen : SUBSET Product, steady : SUBSET Product, unlinked : SUBSET Product]
RouteRecord ==
  [phase : {"route"}, tenant : Tenant, text : SUBSET Keyword, product : Product, createdAt : Nat,
   seen : SUBSET Product, steady : SUBSET Product, unlinked : SUBSET Product]
ProductRequestTyped(q) ==
  /\ q.phase \in ProductPhase
  /\ q.phase = "form" => q.shown \in SUBSET Keyword
  /\ q.phase = "saveProduct" => q.product \in Product /\ q.row \in ProductRow
  /\ q.phase = "match" => q \in MatchRecord
  /\ q.phase = "route" => q \in RouteRecord

\* What a message knows of the rows: what was offered all along is offered and
\* was listed, and what was listed is linked or was unlinked since.
MatchSound(rows, links, q) ==
  /\ q.phase \in {"match", "route"} => q.steady \subseteq OfferedTo(rows, links, q.tenant, q.text)
  /\ q.phase = "match" =>
       /\ q.steady \subseteq q.ids
       /\ \A p \in q.ids : <<q.tenant, p>> \in links \/ p \in q.unlinked
  /\ q.phase = "route" =>
       /\ q.product \in q.seen \cup q.unlinked
       /\ \A p \in q.steady : q.createdAt <= rows[p].createdAt
  /\ q.phase = "missed" => q.steady = {}
MatchSeen(rows, links, q) ==
  q.phase = "match" => OfferedTo(rows, links, q.tenant, q.text) \subseteq q.seen

\* The copies of a product that are to be saved are of one product: it keeps
\* the time it was created at.
SavesAgree ==
  \A r \in ProductRequest : productReq[r].phase = "saveProduct" =>
    /\ product[productReq[r].product] # NoRow =>
         product[productReq[r].product].createdAt = productReq[r].row.createdAt
    /\ \A o \in ProductRequest :
         productReq[o].phase = "saveProduct" /\ productReq[o].product = productReq[r].product =>
           productReq[o].row.createdAt = productReq[r].row.createdAt

ProductRowsSound ==
  /\ product \in [Product -> ProductRow \cup {NoRow}]
  /\ tenantProduct \subseteq TenantProductRow /\ funnelProduct \in FunnelProductRow
  /\ \A tp \in tenantProduct : product[tp[2]] # NoRow
  /\ \A l \in Funnel \X Product : funnelProduct[l] # 0 => product[l[2]] # NoRow
ProductInvariant ==
  /\ ProductRowsSound /\ SavesAgree
  /\ DOMAIN productReq = ProductRequest
  /\ \A r \in ProductRequest :
       /\ ProductRequestTyped(productReq[r])
       /\ MatchSound(product, tenantProduct, productReq[r])
       /\ MatchSeen(product, tenantProduct, productReq[r])

\* What a step does to the rows.
RowsAge ==
  \A p \in Product : product[p] # NoRow /\ product'[p] # NoRow => product'[p].createdAt = product[p].createdAt

\* Watching a request keeps its type, and what it knows is true of the new rows.
LEMMA WatchedKeeps ==
  ASSUME ProductRowsSound, ProductRowsSound', RowsAge,
         NEW q, ProductRequestTyped(q), MatchSound(product, tenantProduct, q)
  PROVE  /\ ProductRequestTyped(Watched(q))
         /\ MatchSound(product', tenantProduct', Watched(q)) /\ MatchSeen(product', tenantProduct', Watched(q))
         /\ Watched(q).phase = q.phase
         /\ q.phase \notin {"match", "route"} => Watched(q) = q
<1> DEFINE now == OfferedTo(product', tenantProduct', q.tenant, q.text)
           lost == {p \in Product : <<q.tenant, p>> \in tenantProduct \ tenantProduct'}
<1>1. now \subseteq Product /\ lost \subseteq Product
  BY DEF OfferedTo
<1>2. \A p \in now : product'[p] # NoRow
  BY DEF OfferedTo
<1>3. \A p \in OfferedTo(product, tenantProduct, q.tenant, q.text) : product[p] # NoRow /\ p \in Product
  BY DEF OfferedTo
<1>4. CASE q.phase = "match"
  <2>1. q \in MatchRecord
    BY <1>4 DEF ProductRequestTyped
  <2>2. Watched(q) = [q EXCEPT !.seen = @ \cup now, !.steady = @ \cap now, !.unlinked = @ \cup lost]
    BY <1>4 DEF Watched
  <2> HIDE DEF now, lost
  <2>3. /\ Watched(q) \in MatchRecord /\ Watched(q).phase = "match"
        /\ Watched(q).tenant = q.tenant /\ Watched(q).text = q.text /\ Watched(q).ids = q.ids
        /\ Watched(q).seen = q.seen \cup now /\ Watched(q).steady = q.steady \cap now
        /\ Watched(q).unlinked = q.unlinked \cup lost
    BY <1>1, <2>1, <2>2 DEF MatchRecord
  <2>4. \A p \in q.ids : <<q.tenant, p>> \in tenantProduct' \/ p \in q.unlinked \cup lost
    BY <1>4, <2>1 DEF MatchSound, lost, MatchRecord
  <2>5. q.steady \subseteq q.ids
    BY <1>4 DEF MatchSound
  <2>6. ProductRequestTyped(Watched(q))
    BY <2>3 DEF ProductRequestTyped, ProductPhase
  <2>7. MatchSound(product', tenantProduct', Watched(q)) /\ MatchSeen(product', tenantProduct', Watched(q))
    BY <2>3, <2>4, <2>5 DEF MatchSound, MatchSeen, now
  <2> QED
    BY <1>4, <2>3, <2>6, <2>7
<1>5. CASE q.phase = "route"
  <2>1. q \in RouteRecord
    BY <1>5 DEF ProductRequestTyped
  <2>2. Watched(q) = [q EXCEPT !.seen = @ \cup now, !.steady = @ \cap now, !.unlinked = @ \cup lost]
    BY <1>5 DEF Watched
  <2> HIDE DEF now, lost
  <2>3. /\ Watched(q) \in RouteRecord /\ Watched(q).phase = "route"
        /\ Watched(q).tenant = q.tenant /\ Watched(q).text = q.text /\ Watched(q).product = q.product
        /\ Watched(q).seen = q.seen \cup now /\ Watched(q).steady = q.steady \cap now
        /\ Watched(q).unlinked = q.unlinked \cup lost /\ Watched(q).createdAt = q.createdAt
    <3>1. DOMAIN q = {"phase", "tenant", "text", "product", "createdAt", "seen", "steady", "unlinked"}
      BY <2>1 DEF RouteRecord
    <3>2. /\ Watched(q).phase = q.phase /\ Watched(q).tenant = q.tenant /\ Watched(q).text = q.text
          /\ Watched(q).product = q.product /\ Watched(q).createdAt = q.createdAt
          /\ Watched(q).seen = q.seen \cup now /\ Watched(q).steady = q.steady \cap now
          /\ Watched(q).unlinked = q.unlinked \cup lost
      BY <2>2, <3>1
    <3>3. /\ q.seen \cup now \in SUBSET Product /\ q.steady \cap now \in SUBSET Product
          /\ q.unlinked \cup lost \in SUBSET Product
      BY <1>1, <2>1 DEF RouteRecord
    <3>4. Watched(q) \in RouteRecord
      BY <2>1, <2>2, <3>3 DEF RouteRecord
    <3> QED
      BY <1>5, <3>2, <3>4
  <2>4. q.product \in q.seen \cup q.unlinked /\ \A p \in q.steady : q.createdAt <= product[p].createdAt
    BY <1>5 DEF MatchSound
  <2>5. q.steady \subseteq OfferedTo(product, tenantProduct, q.tenant, q.text)
    BY <1>5 DEF MatchSound
  <2>6. \A p \in q.steady \cap now : product'[p].createdAt = product[p].createdAt
    BY <1>2, <1>3, <2>5 DEF RowsAge
  <2>7. ProductRequestTyped(Watched(q))
    BY <2>3 DEF ProductRequestTyped, ProductPhase
  <2>8. MatchSound(product', tenantProduct', Watched(q)) /\ MatchSeen(product', tenantProduct', Watched(q))
    BY <2>3, <2>4, <2>6 DEF MatchSound, MatchSeen, now
  <2> QED
    BY <1>5, <2>3, <2>7, <2>8
<1>6. CASE q.phase \notin {"match", "route"}
  BY <1>6 DEF Watched, MatchSound, MatchSeen
<1> QED
  BY <1>4, <1>5, <1>6

\* A step gives every request, as it is or as it becomes, the new rows to watch.
LEMMA ProductStep ==
  ASSUME ProductInvariant, ProductRowsSound', RowsAge, SavesAgree', DOMAIN productReq' = ProductRequest,
         \A o \in ProductRequest : \E q :
           productReq'[o] = Watched(q) /\ ProductRequestTyped(q) /\ MatchSound(product, tenantProduct, q)
  PROVE  ProductInvariant'
<1>1. ASSUME NEW o \in ProductRequest
      PROVE /\ ProductRequestTyped(productReq'[o])
            /\ MatchSound(product', tenantProduct', productReq'[o])
            /\ MatchSeen(product', tenantProduct', productReq'[o])
  <2>1. PICK q : productReq'[o] = Watched(q) /\ ProductRequestTyped(q) /\ MatchSound(product, tenantProduct, q)
    OBVIOUS
  <2> QED
    BY <2>1, WatchedKeeps DEF ProductInvariant
<1>2. \A o \in ProductRequest :
        /\ ProductRequestTyped(productReq'[o])
        /\ MatchSound(product', tenantProduct', productReq'[o])
        /\ MatchSeen(product', tenantProduct', productReq'[o])
  BY <1>1
<1>3. \A o \in ProductRequest :
        /\ ProductRequestTyped(productReq[o])'
        /\ MatchSound(product, tenantProduct, productReq[o])'
        /\ MatchSeen(product, tenantProduct, productReq[o])'
  BY <1>2 DEF ProductRequestTyped, MatchSound, MatchSeen, OfferedTo
<1> QED
  BY <1>3 DEF ProductInvariant

\* No request comes to a save: the copies still agree when a product that comes
\* back comes back as one of them.
LEMMA SavesStay ==
  ASSUME ProductInvariant, RowsAge,
         \A o \in ProductRequest : productReq'[o].phase = "saveProduct" =>
           /\ productReq'[o] = productReq[o]
           /\ LET p == productReq[o].product IN
              product[p] = NoRow /\ product'[p] # NoRow => product'[p].createdAt = productReq[o].row.createdAt
  PROVE  SavesAgree'
<1>1. ASSUME NEW r \in ProductRequest, productReq'[r].phase = "saveProduct"
      PROVE /\ product'[productReq'[r].product] # NoRow =>
                 product'[productReq'[r].product].createdAt = productReq'[r].row.createdAt
            /\ \A o \in ProductRequest :
                 productReq'[o].phase = "saveProduct" /\ productReq'[o].product = productReq'[r].product =>
                   productReq'[o].row.createdAt = productReq'[r].row.createdAt
  <2>1. productReq'[r] = productReq[r] /\ productReq[r].product \in Product
    BY <1>1 DEF ProductInvariant, ProductRequestTyped
  <2> QED
    BY <1>1, <2>1 DEF ProductInvariant, SavesAgree, RowsAge
<1> QED
  BY <1>1 DEF SavesAgree

\* The rows move and every request watches.
LEMMA ProductRowsMove ==
  ASSUME ProductInvariant, Go, ProductRowsSound', RowsAge,
         \A o \in ProductRequest : productReq[o].phase = "saveProduct" /\ product[productReq[o].product] = NoRow =>
           product'[productReq[o].product] = NoRow
  PROVE ProductInvariant'
<1>1. DOMAIN productReq' = ProductRequest /\ \A o \in ProductRequest : productReq'[o] = Watched(productReq[o])
  BY DEF Go
<1>2. \A o \in ProductRequest :
        /\ ProductRequestTyped(productReq[o]) /\ MatchSound(product, tenantProduct, productReq[o])
        /\ Watched(productReq[o]).phase = productReq[o].phase
        /\ productReq[o].phase \notin {"match", "route"} => Watched(productReq[o]) = productReq[o]
  BY WatchedKeeps DEF ProductInvariant
<1>3. SavesAgree'
  BY <1>1, <1>2, SavesStay
<1> QED
  BY <1>1, <1>2, <1>3, ProductStep

\* One request moves and no row does.
LEMMA ProductRequestMoves ==
  ASSUME ProductInvariant, NEW r \in ProductRequest, NEW q, Gets(r, q), ProductRequestTyped(q),
         MatchSound(product, tenantProduct, q),
         q.phase = "saveProduct" => product[q.product] # NoRow /\ q.row.createdAt = product[q.product].createdAt
  PROVE ProductInvariant'
<1>1. UNCHANGED <<product, tenantProduct, funnelProduct>> /\ DOMAIN productReq' = ProductRequest
  BY DEF Gets, Becomes, productRows
<1>2. productReq'[r] = Watched(q) /\ \A o \in ProductRequest \ {r} : productReq'[o] = Watched(productReq[o])
  BY DEF Gets, Becomes
<1>3. ProductRowsSound' /\ RowsAge
  <2> HIDE DEF ProductRow, TenantProductRow, FunnelProductRow
  <2> QED
    BY <1>1 DEF ProductInvariant, ProductRowsSound, RowsAge
<1>4. \A o \in ProductRequest :
        /\ ProductRequestTyped(productReq[o]) /\ MatchSound(product, tenantProduct, productReq[o])
        /\ Watched(productReq[o]).phase = productReq[o].phase
        /\ productReq[o].phase \notin {"match", "route"} => Watched(productReq[o]) = productReq[o]
  BY <1>3, WatchedKeeps DEF ProductInvariant
<1>5. Watched(q).phase = q.phase /\ (q.phase \notin {"match", "route"} => Watched(q) = q)
  BY <1>3, WatchedKeeps DEF ProductInvariant
<1>6. SavesAgree'
  <2>1. CASE q.phase = "saveProduct"
    <3>1. \A o \in ProductRequest : productReq'[o].phase = "saveProduct" =>
            productReq'[o] = IF o = r THEN q ELSE productReq[o]
      BY <1>2, <1>4, <1>5
    <3>2. \A o \in ProductRequest :
            productReq'[o].phase = "saveProduct" /\ product[productReq'[o].product] # NoRow =>
              productReq'[o].row.createdAt = product[productReq'[o].product].createdAt
      BY <2>1, <3>1 DEF ProductInvariant, SavesAgree
    <3>3. \A o, s \in ProductRequest :
            productReq'[o].phase = "saveProduct" /\ productReq'[s].phase = "saveProduct"
              /\ productReq'[o].product = productReq'[s].product =>
            productReq'[o].row.createdAt = productReq'[s].row.createdAt
      BY <2>1, <3>1, <3>2 DEF ProductInvariant, SavesAgree
    <3> QED
      BY <1>1, <3>2, <3>3 DEF SavesAgree
  <2>2. CASE q.phase # "saveProduct"
    <3>1. \A o \in ProductRequest : productReq'[o].phase = "saveProduct" => productReq'[o] = productReq[o]
      BY <1>2, <1>4, <1>5, <2>2
    <3> QED
      BY <1>1, <1>3, <3>1, SavesStay
  <2> QED
    BY <2>1, <2>2
<1>7. \A o \in ProductRequest : \E x :
        productReq'[o] = Watched(x) /\ ProductRequestTyped(x) /\ MatchSound(product, tenantProduct, x)
  BY <1>2, <1>4
<1> QED
  BY <1>1, <1>3, <1>6, <1>7, ProductStep

\* The words of keywords are keywords.
LEMMA ShownAreKeywords ==
  ASSUME NEW ks \in SUBSET Keyword PROVE ShownKeywords(ks) \in SUBSET Keyword
<1> SUFFICES ASSUME NEW k \in ks, NEW w \in Range(k) PROVE <<w>> \in Keyword
  BY DEF ShownKeywords
<1>1. PICK n \in 1..2 : k \in [1..n -> Field]
  BY DEF Keyword
<1>2. w \in Field
  BY <1>1 DEF Range
<1>3. <<w>> \in [1..1 -> Field]
  BY <1>2
<1> QED
  BY <1>3 DEF Keyword

\* A product is made after those there are.
LEMMA NewProductTyped ==
  ASSUME ProductRowsSound, NEW ks \in SUBSET Keyword PROVE NewProduct(ks) \in ProductRow
<1>1. \A p \in Stored : product[p] \in ProductRow
  <2> HIDE DEF ProductRow
  <2> QED
    BY DEF Stored, ProductRowsSound
<1>2. \A p \in Stored : product[p].createdAt \in Nat
  BY <1>1 DEF ProductRow
<1> DEFINE f == [p \in Stored |-> product[p].createdAt]
           S == {product[p].createdAt : p \in Stored}
<1>3. S = {f[p] : p \in Stored} /\ DOMAIN f = Stored /\ IsFiniteSet(Stored)
  BY FS_Subset DEF Stored
<1>4. IsFiniteSet(S)
  <2> HIDE DEF f, S
  <2> QED
    BY <1>3, FiniteImage
<1>5. S \subseteq Int
  BY <1>2
<1> HIDE DEF S, f
<1>6. Max(S \cup {0}) \in Nat
  BY <1>4, <1>5, MaxWithZero
<1>7. PICK at \in Nat : at = 1 + Max(S \cup {0})
  BY <1>6
<1>8. NewProduct(ks) = [active |-> TRUE, keywords |-> ks, createdAt |-> at]
  BY <1>7 DEF NewProduct, S
<1> QED
  BY <1>8 DEF ProductRow

\* A change of a product begins: the copy is of the row there is.
LEMMA FindProductKeeps ==
  ASSUME ProductInvariant, NEW r \in ProductRequest, NEW p \in Product, product[p] # NoRow,
         NEW row \in ProductRow, row.createdAt = product[p].createdAt, FindProductNow(r, p, row)
  PROVE ProductInvariant'
<1>1. PICK q : q = [phase |-> "saveProduct", product |-> p, row |-> row]
  OBVIOUS
<1>2. Gets(r, q) /\ q.phase = "saveProduct" /\ q.product = p /\ q.row = row
  BY <1>1 DEF FindProductNow
<1>3. ProductRequestTyped(q) /\ MatchSound(product, tenantProduct, q)
  BY <1>2 DEF ProductRequestTyped, ProductPhase, MatchSound
<1> QED
  BY <1>2, <1>3, ProductRequestMoves

\* The forms of the office and of a firm.
LEMMA ProductFormsKeep ==
  ASSUME ProductInvariant, AdminForms \/ FunnelForms PROVE ProductInvariant'
<1>0. ProductRowsSound
  BY DEF ProductInvariant
<1>1. ASSUME NEW p \in Product, NEW ks \in SUBSET Keyword, CreateProduct(p, ks) PROVE ProductInvariant'
  <2>1. PICK row : row = NewProduct(ks)
    OBVIOUS
  <2>2. row \in ProductRow /\ product' = [product EXCEPT ![p] = row] /\ product[p] = NoRow
        /\ UNCHANGED <<tenantProduct, funnelProduct>> /\ Go
    BY <1>0, <1>1, <2>1, NewProductTyped DEF CreateProduct
  <2>3. \A o \in ProductRequest : productReq[o].phase = "saveProduct" => productReq[o].product # p
    BY <1>1 DEF CreateProduct, HeldProduct
  <2>4. \A o \in ProductRequest : productReq[o].phase = "saveProduct" => productReq[o].product \in Product
    BY DEF ProductInvariant, ProductRequestTyped
  <2> HIDE DEF ProductRow, TenantProductRow, FunnelProductRow
  <2>5. /\ product' \in [Product -> ProductRow \cup {NoRow}]
        /\ \A x \in Product : product[x] # NoRow => product'[x] = product[x]
        /\ \A x \in Product \ {p} : product'[x] = product[x]
    BY <1>0, <2>2 DEF ProductRowsSound
  <2>6. \A tp \in tenantProduct : tp[2] \in Product
    BY <1>0 DEF ProductRowsSound, TenantProductRow
  <2>7. ProductRowsSound' /\ RowsAge
    BY <1>0, <2>2, <2>5, <2>6 DEF ProductRowsSound, RowsAge
  <2> QED
    BY <2>2, <2>3, <2>4, <2>5, <2>7, ProductRowsMove
<1>2. ASSUME NEW p \in Product, NEW r \in ProductRequest, RenderAdminProductForm(r, p) PROVE ProductInvariant'
  <2>1. PICK shown : shown = ShownKeywords(product[p].keywords)
    OBVIOUS
  <2>2. PICK q : q = [phase |-> "form", product |-> p, shown |-> shown]
    OBVIOUS
  <2>3. Gets(r, q) /\ product[p] # NoRow
    BY <1>2, <2>1, <2>2 DEF RenderAdminProductForm
  <2>4. product[p].keywords \in SUBSET Keyword
    BY <1>0, <2>3 DEF ProductRow, ProductRowsSound
  <2>5. shown \in SUBSET Keyword
    BY <2>1, <2>4, ShownAreKeywords
  <2>6. q.phase = "form" /\ q.shown = shown
    BY <2>2
  <2>7. ProductRequestTyped(q) /\ MatchSound(product, tenantProduct, q)
    BY <2>5, <2>6 DEF ProductRequestTyped, ProductPhase, MatchSound
  <2> QED
    BY <2>3, <2>6, <2>7, ProductRequestMoves
<1>3. ASSUME NEW p \in Product, NEW r \in ProductRequest, ToggleProduct(r, p) PROVE ProductInvariant'
  <2>1. product[p] \in ProductRow /\ product[p] # NoRow
    <3> HIDE DEF ProductRow
    <3> QED
      BY <1>0, <1>3 DEF ToggleProduct, ProductRowsSound
  <2>2. PICK row : row = [product[p] EXCEPT !.active = ~@]
    OBVIOUS
  <2>3. row \in ProductRow /\ row.createdAt = product[p].createdAt
    BY <2>1, <2>2 DEF ProductRow
  <2>4. FindProductNow(r, p, row)
    BY <1>3, <2>2 DEF ToggleProduct
  <2> QED
    BY <2>1, <2>3, <2>4, FindProductKeeps
<1>4. ASSUME NEW p \in Product, NEW r \in ProductRequest, productReq[r].phase = "form", productReq[r].product = p,
             UpdateProduct(r, productReq[r].shown)
      PROVE ProductInvariant'
  <2>1. productReq[r].shown \in SUBSET Keyword
    BY <1>4 DEF ProductInvariant, ProductRequestTyped
  <2>2. product[p] \in ProductRow /\ product[p] # NoRow
    <3> HIDE DEF ProductRow
    <3> QED
      BY <1>0, <1>4 DEF UpdateProduct, ProductRowsSound
  <2>3. PICK ks : ks = productReq[r].shown
    OBVIOUS
  <2>4. PICK row : row = [product[p] EXCEPT !.keywords = ks]
    OBVIOUS
  <2>5. row \in ProductRow /\ row.createdAt = product[p].createdAt
    BY <2>1, <2>2, <2>3, <2>4 DEF ProductRow
  <2>6. FindProductNow(r, p, row)
    BY <1>4, <2>3, <2>4 DEF UpdateProduct
  <2> QED
    BY <2>2, <2>5, <2>6, FindProductKeeps
<1>5. ASSUME NEW p \in Product, DeleteProduct(p) PROVE ProductInvariant'
  <2>1. /\ product' = [product EXCEPT ![p] = NoRow]
        /\ tenantProduct' = {tp \in tenantProduct : tp[2] # p}
        /\ funnelProduct' = [l \in Funnel \X Product |-> IF l[2] = p THEN 0 ELSE funnelProduct[l]]
        /\ Go
    BY <1>5 DEF DeleteProduct
  <2> HIDE DEF ProductRow
  <2>2. product' \in [Product -> ProductRow \cup {NoRow}] /\ \A x \in Product \ {p} : product'[x] = product[x]
    BY <1>0, <2>1 DEF ProductRowsSound
  <2>3. product'[p] = NoRow
    BY <1>0, <2>1 DEF ProductRowsSound
  <2>4. funnelProduct' \in FunnelProductRow
    BY <1>0, <2>1 DEF FunnelProductRow, ProductRowsSound
  <2>5. \A tp \in tenantProduct' : tp \in TenantProductRow /\ product'[tp[2]] # NoRow
    <3>1. \A tp \in tenantProduct' : tp \in TenantProductRow /\ tp[2] # p /\ product[tp[2]] # NoRow
      BY <1>0, <2>1 DEF ProductRowsSound
    <3>2. \A tp \in TenantProductRow : tp[2] \in Product
      BY DEF TenantProductRow
    <3> QED
      BY <2>2, <3>1, <3>2
  <2>6. \A l \in Funnel \X Product : funnelProduct'[l] # 0 => product'[l[2]] # NoRow
    BY <1>0, <2>1, <2>2 DEF ProductRowsSound
  <2>7. RowsAge /\ \A x \in Product : product[x] = NoRow => product'[x] = NoRow
    BY <2>2, <2>3 DEF RowsAge
  <2>8. \A o \in ProductRequest : productReq[o].phase = "saveProduct" => productReq[o].product \in Product
    BY DEF ProductInvariant, ProductRequestTyped
  <2> HIDE DEF FunnelProductRow, TenantProductRow
  <2>9. ProductRowsSound'
    BY <2>2, <2>4, <2>5, <2>6 DEF ProductRowsSound
  <2> QED
    BY <2>1, <2>7, <2>8, <2>9, ProductRowsMove
<1>6. ASSUME ProductRowsSound', UNCHANGED product, Go PROVE ProductInvariant'
  BY <1>6, ProductRowsMove DEF RowsAge
<1>7. ASSUME NEW p \in Product, NEW t \in Tenant, AssociateTenant(t, p) \/ DisassociateTenant(t, p)
      PROVE ProductInvariant'
  BY <1>0, <1>6, <1>7 DEF AssociateTenant, DisassociateTenant, TenantProductRow, ProductRowsSound
<1>8. ASSUME NEW l \in Funnel \X Product, NEW n \in Priority \cup {0}, n # 0 => product[l[2]] # NoRow,
             funnelProduct' = [funnelProduct EXCEPT ![l] = n], UNCHANGED <<product, tenantProduct>>, Go
      PROVE ProductInvariant'
  <2>1. funnelProduct' \in FunnelProductRow
    BY <1>0, <1>8 DEF FunnelProductRow, ProductRowsSound
  <2>2. \A k \in Funnel \X Product : funnelProduct'[k] = IF k = l THEN n ELSE funnelProduct[k]
    BY <1>0, <1>8 DEF FunnelProductRow, ProductRowsSound
  <2> HIDE DEF ProductRow, FunnelProductRow, TenantProductRow
  <2>3. \A k \in Funnel \X Product : funnelProduct'[k] # 0 => product'[k[2]] # NoRow
    BY <1>0, <1>8, <2>2 DEF ProductRowsSound
  <2>4. ProductRowsSound'
    BY <1>0, <1>8, <2>1, <2>3 DEF ProductRowsSound
  <2> QED
    BY <1>6, <1>8, <2>4
<1>9. ASSUME NEW f \in Funnel, NEW p \in Product,
             UnlinkFunnel(f, p) \/ \E priority \in Priority : LinkFunnel(f, p, priority) \/ UpdatePriority(f, p, priority)
      PROVE ProductInvariant'
  <2>1. PICK l : l = <<f, p>>
    OBVIOUS
  <2>2. l \in Funnel \X Product /\ l[2] = p
    BY <2>1
  <2>3. funnelProduct[l] # 0 => product[p] # NoRow
    BY <1>0, <2>2 DEF ProductRowsSound
  <2>4. CASE UnlinkFunnel(f, p)
    BY <1>8, <2>1, <2>2, <2>4 DEF UnlinkFunnel
  <2>5. ASSUME NEW priority \in Priority, LinkFunnel(f, p, priority) PROVE ProductInvariant'
    BY <1>8, <2>1, <2>2, <2>5 DEF LinkFunnel
  <2>6. ASSUME NEW priority \in Priority, UpdatePriority(f, p, priority) PROVE ProductInvariant'
    BY <1>8, <2>1, <2>2, <2>3, <2>6 DEF UpdatePriority
  <2> QED
    BY <1>9, <2>4, <2>5, <2>6
<1>10. CASE AdminForms
  BY <1>1, <1>2, <1>3, <1>4, <1>5, <1>7, <1>10 DEF AdminForms
<1> QED
  BY <1>9, <1>10 DEF FunnelForms

\* The save of a copy: the product is as old as the copy says.
LEMMA SaveProductKeeps ==
  ASSUME ProductInvariant, NEW r \in ProductRequest, SaveProduct(r) PROVE ProductInvariant'
<1>0. ProductRowsSound /\ SavesAgree
  BY DEF ProductInvariant
<1>1. PICK q : q = productReq[r]
  OBVIOUS
<1>2. /\ q.phase = "saveProduct" /\ product' = [product EXCEPT ![q.product] = q.row]
      /\ Becomes(r, ProductIdle) /\ UNCHANGED <<tenantProduct, funnelProduct>>
  BY <1>1 DEF SaveProduct
<1>3. q.product \in Product /\ q.row \in ProductRow
  BY <1>1, <1>2 DEF ProductInvariant, ProductRequestTyped
<1>4. product'[q.product] = q.row /\ \A x \in Product \ {q.product} : product'[x] = product[x]
  BY <1>0, <1>2, <1>3 DEF ProductRowsSound
<1>5. product[q.product] # NoRow => product[q.product].createdAt = q.row.createdAt
  BY <1>0, <1>1, <1>2 DEF SavesAgree
<1>6. RowsAge
  BY <1>4, <1>5 DEF RowsAge
<1>7. ProductRowsSound'
  <2>1. \A tp \in tenantProduct : tp[2] \in Product
    BY <1>0 DEF TenantProductRow, ProductRowsSound
  <2> HIDE DEF ProductRow, TenantProductRow, FunnelProductRow
  <2>2. /\ product' \in [Product -> ProductRow \cup {NoRow}]
        /\ \A x \in Product : product[x] # NoRow => product'[x] # NoRow
    BY <1>0, <1>2, <1>3 DEF ProductRowsSound
  <2> QED
    BY <1>0, <1>2, <2>1, <2>2 DEF ProductRowsSound
<1>8. ProductRequestTyped(ProductIdle) /\ MatchSound(product, tenantProduct, ProductIdle) /\ ProductIdle.phase = "none"
  BY DEF ProductIdle, ProductPhase, ProductRequestTyped, MatchSound
<1>9. /\ DOMAIN productReq' = ProductRequest /\ productReq'[r] = Watched(ProductIdle)
      /\ \A o \in ProductRequest \ {r} : productReq'[o] = Watched(productReq[o])
  BY <1>2 DEF Becomes
<1>10. \A o \in ProductRequest :
         /\ ProductRequestTyped(productReq[o]) /\ MatchSound(product, tenantProduct, productReq[o])
         /\ Watched(productReq[o]).phase = productReq[o].phase
         /\ productReq[o].phase \notin {"match", "route"} => Watched(productReq[o]) = productReq[o]
  BY <1>0, <1>6, <1>7, WatchedKeeps DEF ProductInvariant
<1>11. Watched(ProductIdle) = ProductIdle
  BY <1>8 DEF Watched
<1>12. \A o \in ProductRequest : productReq'[o].phase = "saveProduct" => o # r /\ productReq'[o] = productReq[o]
  BY <1>8, <1>9, <1>10, <1>11
<1>13. \A o \in ProductRequest : productReq'[o].phase = "saveProduct" =>
         LET p == productReq[o].product IN
         product[p] = NoRow /\ product'[p] # NoRow => product'[p].createdAt = productReq[o].row.createdAt
  <2> SUFFICES ASSUME NEW o \in ProductRequest, productReq'[o].phase = "saveProduct",
                      product[productReq[o].product] = NoRow, product'[productReq[o].product] # NoRow
               PROVE product'[productReq[o].product].createdAt = productReq[o].row.createdAt
    OBVIOUS
  <2>1. productReq[o].phase = "saveProduct" /\ productReq[o].product \in Product
    BY <1>12 DEF ProductInvariant, ProductRequestTyped
  <2>2. productReq[o].product = q.product
    BY <1>4, <2>1
  <2>3. q.row.createdAt = productReq[o].row.createdAt
    BY <1>0, <1>1, <1>2, <2>1, <2>2 DEF SavesAgree
  <2> QED
    BY <1>4, <2>2, <2>3
<1>14. SavesAgree'
  BY <1>6, <1>12, <1>13, SavesStay
<1>15. \A o \in ProductRequest : \E x :
         productReq'[o] = Watched(x) /\ ProductRequestTyped(x) /\ MatchSound(product, tenantProduct, x)
  BY <1>8, <1>9, <1>10
<1> QED
  BY <1>6, <1>7, <1>9, <1>14, <1>15, ProductStep

\* A message begins to be matched: what is offered is linked.
LEMMA DetectProductKeeps ==
  ASSUME ProductInvariant, NEW r \in ProductRequest, NEW t \in Tenant, NEW text \in Text, DetectProduct(r, t, text)
  PROVE  ProductInvariant'
<1>1. PICK ids : ids = FindByTenantID(t)
  OBVIOUS
<1>2. PICK steady : steady = OfferedTo(product, tenantProduct, t, text)
  OBVIOUS
<1>3. steady \subseteq ids /\ ids \subseteq Product /\ \A p \in ids : <<t, p>> \in tenantProduct
  BY <1>1, <1>2 DEF OfferedTo, FindByTenantID
<1>4. text \subseteq Keyword
  BY DEF Text
<1>5. PICK q : q = [phase |-> "match", tenant |-> t, text |-> text, ids |-> ids,
                    seen |-> {}, steady |-> steady, unlinked |-> {}]
  OBVIOUS
<1>6. PICK m : m = [phase |-> "missed", steady |-> steady]
  OBVIOUS
<1>7. (ids = {} /\ Gets(r, m)) \/ Gets(r, q)
  BY <1>1, <1>2, <1>5, <1>6 DEF DetectProduct
<1>8. CASE Gets(r, q)
  <2>1. /\ q \in MatchRecord /\ q.phase = "match" /\ q.tenant = t /\ q.text = text
        /\ q.ids = ids /\ q.steady = steady
    BY <1>3, <1>4, <1>5 DEF MatchRecord
  <2>2. ProductRequestTyped(q)
    BY <2>1 DEF ProductRequestTyped, ProductPhase
  <2>3. MatchSound(product, tenantProduct, q)
    BY <1>2, <1>3, <2>1 DEF MatchSound
  <2> QED
    BY <1>8, <2>1, <2>2, <2>3, ProductRequestMoves
<1>9. CASE ids = {} /\ Gets(r, m)
  <2>1. m.phase = "missed" /\ m.steady = {}
    BY <1>3, <1>6, <1>9
  <2>2. ProductRequestTyped(m) /\ MatchSound(product, tenantProduct, m)
    BY <2>1 DEF ProductRequestTyped, ProductPhase, MatchSound
  <2> QED
    BY <1>9, <2>1, <2>2, ProductRequestMoves
<1> QED
  BY <1>7, <1>8, <1>9

\* It is matched: what was offered all along is listed, on and in the text.
LEMMA MatchProductKeeps ==
  ASSUME ProductInvariant, NEW r \in ProductRequest, MatchProduct(r) PROVE ProductInvariant'
<1>1. PICK q : q = productReq[r]
  OBVIOUS
<1>2. q.phase = "match"
  BY <1>1 DEF MatchProduct
<1>3. q \in MatchRecord /\ MatchSound(product, tenantProduct, q) /\ MatchSeen(product, tenantProduct, q)
  BY <1>1, <1>2 DEF ProductInvariant, ProductRequestTyped
<1> DEFINE matching == {p \in FindActiveByIDs(q.ids) : MatchesText(p, q.text)}
<1>4. q.steady \subseteq matching
  BY <1>2, <1>3 DEF MatchSound, OfferedTo, FindActiveByIDs, MatchesText
<1>5. CASE matching = {} /\ Gets(r, [phase |-> "missed", steady |-> q.steady])
  <2>1. PICK m : m = [phase |-> "missed", steady |-> q.steady]
    OBVIOUS
  <2>2. Gets(r, m) /\ m.phase = "missed" /\ m.steady = {}
    BY <1>4, <1>5, <2>1
  <2>3. ProductRequestTyped(m) /\ MatchSound(product, tenantProduct, m)
    BY <2>2 DEF ProductRequestTyped, ProductPhase, MatchSound
  <2> QED
    BY <2>2, <2>3, ProductRequestMoves
<1>6. ASSUME NEW p \in FirstOf(matching),
             Gets(r, [phase |-> "route", tenant |-> q.tenant, text |-> q.text, product |-> p,
                      createdAt |-> product[p].createdAt,
                      seen |-> q.seen, steady |-> q.steady, unlinked |-> q.unlinked])
      PROVE ProductInvariant'
  <2>1. PICK m : m = [phase |-> "route", tenant |-> q.tenant, text |-> q.text, product |-> p,
                      createdAt |-> product[p].createdAt,
                      seen |-> q.seen, steady |-> q.steady, unlinked |-> q.unlinked]
    OBVIOUS
  <2>2. p \in matching /\ \A x \in matching : product[p].createdAt <= product[x].createdAt
    BY <1>6 DEF FirstOf
  <2>3. /\ p \in q.ids /\ p \in Product /\ product[p] # NoRow /\ product[p].active
        /\ product[p].keywords \cap q.text # {}
    BY <1>3, <2>2 DEF FindActiveByIDs, MatchesText, MatchRecord
  <2>4. product[p].createdAt \in Nat
    BY <2>3 DEF ProductInvariant, ProductRowsSound, ProductRow
  <2>5. /\ m \in RouteRecord /\ m.phase = "route" /\ m.product = p /\ m.createdAt = product[p].createdAt
        /\ m.seen = q.seen /\ m.steady = q.steady /\ m.unlinked = q.unlinked
        /\ m.tenant = q.tenant /\ m.text = q.text
    BY <1>3, <2>1, <2>3, <2>4 DEF MatchRecord, RouteRecord
  <2>6. p \in q.seen \cup q.unlinked
    <3>1. CASE <<q.tenant, p>> \in tenantProduct
      BY <1>2, <1>3, <2>3, <3>1 DEF MatchSeen, OfferedTo
    <3>2. CASE <<q.tenant, p>> \notin tenantProduct
      BY <1>2, <1>3, <2>3, <3>2 DEF MatchSound
    <3> QED
      BY <3>1, <3>2
  <2>7. \A x \in q.steady : product[p].createdAt <= product[x].createdAt
    BY <1>4, <2>2
  <2>8. q.steady \subseteq OfferedTo(product, tenantProduct, q.tenant, q.text)
    BY <1>2, <1>3 DEF MatchSound
  <2>9. MatchSound(product, tenantProduct, m)
    BY <2>5, <2>6, <2>7, <2>8 DEF MatchSound
  <2>10. ProductRequestTyped(m)
    BY <2>5 DEF ProductRequestTyped, ProductPhase
  <2>11. Gets(r, m)
    BY <1>6, <2>1
  <2> QED
    BY <2>5, <2>9, <2>10, <2>11, ProductRequestMoves
<1> QED
  BY <1>1, <1>5, <1>6, Zenon DEF MatchProduct

\* The statements of requests and messages.
LEMMA ProductStatementsKeep ==
  ASSUME ProductInvariant, ProductStatements PROVE ProductInvariant'
<1>1. ASSUME NEW r \in ProductRequest, NEW q, Gets(r, q), q.phase \in {"none", "routed"} PROVE ProductInvariant'
  <2>1. ProductRequestTyped(q) /\ MatchSound(product, tenantProduct, q)
    BY <1>1 DEF ProductRequestTyped, ProductPhase, MatchSound
  <2> QED
    BY <1>1, <2>1, ProductRequestMoves
<1>2. ASSUME NEW r \in ProductRequest, FindTopPriorityFunnel(r) PROVE ProductInvariant'
  <2>1. CASE Gets(r, ProductIdle)
    BY <1>1, <2>1 DEF ProductIdle
  <2>2. ASSUME NEW t, NEW p, NEW f, Gets(r, [phase |-> "routed", tenant |-> t, product |-> p, funnel |-> f])
        PROVE ProductInvariant'
    <3>1. [phase |-> "routed", tenant |-> t, product |-> p, funnel |-> f].phase = "routed"
      OBVIOUS
    <3> QED
      BY <1>1, <2>2, <3>1
  <2> QED
    BY <1>2, <2>1, <2>2, Zenon DEF FindTopPriorityFunnel
<1> QED
  BY <1>2, SaveProductKeeps, DetectProductKeeps, MatchProductKeeps DEF ProductStatements

LEMMA ProductInductive == ProductInvariant /\ [ProductNext]_productVars => ProductInvariant'
<1>1. ProductInvariant /\ UNCHANGED productVars => ProductInvariant'
  <2> HIDE DEF ProductRow, TenantProductRow, FunnelProductRow
  <2> QED
    BY DEF productVars, productRows, ProductInvariant, ProductRowsSound, SavesAgree, ProductRequestTyped,
           MatchSound, MatchSeen, OfferedTo
<1> QED
  BY <1>1, ProductFormsKeep, ProductStatementsKeep DEF ProductNext

LEMMA ProductAlways == ProductSpec => []ProductInvariant
<1>1. ProductInit => ProductInvariant
  BY DEF ProductInit, ProductIdle, ProductPhase, ProductInvariant, ProductRowsSound, SavesAgree,
         ProductRequestTyped, FunnelProductRow, MatchSound, MatchSeen
<1> QED
  BY <1>1, ProductInductive, PTL DEF ProductSpec

\* What a firm or a funnel is linked to is there.
LEMMA ProductsTyped == ProductSpec => []ProductTypeOK
<1>1. ProductInvariant => ProductTypeOK
  <2> HIDE DEF ProductRow, TenantProductRow, FunnelProductRow
  <2> QED
    BY DEF ProductInvariant, ProductRowsSound, ProductTypeOK, ProductRequestTyped
<1> QED
  BY <1>1, ProductAlways, PTL

\* Whatever is linked, unlinked, switched, edited, deleted and saved again from
\* a stale copy while a message is matched: it is left without a product only
\* when none was offered to it all along, and the one it gets was offered, on
\* and in its text at one moment, unless the firm lost it meanwhile, and is no
\* younger than what was offered all along (detect_product.go:21-45).
THEOREM MatchesAsOffered == ProductSpec => []MatchedAsOffered
<1>1. ProductInvariant => MatchedAsOffered
  BY DEF ProductInvariant, MatchSound, MatchedAsOffered
<1> QED
  BY <1>1, ProductAlways, PTL

-----------------------------------------------------------------------------
(* Documents.  A request owns the file it writes or removes, from the      *)
(* moment the row is not there to the moment it is, or the file is gone.   *)

HIDE ProductAssumption
USE LibraryAssumption

LibRecord ==
  [phase : {"none"}]
    \cup [phase : {"copy", "insert", "discard", "unlinkAll", "drop", "unlinkFile", "saveServer"},
          item : Document \cup Server]
    \cup [phase : {"associate"}, spec : Specialist, left : SUBSET (Document \cup Server)]
    \cup [phase : {"link"}, spec : Specialist, left : SUBSET (Document \cup Server), item : Document \cup Server]
Owns(q) == q.phase \in {"copy", "insert", "discard", "unlinkFile"}
LinksHold == \A l \in linked : l[2] \in document \cup server

LibraryTyped ==
  /\ document \subseteq Document /\ server \subseteq Server
  /\ libReq \in [LibraryRequest -> LibRecord]
  /\ \A r \in LibraryRequest : libReq[r].phase = "saveServer" => libReq[r].item \in Server
OwnersApart ==
  /\ \A r \in LibraryRequest : Owns(libReq[r]) => libReq[r].item \in Document \ document
  /\ \A r, o \in LibraryRequest : Owns(libReq[r]) /\ Owns(libReq[o]) /\ r # o => libReq[r].item # libReq[o].item
InsertsWhole == \A r \in LibraryRequest : libReq[r].phase = "insert" => libReq[r].item \in onDisk
LibraryInvariant == LibraryTyped /\ OwnersApart /\ InsertsWhole /\ LinksHold /\ document \subseteq onDisk

\* The fields of a request at each step of its code.
LEMMA ShapeOfRequest ==
  ASSUME NEW q \in LibRecord
  PROVE /\ q.phase \in {"none", "copy", "insert", "discard", "unlinkAll", "drop", "unlinkFile", "saveServer",
                        "associate", "link"}
        /\ q.phase \notin {"none", "associate"} => "item" \in DOMAIN q /\ q.item \in Document \cup Server
        /\ q.phase \in {"associate", "link"} => q.spec \in Specialist /\ q.left \in SUBSET (Document \cup Server)
        /\ q.phase \in {"insert", "copy", "unlinkAll", "drop"} =>
             \A phase \in {"insert", "discard", "drop", "unlinkFile"} :
               [q EXCEPT !.phase = phase] = [phase |-> phase, item |-> q.item]
        /\ q.phase = "associate" =>
             \A x : [q EXCEPT !.left = @ \ {x}] = [phase |-> "associate", spec |-> q.spec, left |-> q.left \ {x}]
BY SMTT(30) DEF LibRecord

\* What a step of one request has to show to keep the invariant.
LEMMA LibraryStep ==
  ASSUME LibraryInvariant, NEW r \in LibraryRequest, NEW q \in LibRecord, Goto(r, q),
         document' \subseteq Document, server' \subseteq Server, document' \subseteq onDisk', LinksHold',
         q.phase = "saveServer" => q.item \in Server,
         q.phase = "insert" => q.item \in onDisk',
         Owns(q) => /\ q.item \in Document \ document'
                    /\ \A o \in LibraryRequest \ {r} : Owns(libReq[o]) => libReq[o].item # q.item,
         \A o \in LibraryRequest \ {r} :
           /\ Owns(libReq[o]) => libReq[o].item \in Document \ document'
           /\ libReq[o].phase = "insert" => libReq[o].item \in onDisk'
  PROVE LibraryInvariant'
<1>1. /\ libReq' \in [LibraryRequest -> LibRecord]
      /\ libReq'[r] = q
      /\ \A o \in LibraryRequest \ {r} : libReq'[o] = libReq[o]
  <2> HIDE DEF LibRecord
  <2> QED
    BY DEF LibraryInvariant, LibraryTyped, Goto
<1>2. LibraryTyped'
  BY <1>1 DEF LibraryInvariant, LibraryTyped
<1>3. OwnersApart'
  <2>1. ASSUME NEW o \in LibraryRequest, Owns(libReq'[o])
        PROVE libReq'[o].item \in Document \ document'
    BY <1>1, <2>1 DEF Owns
  <2>2. ASSUME NEW a \in LibraryRequest, NEW b \in LibraryRequest, Owns(libReq'[a]), Owns(libReq'[b]), a # b
        PROVE libReq'[a].item # libReq'[b].item
    BY <1>1, <2>2 DEF LibraryInvariant, OwnersApart
  <2> QED
    BY <2>1, <2>2 DEF OwnersApart, Owns
<1>4. InsertsWhole'
  BY <1>1 DEF InsertsWhole
<1> QED
  BY <1>2, <1>3, <1>4 DEF LibraryInvariant

\* A step that changes no row and owns no more than before.
LEMMA LibraryWaits ==
  ASSUME LibraryInvariant, NEW r \in LibraryRequest, NEW q \in LibRecord, Keeps(r, q),
         q.phase = "saveServer" => q.item \in Server,
         q.phase # "insert",
         Owns(q) => Owns(libReq[r]) /\ q.item = libReq[r].item
  PROVE LibraryInvariant'
<1>1. /\ document' = document /\ server' = server /\ onDisk' = onDisk /\ linked' = linked
      /\ Goto(r, q)
  BY DEF Keeps, libraryRows
<1>2. LinksHold'
  BY <1>1 DEF LibraryInvariant, LinksHold
<1>3. Owns(q) => /\ q.item \in Document \ document'
                 /\ \A o \in LibraryRequest \ {r} : Owns(libReq[o]) => libReq[o].item # q.item
  BY <1>1 DEF LibraryInvariant, OwnersApart
<1>4. \A o \in LibraryRequest \ {r} :
        /\ Owns(libReq[o]) => libReq[o].item \in Document \ document'
        /\ libReq[o].phase = "insert" => libReq[o].item \in onDisk'
  BY <1>1 DEF LibraryInvariant, OwnersApart, InsertsWhole
<1> QED
  BY <1>1, <1>2, <1>3, <1>4, LibraryStep DEF LibraryInvariant, LibraryTyped

\* The steps of an upload.
LEMMA UploadKeeps ==
  ASSUME LibraryInvariant, NEW r \in LibraryRequest,
         (\E d \in Document : HandleUpload(r, d)) \/ CopyContent(r) \/ UploadDocument(r) \/ RemoveFile(r)
  PROVE LibraryInvariant'
<1> DEFINE q == libReq[r]
<1>0. q \in LibRecord /\ LibIdle \in LibRecord /\ ~Owns(LibIdle) /\ LibIdle.phase = "none"
  BY DEF LibraryInvariant, LibraryTyped, LibIdle, LibRecord, Owns
<1>1. ASSUME NEW d \in Document, HandleUpload(r, d) PROVE LibraryInvariant'
  <2> DEFINE next == [phase |-> "copy", item |-> d]
  <2>1. next \in LibRecord /\ next.phase = "copy" /\ next.item = d
    BY DEF LibRecord
  <2>2. ASSUME NEW o \in LibraryRequest, Owns(libReq[o]) PROVE libReq[o].item # d
    <3>1. libReq[o] \in LibRecord
      BY DEF LibraryInvariant, LibraryTyped
    <3>2. "item" \in DOMAIN libReq[o]
      BY <2>2, <3>1, ShapeOfRequest DEF Owns
    <3> QED
      BY <1>1, <3>2 DEF HandleUpload, Mentioned
  <2>3. LinksHold'
    BY <1>1 DEF HandleUpload, LibraryInvariant, LinksHold
  <2>4. /\ Goto(r, next) /\ d \notin document
        /\ document' = document /\ server' = server /\ onDisk' = onDisk
    BY <1>1 DEF HandleUpload
  <2> HIDE DEF next
  <2> QED
    BY <2>1, <2>2, <2>3, <2>4, LibraryStep
    DEF LibraryInvariant, LibraryTyped, OwnersApart, InsertsWhole
<1>2. CASE CopyContent(r)
  <2>0. q.phase = "copy" /\ q.item \in Document \cup Server /\ Owns(q)
    BY <1>2, <1>0, ShapeOfRequest DEF CopyContent, InPhase, Owns
  <2>1. LinksHold'
    BY <1>2 DEF CopyContent, LibraryInvariant, LinksHold
  <2>2. ASSUME NEW phase \in {"insert", "discard"}, Goto(r, [q EXCEPT !.phase = phase]),
               onDisk \subseteq onDisk', phase = "insert" => q.item \in onDisk'
        PROVE LibraryInvariant'
    <3> DEFINE next == [phase |-> phase, item |-> q.item]
    <3>0. next = [q EXCEPT !.phase = phase]
      BY <2>0, <1>0, ShapeOfRequest
    <3>1. next \in LibRecord /\ Goto(r, next)
      BY <2>0, <2>2, <3>0 DEF LibRecord
    <3>2. next.phase = phase /\ next.item = q.item
      OBVIOUS
    <3>3. \A o \in LibraryRequest \ {r} : Owns(libReq[o]) => libReq[o].item # q.item
      BY <2>0 DEF LibraryInvariant, OwnersApart
    <3>4. q.item \in Document \ document /\ document' = document /\ server' = server
      BY <2>0, <1>2 DEF LibraryInvariant, OwnersApart, CopyContent
    <3> HIDE DEF next
    <3> QED
      BY <2>1, <2>2, <3>1, <3>2, <3>3, <3>4, LibraryStep
      DEF LibraryInvariant, LibraryTyped, OwnersApart, InsertsWhole
  <2> QED
    BY <1>2, <2>2 DEF CopyContent
<1>3. CASE UploadDocument(r)
  <2>0. q.phase = "insert" /\ Owns(q) /\ q.item \in onDisk /\ q.item \in Document
    BY <1>3, <1>0 DEF UploadDocument, InPhase, Owns, LibraryInvariant, InsertsWhole, OwnersApart
  <2>1. \A o \in LibraryRequest \ {r} : Owns(libReq[o]) => libReq[o].item # q.item
    BY <2>0 DEF LibraryInvariant, OwnersApart
  <2>2. LinksHold'
    BY <1>3 DEF UploadDocument, LibraryInvariant, LinksHold
  <2> QED
    BY <1>0, <1>3, <2>0, <2>1, <2>2, LibraryStep
    DEF UploadDocument, LibraryInvariant, LibraryTyped, OwnersApart, InsertsWhole
<1>4. CASE RemoveFile(r)
  <2>0. Owns(q) /\ q.item \in Document \ document
    BY <1>4 DEF RemoveFile, Owns, LibraryInvariant, OwnersApart
  <2>1. \A o \in LibraryRequest \ {r} : Owns(libReq[o]) => libReq[o].item # q.item
    BY <2>0 DEF LibraryInvariant, OwnersApart
  <2>2. LinksHold'
    BY <1>4 DEF RemoveFile, LibraryInvariant, LinksHold
  <2>3. \A o \in LibraryRequest \ {r} : libReq[o].phase = "insert" => Owns(libReq[o])
    BY DEF Owns
  <2> QED
    BY <1>0, <1>4, <2>0, <2>1, <2>2, <2>3, LibraryStep
    DEF RemoveFile, LibraryInvariant, LibraryTyped, OwnersApart, InsertsWhole
<1> QED
  BY <1>1, <1>2, <1>3, <1>4

\* The steps of a delete.
LEMMA DeleteKeeps ==
  ASSUME LibraryInvariant, NEW r \in LibraryRequest,
         (\E x \in document \cup server : DeleteItem(r, x)) \/ DissociateAll(r) \/ DropItem(r)
  PROVE LibraryInvariant'
<1> DEFINE q == libReq[r]
<1>0. q \in LibRecord /\ LibIdle \in LibRecord /\ ~Owns(LibIdle) /\ LibIdle.phase = "none"
  BY DEF LibraryInvariant, LibraryTyped, LibIdle, LibRecord, Owns
<1>1. ASSUME NEW x \in document \cup server, DeleteItem(r, x) PROVE LibraryInvariant'
  <2> DEFINE next == [phase |-> "unlinkAll", item |-> x]
  <2>1. next \in LibRecord /\ next.phase = "unlinkAll" /\ Keeps(r, next)
    BY <1>1 DEF LibRecord, DeleteItem, LibraryInvariant, LibraryTyped
  <2> HIDE DEF next
  <2> QED
    BY <2>1, LibraryWaits DEF Owns
<1>2. CASE DissociateAll(r)
  <2> DEFINE next == [phase |-> "drop", item |-> q.item]
  <2>0. q.phase = "unlinkAll" /\ q.item \in Document \cup Server
    BY <1>2, <1>0, ShapeOfRequest DEF DissociateAll, InPhase
  <2>1. next \in LibRecord /\ next.phase = "drop" /\ next = [q EXCEPT !.phase = "drop"]
    BY <2>0, <1>0, ShapeOfRequest DEF LibRecord
  <2>2. LinksHold'
    BY <1>2 DEF DissociateAll, LibraryInvariant, LinksHold
  <2>3. Goto(r, next) /\ document' = document /\ server' = server /\ onDisk' = onDisk
    BY <1>2, <2>1 DEF DissociateAll
  <2> HIDE DEF next
  <2> QED
    BY <2>1, <2>2, <2>3, LibraryStep
    DEF LibraryInvariant, LibraryTyped, OwnersApart, InsertsWhole, Owns
<1>3. CASE DropItem(r)
  <2> DEFINE x == q.item
  <2>0. q.phase = "drop" /\ x \in Document \cup Server
    BY <1>3, <1>0, ShapeOfRequest DEF DropItem, InPhase
  <2>1. /\ document' = document \ {x} /\ server' = server \ {x} /\ onDisk' = onDisk
        /\ linked' = {l \in linked : l[2] # x}
    BY <1>3 DEF DropItem
  <2>2. LinksHold'
    BY <2>1 DEF LibraryInvariant, LinksHold
  <2>3. CASE x \in document
    <3> DEFINE next == [phase |-> "unlinkFile", item |-> x]
    <3>1. next \in LibRecord /\ next.phase = "unlinkFile" /\ next.item = x /\ next = [q EXCEPT !.phase = "unlinkFile"]
      BY <2>0, <1>0, ShapeOfRequest DEF LibRecord
    <3>2. Goto(r, next)
      BY <1>3, <2>3, <3>1 DEF DropItem
    <3>3. x \in Document \ document' /\ \A o \in LibraryRequest \ {r} : Owns(libReq[o]) => libReq[o].item # x
      BY <2>1, <2>3 DEF LibraryInvariant, LibraryTyped, OwnersApart
    <3> HIDE DEF next
    <3> QED
      BY <2>1, <2>2, <3>1, <3>2, <3>3, LibraryStep
      DEF LibraryInvariant, LibraryTyped, OwnersApart, InsertsWhole
  <2>4. CASE x \notin document
    <3>1. Goto(r, LibIdle)
      BY <1>3, <2>4 DEF DropItem
    <3> QED
      BY <1>0, <2>1, <2>2, <3>1, LibraryStep
      DEF LibraryInvariant, LibraryTyped, OwnersApart, InsertsWhole
  <2> QED
    BY <2>3, <2>4
<1> QED
  BY <1>1, <1>2, <1>3

\* The steps that link and unlink, and those of the servers.
LEMMA LinkKeeps ==
  ASSUME LibraryInvariant, NEW r \in LibraryRequest,
         \/ \E s \in Specialist, chosen \in SUBSET (Document \cup Server) : AssociateItems(r, s, chosen)
         \/ \E s \in Specialist, x \in Document \cup Server : Dissociate(s, x)
         \/ FindItem(r) \/ AssociateItem(r)
         \/ \E m \in Server : CreateMcp(m) \/ UpdateMcp(r, m)
         \/ SaveMcp(r)
  PROVE LibraryInvariant'
<1> DEFINE q == libReq[r]
<1>0. q \in LibRecord /\ LibIdle \in LibRecord /\ ~Owns(LibIdle) /\ LibIdle.phase = "none"
  BY DEF LibraryInvariant, LibraryTyped, LibIdle, LibRecord, Owns
<1>1. ASSUME NEW s \in Specialist, NEW chosen \in SUBSET (Document \cup Server), AssociateItems(r, s, chosen)
      PROVE LibraryInvariant'
  <2> DEFINE next == [phase |-> "associate", spec |-> s, left |-> chosen]
  <2>1. chosen \in SUBSET (Document \cup Server) /\ Keeps(r, next)
    BY <1>1 DEF AssociateItems
  <2>2. next \in LibRecord /\ next.phase = "associate"
    BY <2>1 DEF LibRecord
  <2> HIDE DEF next
  <2> QED
    BY <2>1, <2>2, LibraryWaits DEF Owns
<1>2. ASSUME libReq' = libReq, document' = document, onDisk' = onDisk, server \subseteq server', server' \subseteq Server,
             linked' \subseteq linked
      PROVE LibraryInvariant'
  BY <1>2 DEF LibraryInvariant, LibraryTyped, OwnersApart, InsertsWhole, LinksHold, Owns
<1>3. ASSUME NEW s \in Specialist, NEW x \in Document \cup Server, Dissociate(s, x) PROVE LibraryInvariant'
  BY <1>2, <1>3 DEF Dissociate, LibraryInvariant, LibraryTyped
<1>4. CASE FindItem(r)
  <2>0. q.phase = "associate" /\ q.spec \in Specialist /\ q.left \in SUBSET (Document \cup Server)
    BY <1>4, <1>0, ShapeOfRequest DEF FindItem, InPhase
  <2>1. CASE Keeps(r, LibIdle)
    BY <1>0, <2>1, LibraryWaits
  <2>2. ASSUME NEW x \in q.left, Keeps(r, [q EXCEPT !.left = @ \ {x}]) PROVE LibraryInvariant'
    <3> DEFINE next == [phase |-> "associate", spec |-> q.spec, left |-> q.left \ {x}]
    <3>1. next \in LibRecord /\ next.phase = "associate" /\ Keeps(r, next)
      BY <1>0, <2>0, <2>2, ShapeOfRequest, ZenonT(40) DEF LibRecord
    <3> HIDE DEF next
    <3> QED
      BY <3>1, LibraryWaits DEF Owns
  <2>3. ASSUME NEW x \in q.left,
               Keeps(r, [phase |-> "link", spec |-> q.spec, left |-> q.left \ {x}, item |-> x])
        PROVE LibraryInvariant'
    <3> DEFINE next == [phase |-> "link", spec |-> q.spec, left |-> q.left \ {x}, item |-> x]
    <3>1. next \in LibRecord /\ next.phase = "link" /\ Keeps(r, next)
      BY <2>0, <2>3 DEF LibRecord
    <3> HIDE DEF next
    <3> QED
      BY <3>1, LibraryWaits DEF Owns
  <2> QED
    BY <1>4, <2>1, <2>2, <2>3 DEF FindItem
<1>5. CASE AssociateItem(r)
  <2>0. q.phase = "link" /\ q.spec \in Specialist /\ q.left \in SUBSET (Document \cup Server)
    BY <1>5, <1>0, ShapeOfRequest DEF AssociateItem, InPhase
  <2>1. CASE Keeps(r, LibIdle)
    BY <1>0, <2>1, LibraryWaits
  <2>2. CASE ~Keeps(r, LibIdle)
    <3> DEFINE next == [phase |-> "associate", spec |-> q.spec, left |-> q.left]
    <3>1. next \in LibRecord /\ next.phase = "associate"
      BY <2>0 DEF LibRecord
    <3>2. /\ Goto(r, next) /\ document' = document /\ server' = server /\ onDisk' = onDisk
          /\ linked' = linked \cup {<<q.spec, q.item>>} /\ q.item \in document \cup server
      BY <1>5, <2>2 DEF AssociateItem
    <3>3. LinksHold'
      BY <3>2 DEF LibraryInvariant, LinksHold
    <3> HIDE DEF next
    <3> QED
      BY <3>1, <3>2, <3>3, LibraryStep
      DEF LibraryInvariant, LibraryTyped, OwnersApart, InsertsWhole, Owns
  <2> QED
    BY <2>1, <2>2
<1>6. ASSUME NEW m \in Server, CreateMcp(m) PROVE LibraryInvariant'
  BY <1>2, <1>6 DEF CreateMcp, LibraryInvariant, LibraryTyped
<1>7. ASSUME NEW m \in Server, UpdateMcp(r, m) PROVE LibraryInvariant'
  <2> DEFINE next == [phase |-> "saveServer", item |-> m]
  <2>1. next \in LibRecord /\ next.phase = "saveServer" /\ next.item \in Server /\ Keeps(r, next)
    BY <1>7 DEF LibRecord, UpdateMcp
  <2> HIDE DEF next
  <2> QED
    BY <2>1, LibraryWaits DEF Owns
<1>8. CASE SaveMcp(r)
  <2>1. /\ q.phase = "saveServer" /\ q.item \in Server /\ server' = server \cup {q.item}
        /\ Goto(r, LibIdle) /\ document' = document /\ onDisk' = onDisk /\ linked' = linked
    BY <1>8 DEF SaveMcp, InPhase, LibraryInvariant, LibraryTyped
  <2>2. LinksHold'
    BY <2>1 DEF LibraryInvariant, LinksHold
  <2> QED
    BY <1>0, <2>1, <2>2, LibraryStep DEF LibraryInvariant, LibraryTyped, OwnersApart, InsertsWhole
<1> QED
  BY <1>1, <1>3, <1>4, <1>5, <1>6, <1>7, <1>8

\* Every step of the library keeps the invariant.
LEMMA LibraryInductive == LibraryInvariant /\ [LibraryNext]_libraryVars => LibraryInvariant'
<1> SUFFICES ASSUME LibraryInvariant, [LibraryNext]_libraryVars PROVE LibraryInvariant'
  OBVIOUS
<1>1. ASSUME NEW r \in LibraryRequest, DocumentForms(r) \/ DocumentLinks(r) \/ McpForms(r) \/ McpLinks(r)
      PROVE LibraryInvariant'
  <2>1. CASE DocumentForms(r)
    <3>1. ASSUME NEW d \in Document, HandleDeleteDocument(r, d) PROVE LibraryInvariant'
      BY <3>1, DeleteKeeps DEF HandleDeleteDocument
    <3> QED
      BY <2>1, <3>1, UploadKeeps, DeleteKeeps DEF DocumentForms
  <2>2. CASE DocumentLinks(r)
    BY <2>2, LinkKeeps DEF DocumentLinks, AssociateDocuments, DissociateDocument
  <2>3. CASE McpForms(r)
    BY <2>3, LinkKeeps, DeleteKeeps DEF McpForms, HandleDeleteServer
  <2>4. CASE McpLinks(r)
    BY <2>4, LinkKeeps DEF McpLinks, AssociateMcps, DissociateMcp
  <2> QED
    BY <1>1, <2>1, <2>2, <2>3, <2>4
<1>2. ASSUME NEW r \in LibraryRequest, StatementFails(r) PROVE LibraryInvariant'
  <2> DEFINE q == libReq[r]
  <2>0. q \in LibRecord /\ LibIdle \in LibRecord /\ ~Owns(LibIdle) /\ LibIdle.phase = "none"
    BY DEF LibraryInvariant, LibraryTyped, LibIdle, LibRecord, Owns
  <2>1. CASE q.phase = "insert"
    <3> DEFINE next == [phase |-> "discard", item |-> q.item]
    <3>1. next \in LibRecord /\ next.phase = "discard" /\ next.item = q.item /\ next = [q EXCEPT !.phase = "discard"]
      BY <2>0, <2>1, ShapeOfRequest DEF LibRecord
    <3>2. Keeps(r, next) /\ Owns(q)
      BY <1>2, <2>1, <3>1 DEF StatementFails, InPhase, Owns
    <3> HIDE DEF next
    <3> QED
      BY <3>1, <3>2, LibraryWaits
  <2>2. CASE q.phase # "insert"
    BY <1>2, <2>0, <2>2, LibraryWaits DEF StatementFails, InPhase
  <2> QED
    BY <2>1, <2>2
<1>3. CASE LibraryCrash
  BY <1>3 DEF LibraryCrash, libraryRows, LibraryInvariant, LibraryTyped, OwnersApart, InsertsWhole, LinksHold, Owns,
              LibIdle, LibRecord
<1>4. CASE UNCHANGED libraryVars
  BY <1>4 DEF libraryVars, libraryRows, LibraryInvariant, LibraryTyped, OwnersApart, InsertsWhole, LinksHold, Owns
<1> QED
  BY <1>1, <1>2, <1>3, <1>4 DEF LibraryNext

\* A document that is listed can be read, whatever crashes or fails between the
\* file and the row (document handler.go:149-177, 216-232).
THEOREM DocumentsHold == LibrarySpec => []DocumentsAreWhole
<1>1. LibraryInit => LibraryInvariant
  BY DEF LibraryInit, LibIdle, LibRecord, LibraryInvariant, LibraryTyped, OwnersApart, InsertsWhole, LinksHold, Owns
<1>2. LibraryInvariant => DocumentsAreWhole
  BY DEF LibraryInvariant, DocumentsAreWhole
<1> QED
  BY <1>1, <1>2, LibraryInductive, PTL DEF LibrarySpec

\* Only documents have files, and only documents and servers are linked.
LibraryKinds ==
  /\ onDisk \subseteq Document /\ partial \subseteq Document
  /\ linked \subseteq SpecialistDocumentRow \cup SpecialistMcpRow
LEMMA LibraryKindsKept == LibraryInvariant /\ LibraryKinds /\ [LibraryNext]_libraryVars => LibraryKinds'
<1> SUFFICES ASSUME LibraryInvariant, LibraryKinds, [LibraryNext]_libraryVars PROVE LibraryKinds'
  OBVIOUS
<1>1. ASSUME onDisk' \subseteq onDisk, partial' \subseteq partial, linked' \subseteq linked PROVE LibraryKinds'
  BY <1>1 DEF LibraryKinds
<1>2. ASSUME NEW r \in LibraryRequest, NEW q, Keeps(r, q) PROVE LibraryKinds'
  BY <1>1, <1>2 DEF Keeps, libraryRows
<1>3. ASSUME NEW r \in LibraryRequest, DocumentForms(r) PROVE LibraryKinds'
  <2>1. ASSUME NEW d \in Document, HandleUpload(r, d) PROVE LibraryKinds'
    BY <2>1 DEF HandleUpload, LibraryKinds
  <2>2. ASSUME NEW d \in Document, HandleDeleteDocument(r, d) PROVE LibraryKinds'
    BY <1>2, <2>2 DEF HandleDeleteDocument, DeleteItem
  <2>3. CASE CopyContent(r)
    <3>1. libReq[r].item \in Document
      BY <2>3 DEF CopyContent, InPhase, Owns, LibraryInvariant, OwnersApart
    <3> QED
      BY <2>3, <3>1 DEF CopyContent, LibraryKinds
  <2>4. CASE UploadDocument(r)
    BY <1>1, <2>4 DEF UploadDocument
  <2>5. CASE RemoveFile(r)
    BY <1>1, <2>5 DEF RemoveFile
  <2>6. CASE DissociateAll(r)
    BY <1>1, <2>6 DEF DissociateAll
  <2>7. CASE DropItem(r)
    BY <1>1, <2>7 DEF DropItem
  <2> QED
    BY <1>3, <2>1, <2>2, <2>3, <2>4, <2>5, <2>6, <2>7 DEF DocumentForms
<1>4. ASSUME NEW r \in LibraryRequest, FindItem(r) PROVE LibraryKinds'
  BY <1>2, <1>4, Zenon DEF FindItem
<1>5. ASSUME NEW r \in LibraryRequest, AssociateItem(r) PROVE LibraryKinds'
  <2>1. CASE Keeps(r, LibIdle)
    BY <1>2, <2>1
  <2>2. CASE ~Keeps(r, LibIdle)
    <3>1. /\ linked' = linked \cup {<<libReq[r].spec, libReq[r].item>>}
          /\ onDisk' = onDisk /\ partial' = partial /\ libReq[r].phase = "link"
      BY <1>5, <2>2 DEF AssociateItem, InPhase
    <3>2. libReq[r].spec \in Specialist /\ libReq[r].item \in Document \cup Server
      BY <3>1, ShapeOfRequest DEF LibraryInvariant, LibraryTyped
    <3> QED
      BY <3>1, <3>2 DEF LibraryKinds, SpecialistDocumentRow, SpecialistMcpRow
  <2> QED
    BY <2>1, <2>2
<1>6. ASSUME NEW s, NEW x, Dissociate(s, x) PROVE LibraryKinds'
  BY <1>1, <1>6 DEF Dissociate
<1>7. ASSUME NEW r \in LibraryRequest, NEW s, NEW chosen, AssociateItems(r, s, chosen) PROVE LibraryKinds'
  BY <1>2, <1>7 DEF AssociateItems
<1>8. ASSUME NEW r \in LibraryRequest, McpForms(r) PROVE LibraryKinds'
  BY <1>1, <1>2, <1>8, Zenon DEF McpForms, CreateMcp, UpdateMcp, HandleDeleteServer, DeleteItem, SaveMcp, LibraryKinds
<1>9. ASSUME NEW r \in LibraryRequest, StatementFails(r) PROVE LibraryKinds'
  BY <1>2, <1>9 DEF StatementFails
<1>10. CASE LibraryCrash \/ UNCHANGED libraryVars
  BY <1>1, <1>10 DEF LibraryCrash, libraryVars, libraryRows
<1> QED
  BY <1>3, <1>4, <1>5, <1>6, <1>7, <1>8, <1>9, <1>10
  DEF LibraryNext, DocumentLinks, McpLinks, AssociateDocuments, DissociateDocument, AssociateMcps, DissociateMcp

LEMMA LibraryStaysTyped == LibrarySpec => []LibraryTypeOK
<1>1. LibraryInit => LibraryInvariant /\ LibraryKinds
  BY DEF LibraryInit, LibIdle, LibRecord, LibraryInvariant, LibraryTyped, OwnersApart, InsertsWhole, LinksHold, Owns,
         LibraryKinds
<1>2. LibraryInvariant /\ LibraryKinds => LibraryTypeOK
  <2> SUFFICES ASSUME LibraryInvariant, LibraryKinds PROVE LibraryTypeOK
    OBVIOUS
  <2>1. \A r \in LibraryRequest : libReq[r].phase \in LibPhase
    BY ShapeOfRequest DEF LibraryInvariant, LibraryTyped, LibPhase
  <2> QED
    BY <2>1 DEF LibraryInvariant, LibraryTyped, LibraryKinds, LibraryTypeOK, LinksHold, DocumentRow, McpServerRow
<1> QED
  BY <1>1, <1>2, LibraryInductive, LibraryKindsKept, PTL DEF LibrarySpec

-----------------------------------------------------------------------------
(* Files.                                                                  *)

HIDE LibraryAssumption
USE FileAssumption

FileRecord ==
  [phase : {"none"}]
    \cup [phase : {"temp", "rename", "row"}, file : File, chat : Chat, lead : ChatLead \cup {NoLead}]
UnderWay(r) == fileReq[r].phase # "none"

FileTyped ==
  /\ \A f \in DOMAIN file : file[f] \in FileRow
  /\ chatLead \in [Chat -> ChatLead \cup {NoLead}] /\ gone \subseteq ChatLead
  /\ fileReq \in [FileRequest -> FileRecord]
FlightsApart ==
  /\ \A r, o \in FileRequest : UnderWay(r) /\ UnderWay(o) /\ r # o => fileReq[r].file # fileReq[o].file
  /\ \A r \in FileRequest : UnderWay(r) => fileReq[r].file \notin DOMAIN file
\* The content is there from the rename on, and not before.
ContentKnown ==
  /\ \A r \in FileRequest : UnderWay(r) => (fileReq[r].phase = "row" <=> fileReq[r].file \in content)
  /\ DOMAIN file \subseteq content
  /\ \A f \in content : \/ f \in DOMAIN file \cup leftOver
                        \/ \E r \in FileRequest : UnderWay(r) /\ fileReq[r].file = f
\* A lead is of one conversation and never comes back.
LeadsApart ==
  /\ \A c, d \in Chat : c # d /\ chatLead[c] # NoLead => chatLead[c] # chatLead[d]
  /\ \A c \in Chat : chatLead[c] \notin gone
UnderOwnLead ==
  /\ \A f \in DOMAIN file : file[f].lead \in {NoLead, chatLead[file[f].chat]}
  /\ \A r \in FileRequest : UnderWay(r) => fileReq[r].lead \in {NoLead, chatLead[fileReq[r].chat]} \cup gone
FileInvariant == FileTyped /\ FlightsApart /\ ContentKnown /\ LeadsApart /\ UnderOwnLead

\* The fields of a message's file at each step of its code.
LEMMA ShapeOfFileRequest ==
  ASSUME NEW q \in FileRecord, q.phase # "none"
  PROVE /\ q.phase \in {"temp", "rename", "row"} /\ q.file \in File /\ q.chat \in Chat /\ q.lead \in ChatLead \cup {NoLead}
BY DEF FileRecord

\* A message's file at its next step.
LEMMA NextFileRequest ==
  ASSUME NEW q \in FileRecord, q.phase # "none", NEW phase \in {"rename", "row"},
         NEW next, next = [q EXCEPT !.phase = phase]
  PROVE /\ next \in FileRecord /\ next.phase = phase /\ next.file = q.file
        /\ next.chat = q.chat /\ next.lead = q.lead
BY DEF FileRecord

\* One request moves and the others stay.
LEMMA OneMoves ==
  ASSUME FileInvariant, NEW r \in FileRequest, NEW q \in FileRecord, StepTo(r, q)
  PROVE /\ fileReq' \in [FileRequest -> FileRecord] /\ fileReq'[r] = q
        /\ \A o \in FileRequest \ {r} : fileReq'[o] = fileReq[o]
<1> HIDE DEF FileRecord
<1> QED
  BY DEF FileInvariant, FileTyped, StepTo

\* The steps of a message that leave the rows and the leads alone.
LEMMA ContentStepKeeps ==
  ASSUME FileInvariant, NEW r \in FileRequest, NEW q \in FileRecord, StepTo(r, q), UnderWay(r),
         UNCHANGED <<file, chatLead, gone>>,
         content \subseteq content', leftOver \subseteq leftOver', content' \subseteq content \cup {fileReq[r].file},
         q.phase # "none" => /\ q.file = fileReq[r].file /\ q.chat = fileReq[r].chat /\ q.lead = fileReq[r].lead
                             /\ q.phase = "row" <=> q.file \in content',
         q.phase = "none" /\ fileReq[r].file \in content' => fileReq[r].file \in leftOver'
  PROVE FileInvariant'
<1>0. /\ fileReq' \in [FileRequest -> FileRecord] /\ fileReq'[r] = q
      /\ \A o \in FileRequest \ {r} : fileReq'[o] = fileReq[o]
  BY OneMoves
<1>1. FileTyped'
  BY <1>0 DEF FileInvariant, FileTyped
<1>2. FlightsApart'
  BY <1>0 DEF FileInvariant, FlightsApart, UnderWay
<1>3. ContentKnown'
  <2>1. ASSUME NEW o \in FileRequest, UnderWay(o)' PROVE (fileReq'[o].phase = "row" <=> fileReq'[o].file \in content')
    <3>1. CASE o = r
      BY <1>0, <2>1, <3>1 DEF UnderWay
    <3>2. CASE o # r
      <4>1. UnderWay(o) /\ fileReq[o].file # fileReq[r].file /\ fileReq'[o] = fileReq[o]
        BY <1>0, <2>1, <3>2 DEF UnderWay, FileInvariant, FlightsApart
      <4> QED
        BY <4>1 DEF FileInvariant, ContentKnown
    <3> QED
      BY <3>1, <3>2
  <2>2. ASSUME NEW f \in content'
        PROVE f \in DOMAIN file \cup leftOver' \/ \E o \in FileRequest : UnderWay(o)' /\ fileReq'[o].file = f
    <3>1. CASE f = fileReq[r].file
      BY <1>0, <2>2, <3>1 DEF UnderWay
    <3>2. CASE f # fileReq[r].file
      BY <1>0, <2>2, <3>2 DEF FileInvariant, ContentKnown, UnderWay
    <3> QED
      BY <3>1, <3>2
  <2> QED
    BY <2>1, <2>2 DEF ContentKnown, FileInvariant, UnderWay
<1>4. LeadsApart'
  BY DEF FileInvariant, LeadsApart
<1>5. UnderOwnLead'
  BY <1>0 DEF FileInvariant, UnderOwnLead, UnderWay
<1> QED
  BY <1>1, <1>2, <1>3, <1>4, <1>5 DEF FileInvariant

\* The steps of a message that store its file.
LEMMA StoreKeeps ==
  ASSUME FileInvariant, NEW r \in FileRequest,
         (\E f \in File, c \in Chat : StoreFile(r, f, c)) \/ WriteTemp(r) \/ RenameTemp(r) \/ CreateFile(r)
  PROVE FileInvariant'
<1> DEFINE q == fileReq[r]
<1>0. q \in FileRecord /\ FileIdle \in FileRecord /\ FileIdle.phase = "none"
  BY DEF FileInvariant, FileTyped, FileIdle, FileRecord
<1>1. ASSUME NEW f \in File, NEW c \in Chat, StoreFile(r, f, c) PROVE FileInvariant'
  <2> DEFINE next == [phase |-> "temp", file |-> f, chat |-> c, lead |-> chatLead[c]]
  <2>1. /\ next \in FileRecord /\ next.phase = "temp" /\ next.file = f
        /\ next.chat = c /\ next.lead = chatLead[c]
    BY DEF FileInvariant, FileTyped, FileRecord
  <2>2. /\ StepTo(r, next) /\ f \notin DOMAIN file \cup content \cup InFlight /\ q.phase = "none"
        /\ UNCHANGED <<file, content, chatLead, gone, leftOver>>
    BY <1>1 DEF StoreFile, LeadLookup
  <2> HIDE DEF next
  <2>3. /\ fileReq' \in [FileRequest -> FileRecord] /\ fileReq'[r] = next
        /\ \A o \in FileRequest \ {r} : fileReq'[o] = fileReq[o]
    BY <2>1, <2>2, OneMoves
  <2>4. \A o \in FileRequest : UnderWay(o) => fileReq[o].file # f
    BY <2>2 DEF InFlight, UnderWay
  <2>5. FileTyped'
    BY <2>2, <2>3 DEF FileInvariant, FileTyped
  <2>6. FlightsApart'
    BY <2>1, <2>2, <2>3, <2>4 DEF FileInvariant, FlightsApart, UnderWay
  <2>7. ContentKnown'
    BY <2>1, <2>2, <2>3 DEF FileInvariant, ContentKnown, UnderWay
  <2>8. LeadsApart' /\ UnderOwnLead'
    BY <2>1, <2>2, <2>3 DEF FileInvariant, LeadsApart, UnderOwnLead, UnderWay
  <2> QED
    BY <2>5, <2>6, <2>7, <2>8 DEF FileInvariant
<1>2. ASSUME q.phase # "none", NEW phase \in {"rename", "row"}, StepTo(r, [q EXCEPT !.phase = phase]),
             UNCHANGED <<file, chatLead, gone, leftOver>>,
             content \subseteq content', content' \subseteq content \cup {q.file},
             phase = "row" <=> q.file \in content'
      PROVE FileInvariant'
  <2> DEFINE next == [q EXCEPT !.phase = phase]
  <2>1. /\ next \in FileRecord /\ next.phase = phase /\ next.file = q.file
        /\ next.chat = q.chat /\ next.lead = q.lead
    BY <1>0, <1>2, NextFileRequest
  <2>2. StepTo(r, next)
    BY <1>2
  <2> HIDE DEF next
  <2> QED
    BY <1>2, <2>1, <2>2, ContentStepKeeps DEF UnderWay
<1>3. ASSUME q.phase # "none", StepTo(r, FileIdle),
             UNCHANGED <<file, chatLead, gone, content>>, leftOver \subseteq leftOver', q.file \in content => q.file \in leftOver'
      PROVE FileInvariant'
  <2> HIDE DEF FileRecord
  <2> QED
    BY <1>0, <1>3, ContentStepKeeps DEF UnderWay
<1>4. q.phase # "none" => (q.phase = "row" <=> q.file \in content)
  BY DEF FileInvariant, ContentKnown, UnderWay
<1>5. CASE WriteTemp(r)
  <2>1. CASE StepTo(r, FileIdle)
    BY <1>3, <1>4, <1>5, <2>1 DEF WriteTemp
  <2>2. CASE StepTo(r, [q EXCEPT !.phase = "rename"])
    BY <1>2, <1>4, <1>5, <2>2 DEF WriteTemp
  <2> QED
    BY <1>5, <2>1, <2>2 DEF WriteTemp
<1>6. CASE RenameTemp(r)
  <2>1. CASE StepTo(r, FileIdle) /\ UNCHANGED content
    BY <1>3, <1>4, <1>6, <2>1 DEF RenameTemp
  <2>2. CASE StepTo(r, [q EXCEPT !.phase = "row"]) /\ content' = content \cup {q.file}
    BY <1>2, <1>4, <1>6, <2>2 DEF RenameTemp
  <2> QED
    BY <1>6, <2>1, <2>2 DEF RenameTemp
<1>7. CASE CreateFile(r)
  <2>0. q.phase = "row" /\ q.file \in content /\ StepTo(r, FileIdle) /\ UNCHANGED <<content, temp, chatLead, gone>>
    BY <1>4, <1>7 DEF CreateFile
  <2>1. CASE LeavesContent({r}) /\ UNCHANGED file
    <3>1. leftOver \subseteq leftOver' /\ q.file \in leftOver'
      BY <2>0, <2>1 DEF LeavesContent
    <3> QED
      BY <1>3, <2>0, <2>1, <3>1
  <2>2. CASE /\ q.lead \notin gone
             /\ file' = [f \in DOMAIN file \cup {q.file} |->
                  IF f = q.file THEN [chat |-> q.chat, lead |-> q.lead] ELSE file[f]]
             /\ UNCHANGED leftOver
    <3>1. q.file \in File /\ q.chat \in Chat /\ q.lead \in ChatLead \cup {NoLead}
      BY <1>0, <2>0, ShapeOfFileRequest
    <3>2. /\ fileReq' \in [FileRequest -> FileRecord] /\ fileReq'[r] = FileIdle
          /\ \A o \in FileRequest \ {r} : fileReq'[o] = fileReq[o]
      BY <1>0, <2>0, OneMoves
    <3>3. /\ DOMAIN file' = DOMAIN file \cup {q.file} /\ file'[q.file] = [chat |-> q.chat, lead |-> q.lead]
          /\ \A f \in DOMAIN file : f # q.file => file'[f] = file[f]
      BY <2>2
    <3>4. q.lead \in {NoLead, chatLead[q.chat]}
      BY <2>0, <2>2 DEF FileInvariant, UnderOwnLead, UnderWay
    <3>5. q.file \notin DOMAIN file /\ \A o \in FileRequest \ {r} : UnderWay(o) => fileReq[o].file # q.file
      BY <2>0 DEF FileInvariant, FlightsApart, UnderWay
    <3>6. FileTyped'
      BY <2>0, <3>1, <3>2, <3>3 DEF FileInvariant, FileTyped, FileRow
    <3>7. FlightsApart'
      BY <1>0, <3>2, <3>3, <3>5 DEF FileInvariant, FlightsApart, UnderWay
    <3>8. ContentKnown'
      BY <1>0, <2>0, <2>2, <3>2, <3>3 DEF FileInvariant, ContentKnown, UnderWay
    <3>9. LeadsApart' /\ UnderOwnLead'
      BY <1>0, <2>0, <3>2, <3>3, <3>4, <3>5 DEF FileInvariant, LeadsApart, UnderOwnLead, UnderWay
    <3> QED
      BY <3>6, <3>7, <3>8, <3>9 DEF FileInvariant
  <2> QED
    BY <1>7, <2>1, <2>2 DEF CreateFile
<1> QED
  BY <1>1, <1>5, <1>6, <1>7

\* A lead is made or deleted while messages are in flight.
LEMMA LeadStepsKeep ==
  ASSUME FileInvariant, NEW c \in Chat, LeadDeleted(c) \/ \E l \in ChatLead : LeadCreated(c, l)
  PROVE FileInvariant'
<1>1. ASSUME NEW l \in ChatLead, LeadCreated(c, l) PROVE FileInvariant'
  <2>1. /\ chatLead[c] = NoLead /\ chatLead' = [chatLead EXCEPT ![c] = l]
        /\ \A d \in Chat : chatLead[d] # l
        /\ l \notin gone /\ UNCHANGED <<file, content, gone, fileReq, leftOver>>
    BY <1>1 DEF LeadCreated, LiveLeads
  <2>2. chatLead'[c] = l /\ \A d \in Chat \ {c} : chatLead'[d] = chatLead[d]
    BY <2>1 DEF FileInvariant, FileTyped
  <2>3. FileTyped' /\ FlightsApart' /\ ContentKnown'
    BY <2>1 DEF FileInvariant, FileTyped, FlightsApart, ContentKnown, UnderWay
  <2>4. LeadsApart'
    BY <2>1, <2>2 DEF FileInvariant, LeadsApart
  <2>5. UnderOwnLead'
    <3> HIDE DEF FileRecord
    <3>1. \A f \in DOMAIN file : file[f].chat \in Chat
      BY DEF FileInvariant, FileTyped, FileRow
    <3>2. \A r \in FileRequest : UnderWay(r) => fileReq[r].chat \in Chat
      BY ShapeOfFileRequest DEF FileInvariant, FileTyped, UnderWay
    <3> QED
      BY <2>1, <2>2, <3>1, <3>2 DEF FileInvariant, UnderOwnLead, UnderWay
  <2> QED
    BY <2>3, <2>4, <2>5 DEF FileInvariant
<1>2. CASE LeadDeleted(c)
  <2>1. /\ chatLead[c] # NoLead /\ chatLead' = [chatLead EXCEPT ![c] = NoLead]
        /\ gone' = gone \cup {chatLead[c]} /\ UNCHANGED <<content, fileReq, leftOver>>
        /\ file' = [f \in DOMAIN file |->
             IF file[f].lead = chatLead[c] THEN [file[f] EXCEPT !.lead = NoLead] ELSE file[f]]
    BY <1>2 DEF LeadDeleted
  <2>2. chatLead'[c] = NoLead /\ \A d \in Chat \ {c} : chatLead'[d] = chatLead[d]
    BY <2>1 DEF FileInvariant, FileTyped
  <2>3. /\ DOMAIN file' = DOMAIN file
        /\ \A f \in DOMAIN file : /\ file'[f] \in FileRow /\ file'[f].chat = file[f].chat
                                  /\ \/ file[f].lead = chatLead[c] /\ file'[f].lead = NoLead
                                     \/ file[f].lead # chatLead[c] /\ file'[f].lead = file[f].lead
    BY <2>1 DEF FileInvariant, FileTyped, FileRow
  <2>4. FileTyped'
    BY <2>1, <2>3 DEF FileInvariant, FileTyped
  <2>5. FlightsApart' /\ ContentKnown'
    BY <2>1, <2>3 DEF FileInvariant, FlightsApart, ContentKnown, UnderWay
  <2>6. LeadsApart'
    BY <2>1, <2>2 DEF FileInvariant, LeadsApart, FileTyped
  <2>7. UnderOwnLead'
    <3> HIDE DEF FileRecord
    <3>1. \A f \in DOMAIN file : file[f].chat \in Chat
      BY DEF FileInvariant, FileTyped, FileRow
    <3>2. \A r \in FileRequest : UnderWay(r) => fileReq[r].chat \in Chat
      BY ShapeOfFileRequest DEF FileInvariant, FileTyped, UnderWay
    <3>3. \A f \in DOMAIN file : file'[f].lead \in {NoLead, chatLead'[file'[f].chat]}
      BY <2>2, <2>3, <3>1 DEF FileInvariant, UnderOwnLead
    <3>4. \A r \in FileRequest : UnderWay(r) => fileReq[r].lead \in {NoLead, chatLead'[fileReq[r].chat]} \cup gone'
      BY <2>1, <2>2, <3>2 DEF FileInvariant, UnderOwnLead
    <3> QED
      BY <2>1, <2>3, <3>3, <3>4 DEF UnderOwnLead, UnderWay
  <2> QED
    BY <2>4, <2>5, <2>6, <2>7 DEF FileInvariant
<1> QED
  BY <1>1, <1>2

\* Every step of the file store keeps the invariant.
LEMMA FileInductive == FileInvariant /\ [FileNext]_fileVars => FileInvariant'
<1> SUFFICES ASSUME FileInvariant, [FileNext]_fileVars PROVE FileInvariant'
  OBVIOUS
<1>1. CASE FileCrash
  <2>1. /\ fileReq' = [r \in FileRequest |-> FileIdle] /\ UNCHANGED <<file, content, temp, chatLead, gone>>
        /\ leftOver' = leftOver
             \cup ({fileReq[r].file : r \in {x \in FileRequest : fileReq[x].phase = "row"}} \cap content)
    BY <1>1 DEF FileCrash, LeavesContent
  <2>2. \A r \in FileRequest : ~UnderWay(r)'
    BY <2>1 DEF UnderWay, FileIdle
  <2>3. FileTyped'
    BY <2>1 DEF FileInvariant, FileTyped, FileIdle, FileRecord
  <2>4. ContentKnown'
    <3>1. ASSUME NEW f \in content, f \notin DOMAIN file \cup leftOver PROVE f \in leftOver'
      <4>1. PICK r \in FileRequest : UnderWay(r) /\ fileReq[r].file = f
        BY <3>1 DEF FileInvariant, ContentKnown
      <4>2. fileReq[r].phase = "row"
        BY <4>1 DEF FileInvariant, ContentKnown
      <4> QED
        BY <2>1, <4>1, <4>2
    <3> QED
      BY <2>1, <2>2, <3>1 DEF FileInvariant, ContentKnown
  <2>5. FlightsApart' /\ LeadsApart' /\ UnderOwnLead'
    BY <2>1, <2>2 DEF FileInvariant, FlightsApart, LeadsApart, UnderOwnLead
  <2> QED
    BY <2>3, <2>4, <2>5 DEF FileInvariant
<1>2. CASE UNCHANGED fileVars
  BY <1>2 DEF fileVars, FileInvariant, FileTyped, FlightsApart, ContentKnown, LeadsApart, UnderOwnLead, UnderWay
<1> QED
  BY <1>1, <1>2, StoreKeeps, LeadStepsKeep DEF FileNext

\* A file that is listed can be downloaded and is under a lead of its own
\* conversation that there still is, and content without a row is only what a
\* failed insert or a crash left (store_file.go:57-91).
THEOREM FilesHold == FileSpec => []FilesAreWhole
<1>1. FileInit => FileInvariant
  BY DEF FileInit, FileIdle, FileRecord, FileInvariant, FileTyped, FlightsApart, ContentKnown, LeadsApart, UnderOwnLead,
         UnderWay
<1>2. FileInvariant => FilesAreWhole
  <2> SUFFICES ASSUME FileInvariant PROVE FilesAreWhole
    OBVIOUS
  <2>1. \A f \in DOMAIN file : file[f].chat \in Chat
    BY DEF FileInvariant, FileTyped, FileRow
  <2>2. \A f \in DOMAIN file : DownloadFile(f)
    BY DEF FileInvariant, ContentKnown, DownloadFile, OpenContent
  <2>3. \A c \in Chat : \A f \in ListRecentByLead(chatLead[c]) : chatLead[c] # NoLead => file[f].chat = c
    BY <2>1 DEF FileInvariant, LeadsApart, UnderOwnLead, ListRecentByLead
  <2>4. \A f \in DOMAIN file : file[f].lead \in LiveLeads \cup {NoLead}
    BY <2>1 DEF FileInvariant, UnderOwnLead, LiveLeads
  <2>5. content \subseteq DOMAIN file \cup InFlight \cup leftOver
    BY DEF FileInvariant, ContentKnown, InFlight, UnderWay
  <2> QED
    BY <2>2, <2>3, <2>4, <2>5 DEF FilesAreWhole
<1> QED
  BY <1>1, <1>2, FileInductive, PTL DEF FileSpec

\* Rows, content and temporary files are of files.
FileKinds == DOMAIN file \subseteq File /\ content \subseteq File /\ temp \subseteq File
LEMMA FileKindsKept == FileInvariant /\ FileKinds /\ [FileNext]_fileVars => FileKinds'
<1> SUFFICES ASSUME FileInvariant, FileKinds, [FileNext]_fileVars PROVE FileKinds'
  OBVIOUS
<1>1. ASSUME DOMAIN file' = DOMAIN file, content' = content, temp' = temp PROVE FileKinds'
  BY <1>1 DEF FileKinds
<1>2. ASSUME NEW r \in FileRequest, fileReq[r].phase # "none" PROVE fileReq[r].file \in File
  BY <1>2, ShapeOfFileRequest DEF FileInvariant, FileTyped
<1>3. ASSUME NEW r \in FileRequest, WriteTemp(r) PROVE FileKinds'
  BY <1>2, <1>3 DEF WriteTemp, FileKinds
<1>4. ASSUME NEW r \in FileRequest, RenameTemp(r) PROVE FileKinds'
  BY <1>2, <1>4 DEF RenameTemp, FileKinds
<1>5. ASSUME NEW r \in FileRequest, CreateFile(r) PROVE FileKinds'
  BY <1>2, <1>5 DEF CreateFile, FileKinds
<1>6. ASSUME NEW r \in FileRequest, NEW f \in File, NEW c \in Chat, StoreFile(r, f, c) PROVE FileKinds'
  BY <1>1, <1>6 DEF StoreFile
<1>7. ASSUME NEW c \in Chat, LeadDeleted(c) \/ \E l \in ChatLead : LeadCreated(c, l) PROVE FileKinds'
  BY <1>1, <1>7 DEF LeadDeleted, LeadCreated
<1>8. CASE FileCrash \/ UNCHANGED fileVars
  BY <1>1, <1>8 DEF FileCrash, fileVars
<1> QED
  BY <1>3, <1>4, <1>5, <1>6, <1>7, <1>8 DEF FileNext

LEMMA FilesStayTyped == FileSpec => []FileTypeOK
<1>1. FileInit => FileInvariant /\ FileKinds
  BY DEF FileInit, FileIdle, FileRecord, FileInvariant, FileTyped, FlightsApart, ContentKnown, LeadsApart, UnderOwnLead,
         UnderWay, FileKinds
<1>2. FileInvariant /\ FileKinds => FileTypeOK
  <2> SUFFICES ASSUME FileInvariant, FileKinds PROVE FileTypeOK
    OBVIOUS
  <2>1. \A r \in FileRequest : fileReq[r].phase \in FilePhase
    BY ShapeOfFileRequest DEF FileInvariant, FileTyped, FilePhase
  <2> HIDE DEF FileRow, FilePhase
  <2> QED
    BY <2>1 DEF FileInvariant, FileTyped, FileKinds, FileTypeOK
<1> QED
  BY <1>1, <1>2, FileInductive, FileKindsKept, PTL DEF FileSpec

-----------------------------------------------------------------------------
(* Specialists.  A firm whose rows a request changed is the request's own  *)
(* until the request has settled its default.                              *)

HIDE FileAssumption
USE SpecialistAssumption

TenantPage == [phase : {"page"}, view : {"tenants", "available", "manage"}, spec : Specialist, shown : SUBSET Tenant]
GuardrailPage == [phase : {"page"}, view : {"guardrails", "attach"}, spec : Specialist, shown : SUBSET Guardrail]
LibraryPage == [phase : {"page"}, view : {"library"}, spec : {None}, shown : SUBSET Guardrail]
WorkPhase == {"associate", "insert", "sync", "settle", "ids", "setDefault"}
WorkRecord ==
  [phase : WorkPhase, spec : Specialist, left : SUBSET Tenant, adds : SUBSET Tenant, removes : SUBSET Tenant,
   changed : SUBSET Tenant, tenant : Tenant \cup {None}, sole : Specialist \cup {None}]
SaveRecord == [phase : {"save"}, spec : Specialist, row : SpecialistRow]
GuardrailRecord ==
  [phase : {"attach"}, spec : Specialist, guardrail : Guardrail]
    \cup [phase : {"saveGuardrail"}, guardrail : Guardrail, row : GuardrailRow]
    \cup [phase : {"count"}, guardrail : Guardrail]
    \cup [phase : {"drop"}, guardrail : Guardrail]
SpecRecord ==
  [phase : {"none"}] \cup TenantPage \cup GuardrailPage \cup LibraryPage
    \cup WorkRecord \cup SaveRecord \cup GuardrailRecord

\* The firms a request answers for.
Changed(q) == IF "changed" \in DOMAIN q THEN q.changed ELSE {}
Stage(q) ==
  /\ q.phase \in {"associate", "insert"} => q.changed = {}
  /\ q.phase \in {"ids", "setDefault"} => q.tenant \in Tenant
  /\ q.phase = "setDefault" => q.sole \in Specialist

SpecialistRowsTyped ==
  /\ specialist \in [Specialist -> SpecialistRow \cup {NoRow}]
  /\ assigned \subseteq SpecialistTenantRow
  /\ preferred \in [Tenant -> Specialist \cup {None}]
  /\ guardrail \in [Guardrail -> GuardrailRow \cup {NoRow}]
  /\ attached \subseteq SpecialistGuardrailRow
  /\ tools \subseteq SpecialistToolRow
PreferredAssigned == \A t \in Tenant : preferred[t] # None => <<preferred[t], t>> \in assigned
AttachedThere == \A a \in attached : guardrail[a[2]] # NoRow
SpecialistRowsSound == SpecialistRowsTyped /\ PreferredAssigned /\ AttachedThere
SpecRequestsTyped ==
  /\ specReq \in [SpecRequest -> SpecRecord]
  /\ \A r \in SpecRequest : Stage(specReq[r])
SpecialistInvariant == SpecialistRowsSound /\ SpecRequestsTyped /\ SoleIsDefault

DefaultHolds(t) == Cardinality(FindSpecialistIDs(t)) = 1 => preferred[t] \in FindSpecialistIDs(t)

\* The fields of a request at each step of its code.
LEMMA ShapeOfSpecRequest ==
  ASSUME NEW q \in SpecRecord
  PROVE /\ q.phase \in WorkPhase => q \in WorkRecord /\ Changed(q) = q.changed
        /\ q.phase \notin WorkPhase => Changed(q) = {}
        /\ q.phase = "page" => q \in TenantPage \cup GuardrailPage \cup LibraryPage
        /\ q.phase = "save" => q \in SaveRecord
        /\ q.phase \in {"attach", "saveGuardrail", "count", "drop"} => q \in GuardrailRecord
        /\ q.phase \in SpecPhase
<1>1. CASE q \in [phase : {"none"}]
  BY <1>1 DEF Changed, WorkPhase, SpecPhase
<1>2. CASE q \in TenantPage \cup GuardrailPage \cup LibraryPage
  BY <1>2 DEF Changed, WorkPhase, SpecPhase, TenantPage, GuardrailPage, LibraryPage
<1>3. CASE q \in WorkRecord
  BY <1>3 DEF Changed, WorkPhase, SpecPhase, WorkRecord
<1>4. CASE q \in SaveRecord
  BY <1>4 DEF Changed, WorkPhase, SpecPhase, SaveRecord
<1>5. CASE q \in GuardrailRecord
  BY <1>5 DEF Changed, WorkPhase, SpecPhase, GuardrailRecord
<1> QED
  BY <1>1, <1>2, <1>3, <1>4, <1>5 DEF SpecRecord

\* What a step of one request has to show to keep the invariant.
LEMMA SpecialistStep ==
  ASSUME SpecialistInvariant, NEW r \in SpecRequest, NEW n \in SpecRecord, Now(r, n), Stage(n),
         SpecialistRowsSound',
         \A t \in Tenant : t \notin unsettled' \cup Changed(n) =>
           \/ DefaultHolds(t)'
           \/ /\ t \notin unsettled \cup Changed(specReq[r])
              /\ FindSpecialistIDs(t)' = FindSpecialistIDs(t) /\ preferred'[t] = preferred[t]
  PROVE SpecialistInvariant'
<1> HIDE DEF SpecRecord
<1>1. /\ specReq' \in [SpecRequest -> SpecRecord] /\ specReq'[r] = n
      /\ \A o \in SpecRequest \ {r} : specReq'[o] = specReq[o]
  BY DEF SpecialistInvariant, SpecRequestsTyped, Now
<1>2. \A o \in SpecRequest : Stage(specReq'[o])
  BY <1>1 DEF SpecialistInvariant, SpecRequestsTyped
<1>3. SpecRequestsTyped'
  BY <1>1, <1>2 DEF SpecRequestsTyped, Stage
<1>4. ASSUME NEW t \in Tenant, t \notin unsettled', ~Busy(t)' PROVE DefaultHolds(t)'
  <2>1. t \notin Changed(n)
    BY <1>1, <1>4 DEF Busy, Changed
  <2>2. CASE /\ t \notin unsettled \cup Changed(specReq[r])
             /\ FindSpecialistIDs(t)' = FindSpecialistIDs(t) /\ preferred'[t] = preferred[t]
    <3>1. ~Busy(t)
      BY <1>1, <1>4, <2>2 DEF Busy, Changed
    <3>2. DefaultHolds(t)
      BY <2>2, <3>1 DEF SpecialistInvariant, SoleIsDefault, DefaultHolds
    <3> QED
      BY <2>2, <3>2 DEF DefaultHolds
  <2> QED
    BY <1>4, <2>1, <2>2
<1>5. SoleIsDefault'
  BY <1>4 DEF SoleIsDefault, DefaultHolds
<1> QED
  BY <1>3, <1>5 DEF SpecialistInvariant

\* A step that changes no row.
LEMMA SpecialistWaits ==
  ASSUME SpecialistInvariant, NEW r \in SpecRequest, NEW n \in SpecRecord, Now(r, n), Stage(n),
         UNCHANGED specRows,
         \A t \in Tenant : t \in unsettled \cup Changed(specReq[r]) /\ t \notin unsettled' \cup Changed(n) => DefaultHolds(t)
  PROVE SpecialistInvariant'
<1>1. SpecialistRowsSound'
  BY DEF specRows, SpecialistInvariant, SpecialistRowsSound, SpecialistRowsTyped, PreferredAssigned, AttachedThere
<1>2. ASSUME NEW t \in Tenant
      PROVE FindSpecialistIDs(t)' = FindSpecialistIDs(t) /\ preferred'[t] = preferred[t] /\ (DefaultHolds(t) => DefaultHolds(t)')
  BY DEF specRows, FindSpecialistIDs, DefaultHolds
<1> HIDE DEF SpecRecord
<1> QED
  BY <1>1, <1>2, SpecialistStep

\* A request without a firm to settle goes to another step without one.
LEMMA SpecialistTurns ==
  ASSUME SpecialistInvariant, NEW r \in SpecRequest, NEW n \in SpecRecord, Now(r, n), n.phase \notin WorkPhase,
         Changed(specReq[r]) = {}, UNCHANGED specRows, UNCHANGED unsettled
  PROVE SpecialistInvariant'
<1>1. Stage(n)
  BY DEF Stage, WorkPhase
<1> HIDE DEF SpecRecord
<1> QED
  BY <1>1, SpecialistWaits

\* A request that ends early leaves its firms unsettled.
LEMMA SpecialistEnds ==
  ASSUME SpecialistInvariant, NEW r \in SpecRequest, Ends(r), UNCHANGED specRows
  PROVE SpecialistInvariant'
<1>1. SpecIdle \in SpecRecord /\ Stage(SpecIdle) /\ SpecIdle.phase = "none" /\ Changed(SpecIdle) = {}
  BY DEF SpecIdle, SpecRecord, Stage, Changed
<1>2. Now(r, SpecIdle) /\ unsettled' = unsettled \cup Changed(specReq[r])
  BY DEF Ends, Changed
<1> HIDE DEF SpecRecord
<1> QED
  BY <1>1, <1>2, SpecialistWaits

\* The statements that are requests of their own.
LEMMA AloneKeeps ==
  ASSUME SpecialistInvariant,
         \/ \E s \in Specialist : CreateSpecialist(s)
         \/ \E t \in Tenant : TenantStatusChanges(t)
         \/ ToolForms
  PROVE SpecialistInvariant'
<1> HIDE DEF SpecRecord
<1>1. /\ UNCHANGED <<assigned, preferred, guardrail, attached, specReq, unsettled>>
      /\ specialist' \in [Specialist -> SpecialistRow \cup {NoRow}] /\ tools' \subseteq SpecialistToolRow
  <2>1. ASSUME NEW s \in Specialist, CreateSpecialist(s)
        PROVE specialist' \in [Specialist -> SpecialistRow \cup {NoRow}]
    <3>1. NewSpecialist \in SpecialistRow
      BY DEF NewSpecialist, SpecialistRow
    <3> HIDE DEF SpecialistRow
    <3> QED
      BY <2>1, <3>1 DEF CreateSpecialist, SpecialistInvariant, SpecialistRowsSound, SpecialistRowsTyped
  <2>2. specialist \in [Specialist -> SpecialistRow \cup {NoRow}] /\ tools \subseteq SpecialistToolRow
    BY DEF SpecialistInvariant, SpecialistRowsSound, SpecialistRowsTyped
  <2> HIDE DEF SpecialistRow
  <2>3. CASE \E s \in Specialist : CreateSpecialist(s)
    BY <2>1, <2>2, <2>3 DEF CreateSpecialist
  <2>4. CASE \E t \in Tenant : TenantStatusChanges(t)
    BY <2>2, <2>4 DEF TenantStatusChanges
  <2>5. CASE ToolForms
    BY <2>2, <2>5 DEF ToolForms, AssociateTool, DissociateTool, SpecialistToolRow
  <2> QED
    BY <2>3, <2>4, <2>5
<1>2. SpecialistRowsSound'
  BY <1>1 DEF SpecialistInvariant, SpecialistRowsSound, SpecialistRowsTyped, PreferredAssigned, AttachedThere
<1>3. SpecRequestsTyped'
  BY <1>1 DEF SpecialistInvariant, SpecRequestsTyped, Stage
<1>4. SoleIsDefault'
  BY <1>1 DEF SpecialistInvariant, SoleIsDefault, Busy, FindSpecialistIDs
<1> QED
  BY <1>2, <1>3, <1>4 DEF SpecialistInvariant

\* A request that is free answers for no firm.
LEMMA FreeAnswersForNone ==
  ASSUME SpecialistInvariant, NEW r \in SpecRequest, Free(r)
  PROVE Changed(specReq[r]) = {}
<1>1. specReq[r] \in SpecRecord /\ specReq[r].phase \notin WorkPhase
  BY DEF SpecialistInvariant, SpecRequestsTyped, Free, WorkPhase
<1> QED
  BY <1>1, ShapeOfSpecRequest

\* A row with one field changed is a row.
LEMMA SpecialistRows ==
  ASSUME NEW row \in SpecialistRow, NEW on \in BOOLEAN
  PROVE /\ Deactivated(row) \in SpecialistRow /\ Activated(row) \in SpecialistRow
        /\ WithCrossSell(row, on) \in SpecialistRow
BY DEF Deactivated, Activated, WithCrossSell, SpecialistRow

\* The forms of a specialist.
LEMMA SpecialistFormsKeep ==
  ASSUME SpecialistInvariant, NEW r \in SpecRequest, SpecialistForms(r)
  PROVE SpecialistInvariant'
<1>0. \A s \in Specialist : specialist[s] # NoRow => specialist[s] \in SpecialistRow
  BY DEF SpecialistInvariant, SpecialistRowsSound, SpecialistRowsTyped
<1>1. ASSUME NEW s \in Specialist, NEW row \in SpecialistRow, FindSpecialist(r, s, row) PROVE SpecialistInvariant'
  <2> DEFINE n == [phase |-> "save", spec |-> s, row |-> row]
  <2>1. n \in SpecRecord /\ n.phase = "save" /\ n.phase \notin WorkPhase
    BY DEF SpecRecord, SaveRecord, WorkPhase
  <2>2. Now(r, n) /\ Free(r) /\ UNCHANGED specRows /\ UNCHANGED unsettled
    BY <1>1 DEF FindSpecialist
  <2> HIDE DEF n, SpecRecord
  <2> QED
    BY <2>1, <2>2, FreeAnswersForNone, SpecialistTurns
<1>2. CASE \E s \in Specialist :
             \/ UpdateSpecialist(r, s) \/ ActivateSpecialist(r, s) \/ DeactivateSpecialist(r, s)
             \/ \E on \in BOOLEAN : HandleUpdateConfig(r, s, on)
  <2>1. PICK s \in Specialist :
             \/ UpdateSpecialist(r, s) \/ ActivateSpecialist(r, s) \/ DeactivateSpecialist(r, s)
             \/ \E on \in BOOLEAN : HandleUpdateConfig(r, s, on)
    BY <1>2
  <2>2. specialist[s] \in SpecialistRow
    BY <1>0, <2>1 DEF UpdateSpecialist, ActivateSpecialist, DeactivateSpecialist, HandleUpdateConfig, FindSpecialist
  <2> HIDE DEF SpecialistRow
  <2>3. CASE UpdateSpecialist(r, s)
    BY <1>1, <2>2, <2>3 DEF UpdateSpecialist
  <2>4. CASE ActivateSpecialist(r, s) \/ DeactivateSpecialist(r, s)
    BY <1>1, <2>2, <2>4, SpecialistRows DEF ActivateSpecialist, DeactivateSpecialist
  <2>5. CASE \E on \in BOOLEAN : HandleUpdateConfig(r, s, on)
    BY <1>1, <2>2, <2>5, SpecialistRows DEF HandleUpdateConfig
  <2> QED
    BY <2>1, <2>3, <2>4, <2>5
<1>3. CASE SaveSpecialist(r)
  <2> DEFINE q == specReq[r]
  <2>1. q \in SpecRecord /\ q.phase = "save"
    BY <1>3 DEF SaveSpecialist, SpecialistInvariant, SpecRequestsTyped
  <2>2. q.spec \in Specialist /\ q.row \in SpecialistRow /\ Changed(q) = {}
    BY <2>1, ShapeOfSpecRequest DEF SaveRecord, WorkPhase
  <2>3. /\ Now(r, SpecIdle) /\ UNCHANGED <<assigned, preferred, guardrail, attached, tools, unsettled>>
        /\ specialist' = [specialist EXCEPT ![q.spec] = q.row]
    BY <1>3 DEF SaveSpecialist
  <2>4. specialist' \in [Specialist -> SpecialistRow \cup {NoRow}]
    BY <2>2, <2>3 DEF SpecialistInvariant, SpecialistRowsSound, SpecialistRowsTyped
  <2>5. SpecialistRowsSound' /\ attached' = attached
    BY <2>3, <2>4 DEF SpecialistInvariant, SpecialistRowsSound, SpecialistRowsTyped, PreferredAssigned, AttachedThere
  <2>6. SpecIdle \in SpecRecord /\ Stage(SpecIdle) /\ SpecIdle.phase = "none" /\ Changed(SpecIdle) = {}
    BY DEF SpecIdle, SpecRecord, Stage, Changed
  <2>7. ASSUME NEW t \in Tenant, t \notin unsettled'
        PROVE /\ t \notin unsettled \cup Changed(q)
              /\ FindSpecialistIDs(t)' = FindSpecialistIDs(t) /\ preferred'[t] = preferred[t]
    BY <2>2, <2>3, <2>7 DEF FindSpecialistIDs
  <2> HIDE DEF SpecRecord
  <2> QED
    BY <2>3, <2>5, <2>6, <2>7, SpecialistStep
<1> QED
  BY <1>2, <1>3 DEF SpecialistForms

\* The pages.
LEMMA PagesKeep ==
  ASSUME SpecialistInvariant, NEW r \in SpecRequest,
         \/ \E s \in Specialist : HandleListTenants(r, s) \/ HandleListAvailable(r, s) \/ HandleListManageable(r, s)
         \/ GuardrailPages(r)
         \/ RenderLibrary(r)
  PROVE SpecialistInvariant'
<1>1. ASSUME NEW view, NEW s, NEW shown, Opens(r, view, s, shown),
             [phase |-> "page", view |-> view, spec |-> s, shown |-> shown] \in SpecRecord
      PROVE SpecialistInvariant'
  <2> DEFINE n == [phase |-> "page", view |-> view, spec |-> s, shown |-> shown]
  <2>1. n \in SpecRecord /\ n.phase = "page" /\ n.phase \notin WorkPhase
    BY <1>1 DEF WorkPhase
  <2>2. Now(r, n) /\ Free(r) /\ UNCHANGED specRows /\ UNCHANGED unsettled
    BY <1>1 DEF Opens
  <2> HIDE DEF n, SpecRecord
  <2> QED
    BY <2>1, <2>2, FreeAnswersForNone, SpecialistTurns
<1>2. ASSUME NEW s \in Specialist, NEW view \in {"tenants", "available", "manage"}, NEW shown \in SUBSET Tenant
      PROVE [phase |-> "page", view |-> view, spec |-> s, shown |-> shown] \in SpecRecord
  BY DEF SpecRecord, TenantPage
<1>3. ASSUME NEW s \in Specialist, NEW view \in {"guardrails", "attach"}, NEW shown \in SUBSET Guardrail
      PROVE [phase |-> "page", view |-> view, spec |-> s, shown |-> shown] \in SpecRecord
  BY DEF SpecRecord, GuardrailPage
<1>4. ASSUME NEW shown \in SUBSET Guardrail
      PROVE [phase |-> "page", view |-> "library", spec |-> None, shown |-> shown] \in SpecRecord
  BY DEF SpecRecord, LibraryPage
<1> HIDE DEF SpecRecord
<1>5. ASSUME NEW s \in Specialist, HandleListTenants(r, s) \/ HandleListAvailable(r, s) \/ HandleListManageable(r, s)
      PROVE SpecialistInvariant'
  <2>1. /\ ListSpecialistTenants(s) \in SUBSET Tenant /\ ListAvailableTenants(s) \in SUBSET Tenant
        /\ ListManageableTenants(s) \in SUBSET Tenant
    BY DEF ListSpecialistTenants, ListAvailableTenants, ListManageableTenants, FindTenantIDs
  <2> QED
    BY <1>1, <1>2, <1>5, <2>1 DEF HandleListTenants, HandleListAvailable, HandleListManageable
<1>6. ASSUME NEW s \in Specialist, HandleListGuardrails(r, s) \/ RenderAttachList(r, s) PROVE SpecialistInvariant'
  <2>1. ListGuardrails(s) \in SUBSET Guardrail /\ ListAvailableGuardrails(s) \in SUBSET Guardrail
    BY DEF ListGuardrails, ListAvailableGuardrails, ListAllGuardrails
  <2> QED
    BY <1>1, <1>3, <1>6, <2>1 DEF HandleListGuardrails, RenderAttachList
<1>7. CASE RenderLibrary(r)
  <2>1. ListAllGuardrails \in SUBSET Guardrail
    BY DEF ListAllGuardrails
  <2> QED
    BY <1>1, <1>4, <1>7, <2>1 DEF RenderLibrary
<1> QED
  BY <1>5, <1>6, <1>7 DEF GuardrailPages

\* A row of the specialists of a firm is added or removed; the other firms
\* keep theirs.
LEMMA RowInserted ==
  ASSUME SpecialistInvariant, NEW s \in Specialist, NEW t \in Tenant, InsertRow(s, t)
  PROVE /\ SpecialistRowsSound' /\ attached' = attached
        /\ \A u \in Tenant \ {t} : FindSpecialistIDs(u)' = FindSpecialistIDs(u) /\ preferred'[u] = preferred[u]
<1>1. SpecialistRowsSound'
  BY DEF InsertRow, SpecialistInvariant, SpecialistRowsSound, SpecialistRowsTyped, PreferredAssigned, AttachedThere,
         SpecialistTenantRow
<1>2. ASSUME NEW u \in Tenant \ {t}
      PROVE FindSpecialistIDs(u)' = FindSpecialistIDs(u) /\ preferred'[u] = preferred[u]
  BY DEF InsertRow, FindSpecialistIDs
<1> QED
  BY <1>1, <1>2 DEF InsertRow
LEMMA RowDeleted ==
  ASSUME SpecialistInvariant, NEW s \in Specialist, NEW t \in Tenant, DeleteRow(s, t)
  PROVE /\ SpecialistRowsSound' /\ attached' = attached
        /\ \A u \in Tenant \ {t} : FindSpecialistIDs(u)' = FindSpecialistIDs(u) /\ preferred'[u] = preferred[u]
<1>1. /\ preferred \in [Tenant -> Specialist \cup {None}] /\ assigned' = assigned \ {<<s, t>>}
      /\ UNCHANGED <<specialist, guardrail, attached, tools>>
  BY DEF DeleteRow, SpecialistInvariant, SpecialistRowsSound, SpecialistRowsTyped
<1>2. /\ preferred' \in [Tenant -> Specialist \cup {None}]
      /\ \A u \in Tenant \ {t} : preferred'[u] = preferred[u]
      /\ preferred'[t] = IF preferred[t] = s THEN None ELSE preferred[t]
  BY <1>1 DEF DeleteRow
<1>3. PreferredAssigned'
  BY <1>1, <1>2 DEF SpecialistInvariant, SpecialistRowsSound, PreferredAssigned
<1>4. SpecialistRowsTyped' /\ AttachedThere'
  BY <1>1, <1>2 DEF SpecialistInvariant, SpecialistRowsSound, SpecialistRowsTyped, AttachedThere
<1>5. ASSUME NEW u \in Tenant \ {t} PROVE FindSpecialistIDs(u)' = FindSpecialistIDs(u)
  BY <1>1 DEF FindSpecialistIDs
<1> QED
  BY <1>1, <1>2, <1>3, <1>4, <1>5 DEF SpecialistRowsSound

\* The pages a form is sent from.
LEMMA ShownOnPages ==
  ASSUME SpecialistInvariant, NEW r \in SpecRequest, NEW view, On(r, view)
  PROVE /\ Free(r) /\ Changed(specReq[r]) = {}
        /\ view \in {"tenants", "available", "manage"} =>
             specReq[r].spec \in Specialist /\ specReq[r].shown \in SUBSET Tenant
        /\ view \in {"guardrails", "attach"} =>
             specReq[r].spec \in Specialist /\ specReq[r].shown \in SUBSET Guardrail
        /\ view = "library" => specReq[r].shown \in SUBSET Guardrail
<1> DEFINE q == specReq[r]
<1>1. q \in SpecRecord /\ q.phase = "page" /\ q.view = view
  BY DEF On, SpecialistInvariant, SpecRequestsTyped
<1>2. q \in TenantPage \cup GuardrailPage \cup LibraryPage
  BY <1>1, ShapeOfSpecRequest
<1>3. Free(r)
  BY <1>1 DEF Free
<1> QED
  BY <1>1, <1>2, <1>3, FreeAnswersForNone DEF TenantPage, GuardrailPage, LibraryPage

\* Work on firms is a request.
LEMMA WorkTyped ==
  ASSUME NEW q \in WorkRecord
  PROVE /\ q \in SpecRecord /\ q.phase \in WorkPhase /\ q.phase # "drop" /\ Changed(q) = q.changed
        /\ q.spec \in Specialist /\ q.left \in SUBSET Tenant /\ q.adds \in SUBSET Tenant
        /\ q.removes \in SUBSET Tenant /\ q.changed \in SUBSET Tenant
BY DEF WorkRecord, SpecRecord, WorkPhase, Changed
LEMMA NewWork ==
  ASSUME NEW phase \in {"associate", "settle", "sync"}, NEW s \in Specialist, NEW left \in SUBSET Tenant,
         NEW adds \in SUBSET Tenant, NEW removes \in SUBSET Tenant, NEW changed \in SUBSET Tenant
  PROVE LET n == Work(phase, s, left, adds, removes, changed)
        IN n \in WorkRecord /\ n.phase = phase /\ n.changed = changed
BY DEF Work, WorkRecord, WorkPhase
LEMMA WorkAt ==
  ASSUME SpecialistInvariant, NEW r \in SpecRequest, specReq[r].phase \in WorkPhase
  PROVE specReq[r] \in WorkRecord /\ Stage(specReq[r]) /\ Changed(specReq[r]) = specReq[r].changed
BY ShapeOfSpecRequest DEF SpecialistInvariant, SpecRequestsTyped

\* A request that goes on with its work without a change of rows.
LEMMA WorkGoesOn ==
  ASSUME SpecialistInvariant, NEW r \in SpecRequest, NEW n \in WorkRecord, Now(r, n), Stage(n),
         UNCHANGED specRows, UNCHANGED unsettled, Changed(specReq[r]) \subseteq n.changed
  PROVE SpecialistInvariant'
<1>1. n \in SpecRecord /\ Changed(n) = n.changed
  BY WorkTyped
<1>2. ASSUME NEW t \in Tenant, t \in unsettled \cup Changed(specReq[r]), t \notin unsettled' \cup Changed(n)
      PROVE FALSE
  BY <1>1, <1>2
<1> HIDE DEF SpecRecord
<1> QED
  BY <1>1, <1>2, SpecialistWaits

\* A request that answers for no firm ends, and the rows stay.
LEMMA NothingToSettle ==
  ASSUME SpecialistInvariant, NEW r \in SpecRequest, Now(r, SpecIdle), UNCHANGED specRows, UNCHANGED unsettled,
         Changed(specReq[r]) = {}
  PROVE SpecialistInvariant'
<1>1. SpecIdle \in SpecRecord /\ SpecIdle.phase = "none" /\ SpecIdle.phase \notin WorkPhase
  BY DEF SpecIdle, SpecRecord, WorkPhase
<1> HIDE DEF SpecRecord
<1> QED
  BY <1>1, SpecialistTurns

\* A request that changed the rows of one firm answers for it from then on.
LEMMA RowChanged ==
  ASSUME SpecialistInvariant, NEW r \in SpecRequest, NEW s \in Specialist, NEW t \in Tenant,
         InsertRow(s, t) \/ DeleteRow(s, t),
         NEW n \in WorkRecord, Now(r, n), Stage(n), n.changed = Changed(specReq[r]) \cup {t},
         unsettled' = unsettled \ {t}
  PROVE SpecialistInvariant'
<1>1. n \in SpecRecord /\ Changed(n) = n.changed
  BY WorkTyped
<1>2. /\ SpecialistRowsSound' /\ attached' = attached
      /\ \A u \in Tenant \ {t} : FindSpecialistIDs(u)' = FindSpecialistIDs(u) /\ preferred'[u] = preferred[u]
  BY RowInserted, RowDeleted
<1>3. ASSUME NEW u \in Tenant, u \notin unsettled' \cup Changed(n)
      PROVE /\ u \notin unsettled \cup Changed(specReq[r])
            /\ FindSpecialistIDs(u)' = FindSpecialistIDs(u) /\ preferred'[u] = preferred[u]
  BY <1>1, <1>2, <1>3
<1> HIDE DEF SpecRecord
<1> QED
  BY <1>1, <1>2, <1>3, SpecialistStep

\* The forms that start work on firms.
LEMMA FirmFormsKeep ==
  ASSUME SpecialistInvariant, NEW r \in SpecRequest,
         \/ \E ts \in SUBSET Tenant : HandleAssociateTenants(r, ts) \/ HandleSyncTenants(r, ts)
         \/ \E t \in Tenant : HandleDissociateTenant(r, t) \/ HandleSetDefault(r, t)
  PROVE SpecialistInvariant'
<1> DEFINE s == specReq[r].spec
<1>1. ASSUME NEW chosen \in SUBSET Tenant, HandleAssociateTenants(r, chosen) PROVE SpecialistInvariant'
  <2>1. s \in Specialist /\ Changed(specReq[r]) = {}
    BY <1>1, ShownOnPages DEF HandleAssociateTenants
  <2>2. CASE Now(r, SpecIdle)
    BY <1>1, <2>1, <2>2, NothingToSettle DEF HandleAssociateTenants
  <2>3. CASE Now(r, Work("associate", s, chosen, {}, {}, {}))
    <3> DEFINE n == Work("associate", s, chosen, {}, {}, {})
    <3>1. n \in WorkRecord /\ n.phase = "associate" /\ n.changed = {}
      BY <2>1, NewWork
    <3>2. Stage(n)
      BY <3>1 DEF Stage
    <3> HIDE DEF n
    <3> QED
      BY <1>1, <2>1, <2>3, <3>1, <3>2, WorkGoesOn DEF HandleAssociateTenants, n
  <2> QED
    BY <1>1, <2>2, <2>3 DEF HandleAssociateTenants
<1>2. ASSUME NEW desired \in SUBSET Tenant, HandleSyncTenants(r, desired) PROVE SpecialistInvariant'
  <2>1. s \in Specialist /\ Changed(specReq[r]) = {} /\ UNCHANGED specRows /\ UNCHANGED unsettled
    BY <1>2, ShownOnPages DEF HandleSyncTenants
  <2>2. CASE Now(r, SpecIdle)
    BY <2>1, <2>2, NothingToSettle
  <2>3. CASE Now(r, Work("sync", s, {}, desired \ FindTenantIDs(s), FindTenantIDs(s) \ desired, {}))
    <3> DEFINE n == Work("sync", s, {}, desired \ FindTenantIDs(s), FindTenantIDs(s) \ desired, {})
    <3>0. FindTenantIDs(s) \in SUBSET Tenant
      BY DEF FindTenantIDs
    <3>1. n \in WorkRecord /\ n.phase = "sync" /\ n.changed = {}
      BY <2>1, <3>0, NewWork
    <3>2. Stage(n) /\ Now(r, n)
      BY <2>3, <3>1 DEF Stage
    <3> HIDE DEF n
    <3> QED
      BY <2>1, <3>1, <3>2, WorkGoesOn
  <2> QED
    BY <1>2, <2>2, <2>3 DEF HandleSyncTenants
<1>3. ASSUME NEW t \in Tenant, HandleDissociateTenant(r, t) PROVE SpecialistInvariant'
  <2>1. s \in Specialist /\ Changed(specReq[r]) = {}
    BY <1>3, ShownOnPages DEF HandleDissociateTenant
  <2>2. CASE <<s, t>> \notin assigned
    BY <1>3, <2>1, <2>2, NothingToSettle DEF HandleDissociateTenant
  <2>3. CASE <<s, t>> \in assigned
    <3> DEFINE n == Work("settle", s, {}, {}, {t}, {t})
    <3>1. n \in WorkRecord /\ n.phase = "settle" /\ n.changed = {t}
      BY <2>1, NewWork
    <3>2. Stage(n) /\ Now(r, n) /\ DeleteRow(s, t) /\ unsettled' = unsettled \ {t}
      BY <1>3, <2>3, <3>1 DEF Stage, HandleDissociateTenant
    <3> HIDE DEF n
    <3> QED
      BY <2>1, <3>1, <3>2, RowChanged
  <2> QED
    BY <2>2, <2>3
<1>4. ASSUME NEW t \in Tenant, HandleSetDefault(r, t) PROVE SpecialistInvariant'
  <2>1. s \in Specialist /\ Changed(specReq[r]) = {}
    BY <1>4, ShownOnPages DEF HandleSetDefault
  <2>2. /\ Now(r, SpecIdle) /\ UNCHANGED <<specialist, assigned, guardrail, attached, tools, unsettled>>
        /\ preferred \in [Tenant -> Specialist \cup {None}]
        /\ preferred' = IF <<s, t>> \in assigned THEN [preferred EXCEPT ![t] = s] ELSE preferred
    BY <1>4 DEF HandleSetDefault, SpecialistInvariant, SpecialistRowsSound, SpecialistRowsTyped
  <2>3. /\ preferred' \in [Tenant -> Specialist \cup {None}]
        /\ \A u \in Tenant \ {t} : preferred'[u] = preferred[u]
        /\ \/ preferred' = preferred
           \/ preferred'[t] = s /\ <<s, t>> \in assigned
    BY <2>1, <2>2
  <2>4. SpecialistRowsSound'
    BY <2>2, <2>3 DEF SpecialistInvariant, SpecialistRowsSound, SpecialistRowsTyped, PreferredAssigned, AttachedThere
  <2>5. ASSUME NEW u \in Tenant, u \notin unsettled' \cup Changed(SpecIdle)
        PROVE \/ DefaultHolds(u)'
              \/ /\ u \notin unsettled \cup Changed(specReq[r])
                 /\ FindSpecialistIDs(u)' = FindSpecialistIDs(u) /\ preferred'[u] = preferred[u]
    BY <2>1, <2>2, <2>3, <2>5 DEF DefaultHolds, FindSpecialistIDs
  <2>6. SpecIdle \in SpecRecord /\ Stage(SpecIdle) /\ SpecIdle.phase # "drop"
    BY DEF SpecIdle, SpecRecord, Stage
  <2> HIDE DEF SpecRecord
  <2> QED
    BY <2>2, <2>4, <2>5, <2>6, SpecialistStep
<1> QED
  BY <1>1, <1>2, <1>3, <1>4

\* The steps of the work on firms, as records.
WorkNext(n, changed) == n \in WorkRecord /\ Stage(n) /\ n.changed = changed
LEMMA WorkChanges ==
  ASSUME NEW q \in WorkRecord, NEW t \in Tenant
  PROVE /\ q.phase = "associate" /\ q.changed = {} => WorkNext([q EXCEPT !.left = @ \ {t}], {})
        /\ q.changed = {} => WorkNext([q EXCEPT !.phase = "insert", !.left = @ \ {t}, !.adds = {t}], {})
        /\ WorkNext([q EXCEPT !.phase = "settle", !.changed = {t}], {t})
        /\ q.phase = "sync" => WorkNext([q EXCEPT !.changed = @ \cup {t}], q.changed \cup {t})
        /\ WorkNext([q EXCEPT !.phase = "settle"], q.changed)
        /\ WorkNext([q EXCEPT !.phase = "ids", !.tenant = t], q.changed)
        /\ q.tenant \in Tenant =>
             \A s \in Specialist : WorkNext([q EXCEPT !.phase = "setDefault", !.sole = s], q.changed)
<1>1. q.phase = "associate" /\ q.changed = {} => WorkNext([q EXCEPT !.left = @ \ {t}], {})
  BY DEF WorkRecord, WorkPhase, Stage, WorkNext
<1>2. q.changed = {} => WorkNext([q EXCEPT !.phase = "insert", !.left = @ \ {t}, !.adds = {t}], {})
  BY DEF WorkRecord, WorkPhase, Stage, WorkNext
<1>3. WorkNext([q EXCEPT !.phase = "settle", !.changed = {t}], {t})
  BY DEF WorkRecord, WorkPhase, Stage, WorkNext
<1>4. q.phase = "sync" => WorkNext([q EXCEPT !.changed = @ \cup {t}], q.changed \cup {t})
  BY DEF WorkRecord, WorkPhase, Stage, WorkNext
<1>5. WorkNext([q EXCEPT !.phase = "settle"], q.changed)
  BY DEF WorkRecord, WorkPhase, Stage, WorkNext
<1>6. WorkNext([q EXCEPT !.phase = "ids", !.tenant = t], q.changed)
  BY DEF WorkRecord, WorkPhase, Stage, WorkNext
<1>7. ASSUME q.tenant \in Tenant, NEW s \in Specialist
      PROVE WorkNext([q EXCEPT !.phase = "setDefault", !.sole = s], q.changed)
  BY <1>7 DEF WorkRecord, WorkPhase, Stage, WorkNext
<1> QED
  BY <1>1, <1>2, <1>3, <1>4, <1>5, <1>6, <1>7

\* After a firm is settled the request answers for the others.
LEMMA SettledNext ==
  ASSUME NEW r \in SpecRequest, specReq[r] \in WorkRecord, NEW t, Settled(r, t)
  PROVE \E n \in SpecRecord : /\ Now(r, n) /\ Stage(n)
                              /\ Changed(n) = specReq[r].changed \ {t}
<1> DEFINE p == specReq[r]
           q == [p EXCEPT !.changed = @ \ {t}, !.phase = "settle", !.tenant = None, !.sole = None]
           a == [q EXCEPT !.phase = "associate"]
<1>1. q \in WorkRecord /\ q.phase = "settle" /\ q.changed = p.changed \ {t} /\ q.left = p.left
  BY DEF WorkRecord, WorkPhase
<1>2. a \in WorkRecord /\ a.phase = "associate" /\ a.changed = q.changed
  BY <1>1 DEF WorkRecord, WorkPhase
<1>3. Now(r, IF q.changed # {} THEN q ELSE IF q.left # {} THEN a ELSE SpecIdle)
  BY DEF Settled
<1> HIDE DEF q, a
<1>4. CASE q.changed # {}
  BY <1>1, <1>3, <1>4, WorkTyped DEF Stage
<1>5. CASE q.changed = {} /\ q.left # {}
  BY <1>1, <1>2, <1>3, <1>5, WorkTyped DEF Stage
<1>6. CASE q.changed = {} /\ q.left = {}
  <2>1. SpecIdle \in SpecRecord /\ Stage(SpecIdle) /\ SpecIdle.phase # "drop" /\ Changed(SpecIdle) = {}
    BY DEF SpecIdle, SpecRecord, Stage, Changed
  <2> HIDE DEF SpecRecord
  <2> QED
    BY <1>1, <1>3, <1>6, <2>1
<1> QED
  BY <1>4, <1>5, <1>6

\* The statements that add and remove rows.
LEMMA FirmRowsKeep ==
  ASSUME SpecialistInvariant, NEW r \in SpecRequest,
         CheckTenant(r) \/ Associate(r) \/ SyncRemove(r) \/ SyncAdd(r) \/ SyncDone(r)
  PROVE SpecialistInvariant'
<1> DEFINE q == specReq[r]
<1>0. q.phase \in WorkPhase
  BY DEF CheckTenant, Associate, SyncRemove, SyncAdd, SyncDone, WorkPhase
<1>1. q \in WorkRecord /\ Stage(q) /\ Changed(q) = q.changed /\ q.spec \in Specialist
  BY <1>0, WorkAt, WorkTyped
<1>2. q.left \in SUBSET Tenant /\ q.adds \in SUBSET Tenant /\ q.removes \in SUBSET Tenant
  BY <1>1, WorkTyped
<1> HIDE DEF WorkRecord
<1>3. CASE CheckTenant(r)
  <2>1. q.phase = "associate" /\ q.changed = {} /\ UNCHANGED specRows
    BY <1>1, <1>3 DEF CheckTenant, Stage
  <2>2. PICK t \in q.left :
          \/ Ends(r)
          \/ Now(r, IF q.left = {t} THEN SpecIdle ELSE [q EXCEPT !.left = @ \ {t}]) /\ UNCHANGED unsettled
          \/ Now(r, [q EXCEPT !.phase = "insert", !.left = @ \ {t}, !.adds = {t}]) /\ UNCHANGED unsettled
    BY <1>3 DEF CheckTenant
  <2>3. t \in Tenant
    BY <1>2
  <2>4. CASE Ends(r)
    BY <2>1, <2>4, SpecialistEnds
  <2>5. CASE Now(r, SpecIdle) /\ UNCHANGED unsettled
    BY <1>1, <2>1, <2>5, NothingToSettle
  <2>6. ASSUME NEW n, WorkNext(n, {}), Now(r, n), UNCHANGED unsettled PROVE SpecialistInvariant'
    BY <1>1, <2>1, <2>6, WorkGoesOn DEF WorkNext
  <2>7. CASE Now(r, [q EXCEPT !.left = @ \ {t}]) /\ UNCHANGED unsettled
    BY <1>1, <2>1, <2>3, <2>6, <2>7, WorkChanges
  <2>8. CASE Now(r, [q EXCEPT !.phase = "insert", !.left = @ \ {t}, !.adds = {t}]) /\ UNCHANGED unsettled
    BY <1>1, <2>1, <2>3, <2>6, <2>8, WorkChanges
  <2> QED
    BY <2>2, <2>4, <2>5, <2>7, <2>8
<1>4. ASSUME NEW t \in Tenant, InsertRow(q.spec, t) \/ DeleteRow(q.spec, t), NEW n,
             WorkNext(n, q.changed \cup {t}), Now(r, n), unsettled' = unsettled \ {t}
      PROVE SpecialistInvariant'
  BY <1>1, <1>4, RowChanged DEF WorkNext
<1>5. CASE Associate(r)
  <2>1. q.changed = {}
    BY <1>1, <1>5 DEF Associate, Stage
  <2>2. PICK t \in q.adds : IF <<q.spec, t>> \in assigned
                            THEN Ends(r) /\ UNCHANGED specRows
                            ELSE /\ InsertRow(q.spec, t)
                                 /\ Now(r, [q EXCEPT !.phase = "settle", !.changed = {t}])
                                 /\ unsettled' = unsettled \ {t}
    BY <1>5 DEF Associate
  <2>3. t \in Tenant
    BY <1>2
  <2>4. WorkNext([q EXCEPT !.phase = "settle", !.changed = {t}], q.changed \cup {t})
    BY <1>1, <2>1, <2>3, WorkChanges
  <2> QED
    BY <1>4, <2>2, <2>3, <2>4, SpecialistEnds
<1>6. CASE SyncRemove(r)
  <2>1. PICK t \in q.removes \ q.changed :
          IF <<q.spec, t>> \in assigned
          THEN /\ DeleteRow(q.spec, t)
               /\ Now(r, [q EXCEPT !.changed = @ \cup {t}])
               /\ unsettled' = unsettled \ {t}
          ELSE Ends(r) /\ UNCHANGED specRows
    BY <1>6 DEF SyncRemove
  <2>2. t \in Tenant /\ q.phase = "sync"
    BY <1>2, <1>6 DEF SyncRemove
  <2>3. WorkNext([q EXCEPT !.changed = @ \cup {t}], q.changed \cup {t})
    BY <1>1, <2>2, WorkChanges
  <2> QED
    BY <1>4, <2>1, <2>2, <2>3, SpecialistEnds
<1>7. CASE SyncAdd(r)
  <2>1. PICK t \in q.adds \ q.changed :
          IF <<q.spec, t>> \in assigned
          THEN Ends(r) /\ UNCHANGED specRows
          ELSE /\ InsertRow(q.spec, t)
               /\ Now(r, [q EXCEPT !.changed = @ \cup {t}])
               /\ unsettled' = unsettled \ {t}
    BY <1>7 DEF SyncAdd
  <2>2. t \in Tenant /\ q.phase = "sync"
    BY <1>2, <1>7 DEF SyncAdd
  <2>3. WorkNext([q EXCEPT !.changed = @ \cup {t}], q.changed \cup {t})
    BY <1>1, <2>2, WorkChanges
  <2> QED
    BY <1>4, <2>1, <2>2, <2>3, SpecialistEnds
<1>8. CASE SyncDone(r)
  <2>1. UNCHANGED specRows /\ UNCHANGED unsettled
    BY <1>8 DEF SyncDone
  <2>2. CASE q.changed = {}
    BY <1>1, <1>8, <2>1, <2>2, NothingToSettle DEF SyncDone
  <2>3. CASE q.changed # {}
    <3>1. PICK t \in q.changed : TRUE
      BY <2>3
    <3>2. t \in Tenant
      BY <1>1, <3>1, WorkTyped
    <3>3. WorkNext([q EXCEPT !.phase = "settle"], q.changed)
      BY <1>1, <3>2, WorkChanges
    <3>4. Now(r, [q EXCEPT !.phase = "settle"])
      BY <1>8, <2>3 DEF SyncDone
    <3> QED
      BY <1>1, <2>1, <3>3, <3>4, WorkGoesOn DEF WorkNext
  <2> QED
    BY <2>2, <2>3
<1> QED
  BY <1>3, <1>5, <1>6, <1>7, <1>8

\* The statements that settle the default of a firm.
LEMMA DefaultsKeep ==
  ASSUME SpecialistInvariant, NEW r \in SpecRequest, FindDefault(r) \/ FindIDs(r) \/ SetDefault(r)
  PROVE SpecialistInvariant'
<1> DEFINE q == specReq[r]
<1>0. q.phase \in WorkPhase
  BY DEF FindDefault, FindIDs, SetDefault, WorkPhase
<1>1. q \in WorkRecord /\ Stage(q) /\ Changed(q) = q.changed /\ q.changed \in SUBSET Tenant
  BY <1>0, WorkAt, WorkTyped
<1> HIDE DEF WorkRecord, SpecRecord
<1>2. ASSUME NEW t \in Tenant, Settled(r, t), UNCHANGED specRows, DefaultHolds(t) PROVE SpecialistInvariant'
  <2>1. PICK n \in SpecRecord : Now(r, n) /\ Stage(n) /\ Changed(n) = q.changed \ {t}
    BY <1>1, <1>2, SettledNext
  <2>2. unsettled' = unsettled
    BY <1>2 DEF Settled
  <2>3. ASSUME NEW u \in Tenant, u \in unsettled \cup Changed(q), u \notin unsettled' \cup Changed(n)
        PROVE DefaultHolds(u)
    <3>1. u = t
      BY <1>1, <2>1, <2>2, <2>3
    <3> QED
      BY <1>2, <3>1
  <2> QED
    BY <1>2, <2>1, <2>3, SpecialistWaits
<1>3. ASSUME NEW n, WorkNext(n, q.changed), Now(r, n), UNCHANGED specRows, UNCHANGED unsettled
      PROVE SpecialistInvariant'
  BY <1>1, <1>3, WorkGoesOn DEF WorkNext
<1>4. CASE FindDefault(r)
  <2>1. PICK t \in ToSettle(q) :
          IF preferred[t] # None
          THEN Settled(r, t)
          ELSE Now(r, [q EXCEPT !.phase = "ids", !.tenant = t]) /\ UNCHANGED unsettled
    BY <1>4 DEF FindDefault
  <2>2. t \in Tenant /\ UNCHANGED specRows
    BY <1>1, <1>4 DEF ToSettle, FindDefault
  <2>3. CASE preferred[t] # None
    <3>1. preferred[t] \in FindSpecialistIDs(t)
      BY <2>2, <2>3 DEF SpecialistInvariant, SpecialistRowsSound, SpecialistRowsTyped, PreferredAssigned, FindSpecialistIDs
    <3> QED
      BY <1>2, <2>1, <2>2, <2>3, <3>1 DEF DefaultHolds
  <2>4. CASE preferred[t] = None
    BY <1>1, <1>3, <2>1, <2>2, <2>4, WorkChanges
  <2> QED
    BY <2>3, <2>4
<1>5. CASE FindIDs(r)
  <2>1. q.tenant \in Tenant /\ UNCHANGED specRows
    BY <1>1, <1>5 DEF FindIDs, Stage
  <2>2. CASE Sole(FindSpecialistIDs(q.tenant))
    <3>1. PICK s \in FindSpecialistIDs(q.tenant) :
            Now(r, [q EXCEPT !.phase = "setDefault", !.sole = s]) /\ UNCHANGED unsettled
      BY <1>5, <2>2 DEF FindIDs
    <3>2. s \in Specialist
      BY DEF FindSpecialistIDs
    <3> QED
      BY <1>1, <1>3, <2>1, <3>1, <3>2, WorkChanges
  <2>3. CASE ~Sole(FindSpecialistIDs(q.tenant))
    <3>1. Settled(r, q.tenant) /\ DefaultHolds(q.tenant)
      BY <1>5, <2>3 DEF FindIDs, Sole, DefaultHolds
    <3> QED
      BY <1>2, <2>1, <3>1
  <2> QED
    BY <2>2, <2>3
<1>6. CASE SetDefault(r)
  <2>1. q.tenant \in Tenant /\ q.sole \in Specialist
    BY <1>1, <1>6 DEF SetDefault, Stage
  <2>2. CASE <<q.sole, q.tenant>> \notin assigned
    BY <1>6, <2>2, SpecialistEnds DEF SetDefault
  <2>3. CASE <<q.sole, q.tenant>> \in assigned
    <3> DEFINE t == q.tenant
    <3>1. /\ preferred' = [preferred EXCEPT ![t] = q.sole] /\ Settled(r, t)
          /\ UNCHANGED <<specialist, tenantActive, assigned, guardrail, attached, tools>>
      BY <1>6, <2>3 DEF SetDefault
    <3>2. unsettled' = unsettled /\ preferred \in [Tenant -> Specialist \cup {None}]
      BY <3>1 DEF Settled, SpecialistInvariant, SpecialistRowsSound, SpecialistRowsTyped
    <3>3. PICK n \in SpecRecord : Now(r, n) /\ Stage(n) /\ Changed(n) = q.changed \ {t}
      BY <1>1, <3>1, SettledNext
    <3>4. /\ preferred' \in [Tenant -> Specialist \cup {None}] /\ preferred'[t] = q.sole
          /\ \A u \in Tenant \ {t} : preferred'[u] = preferred[u]
      BY <2>1, <3>1, <3>2
    <3>5. SpecialistRowsSound'
      BY <2>1, <2>3, <3>1, <3>4
      DEF SpecialistInvariant, SpecialistRowsSound, SpecialistRowsTyped, PreferredAssigned, AttachedThere
    <3>6. ASSUME NEW u \in Tenant, u \notin unsettled' \cup Changed(n)
          PROVE \/ DefaultHolds(u)'
                \/ /\ u \notin unsettled \cup Changed(q)
                   /\ FindSpecialistIDs(u)' = FindSpecialistIDs(u) /\ preferred'[u] = preferred[u]
      <4>1. FindSpecialistIDs(u)' = FindSpecialistIDs(u)
        BY <3>1 DEF FindSpecialistIDs
      <4>2. CASE u = t
        BY <2>1, <2>3, <3>1, <3>4, <4>2 DEF DefaultHolds, FindSpecialistIDs
      <4>3. CASE u # t
        BY <1>1, <3>2, <3>3, <3>4, <3>6, <4>1, <4>3
      <4> QED
        BY <4>2, <4>3
    <3> QED
      BY <3>1, <3>3, <3>5, <3>6, SpecialistStep
  <2> QED
    BY <2>2, <2>3
<1> QED
  BY <1>4, <1>5, <1>6

\* A step about guardrails, by a request that answers for no firm.
LEMMA GuardrailStep ==
  ASSUME SpecialistInvariant, NEW r \in SpecRequest, NEW n \in SpecRecord, Now(r, n), n.phase \notin WorkPhase,
         Changed(specReq[r]) = {}, UNCHANGED <<specialist, assigned, preferred, tools, unsettled>>,
         guardrail' \in [Guardrail -> GuardrailRow \cup {NoRow}], attached' \subseteq SpecialistGuardrailRow, AttachedThere'
  PROVE SpecialistInvariant'
<1>1. Stage(n)
  BY DEF Stage, WorkPhase
<1>2. SpecialistRowsSound'
  BY DEF SpecialistInvariant, SpecialistRowsSound, SpecialistRowsTyped, PreferredAssigned
<1>3. ASSUME NEW t \in Tenant, t \notin unsettled'
      PROVE /\ t \notin unsettled \cup Changed(specReq[r])
            /\ FindSpecialistIDs(t)' = FindSpecialistIDs(t) /\ preferred'[t] = preferred[t]
  BY <1>3 DEF FindSpecialistIDs
<1> HIDE DEF SpecRecord
<1> QED
  BY <1>1, <1>2, <1>3, SpecialistStep

\* The forms of guardrails.
LEMMA GuardrailFormsKeep ==
  ASSUME SpecialistInvariant, NEW r \in SpecRequest, NEW g \in Guardrail,
         \/ \E s \in Specialist \cup {None} : CreateGuardrail(r, s, g)
         \/ ToggleGuardrail(r, g) \/ UpdateGuardrail(r, g)
         \/ HandleAttach(r, g) \/ HandleDetach(r, g) \/ HandleDeleteGuardrail(r, g)
  PROVE SpecialistInvariant'
<1>0. /\ guardrail \in [Guardrail -> GuardrailRow \cup {NoRow}] /\ attached \subseteq SpecialistGuardrailRow
      /\ guardrail[g] # NoRow => guardrail[g] \in GuardrailRow
  BY DEF SpecialistInvariant, SpecialistRowsSound, SpecialistRowsTyped
<1>1. SpecIdle \in SpecRecord /\ SpecIdle.phase = "none" /\ SpecIdle.phase \notin WorkPhase
  BY DEF SpecIdle, SpecRecord, WorkPhase
<1>2. ASSUME NEW s \in Specialist
      PROVE LET n == [phase |-> "attach", spec |-> s, guardrail |-> g]
            IN n \in SpecRecord /\ n.phase \notin WorkPhase
  BY DEF SpecRecord, GuardrailRecord, WorkPhase
<1>3. ASSUME NEW row \in GuardrailRow
      PROVE LET n == [phase |-> "saveGuardrail", guardrail |-> g, row |-> row]
            IN n \in SpecRecord /\ n.phase \notin WorkPhase
  BY DEF SpecRecord, GuardrailRecord, WorkPhase
<1>4. LET n == [phase |-> "count", guardrail |-> g]
      IN n \in SpecRecord /\ n.phase \notin WorkPhase
  BY DEF SpecRecord, GuardrailRecord, WorkPhase
<1> HIDE DEF SpecRecord
<1>5. ASSUME NEW s \in Specialist \cup {None}, CreateGuardrail(r, s, g) PROVE SpecialistInvariant'
  <2> DEFINE n == IF s = None THEN SpecIdle ELSE [phase |-> "attach", spec |-> s, guardrail |-> g]
  <2>1. n \in SpecRecord /\ n.phase \notin WorkPhase
    BY <1>1, <1>2
  <2>2. /\ Now(r, n) /\ Free(r) /\ guardrail' = [guardrail EXCEPT ![g] = NewGuardrail]
        /\ UNCHANGED <<specialist, assigned, preferred, attached, tools, unsettled>>
    BY <1>5 DEF CreateGuardrail
  <2>3. NewGuardrail \in GuardrailRow
    BY DEF NewGuardrail, GuardrailRow
  <2> HIDE DEF n, GuardrailRow
  <2>4. guardrail' \in [Guardrail -> GuardrailRow \cup {NoRow}]
    BY <1>0, <2>2, <2>3
  <2>5. AttachedThere'
    BY <1>0, <2>2, <2>3 DEF SpecialistInvariant, SpecialistRowsSound, AttachedThere, SpecialistGuardrailRow
  <2> QED
    BY <1>0, <2>1, <2>2, <2>4, <2>5, FreeAnswersForNone, GuardrailStep
<1>6. ASSUME NEW n \in SpecRecord, n.phase \notin WorkPhase, Now(r, n), UNCHANGED specRows,
             UNCHANGED unsettled, Changed(specReq[r]) = {}
      PROVE SpecialistInvariant'
  BY <1>6, SpecialistTurns
<1>7. ASSUME NEW row, guardrail[g] # NoRow => row \in GuardrailRow, ChangeGuardrail(r, g, row) PROVE SpecialistInvariant'
  <2>1. Changed(specReq[r]) = {} /\ UNCHANGED specRows /\ UNCHANGED unsettled
    BY <1>7, ShownOnPages DEF ChangeGuardrail, Picked
  <2>2. CASE guardrail[g] = NoRow
    BY <1>1, <1>6, <1>7, <2>1, <2>2 DEF ChangeGuardrail
  <2>3. CASE guardrail[g] # NoRow
    BY <1>3, <1>6, <1>7, <2>1, <2>3 DEF ChangeGuardrail
  <2> QED
    BY <2>2, <2>3
<1>8. CASE ToggleGuardrail(r, g)
  <2>1. guardrail[g] # NoRow => Toggled(guardrail[g]) \in GuardrailRow
    BY <1>0 DEF Toggled, GuardrailRow
  <2> QED
    BY <1>7, <1>8, <2>1 DEF ToggleGuardrail
<1>9. CASE UpdateGuardrail(r, g)
  BY <1>0, <1>7, <1>9 DEF UpdateGuardrail
<1>10. CASE HandleAttach(r, g)
  <2>1. Changed(specReq[r]) = {} /\ specReq[r].spec \in Specialist /\ UNCHANGED specRows /\ UNCHANGED unsettled
    BY <1>10, ShownOnPages DEF HandleAttach
  <2>2. CASE Now(r, SpecIdle)
    BY <1>1, <1>6, <2>1, <2>2
  <2>3. CASE Now(r, [phase |-> "attach", spec |-> specReq[r].spec, guardrail |-> g])
    BY <1>2, <1>6, <2>1, <2>3
  <2> QED
    BY <1>10, <2>2, <2>3 DEF HandleAttach
<1>11. CASE HandleDetach(r, g)
  <2>1. Changed(specReq[r]) = {}
    BY <1>11, ShownOnPages DEF HandleDetach
  <2>2. /\ attached' = attached \ {<<specReq[r].spec, g>>} /\ Now(r, SpecIdle)
        /\ UNCHANGED <<specialist, assigned, preferred, guardrail, tools, unsettled>>
    BY <1>11 DEF HandleDetach
  <2>3. attached' \subseteq SpecialistGuardrailRow /\ AttachedThere'
    BY <1>0, <2>2 DEF SpecialistInvariant, SpecialistRowsSound, AttachedThere
  <2> QED
    BY <1>0, <1>1, <2>1, <2>2, <2>3, GuardrailStep
<1>12. CASE HandleDeleteGuardrail(r, g)
  <2>1. Changed(specReq[r]) = {} /\ UNCHANGED specRows /\ UNCHANGED unsettled
    BY <1>12, ShownOnPages DEF HandleDeleteGuardrail
  <2>2. CASE Now(r, SpecIdle)
    BY <1>1, <1>6, <2>1, <2>2
  <2>3. CASE Now(r, [phase |-> "count", guardrail |-> g])
    BY <1>4, <1>6, <2>1, <2>3
  <2> QED
    BY <1>12, <2>2, <2>3 DEF HandleDeleteGuardrail
<1> QED
  BY <1>5, <1>8, <1>9, <1>10, <1>11, <1>12

\* The statements about guardrails that change the request alone.
LEMMA GuardrailRowsKeep ==
  ASSUME SpecialistInvariant, NEW r \in SpecRequest, SaveGuardrail(r) \/ DeleteGuardrail(r) \/ DropGuardrail(r)
  PROVE SpecialistInvariant'
<1> DEFINE q == specReq[r]
           g == q.guardrail
<1>0. /\ guardrail \in [Guardrail -> GuardrailRow \cup {NoRow}] /\ attached \subseteq SpecialistGuardrailRow
      /\ q \in SpecRecord /\ q.phase \in {"saveGuardrail", "count", "drop"}
  BY DEF SpecialistInvariant, SpecialistRowsSound, SpecialistRowsTyped, SpecRequestsTyped,
         SaveGuardrail, DeleteGuardrail, DropGuardrail
<1>1. /\ Changed(q) = {} /\ g \in Guardrail
      /\ q.phase = "saveGuardrail" => q.row \in GuardrailRow
  BY <1>0, ShapeOfSpecRequest DEF GuardrailRecord, WorkPhase
<1>2. SpecIdle \in SpecRecord /\ SpecIdle.phase = "none" /\ SpecIdle.phase \notin WorkPhase
  BY DEF SpecIdle, SpecRecord, WorkPhase
<1>3. LET n == [phase |-> "drop", guardrail |-> g] IN n \in SpecRecord /\ n.phase \notin WorkPhase
  BY <1>1 DEF SpecRecord, GuardrailRecord, WorkPhase
<1> HIDE DEF SpecRecord
<1>4. CASE SaveGuardrail(r)
  <2>1. /\ guardrail' = IF guardrail[g] = NoRow THEN guardrail ELSE [guardrail EXCEPT ![g] = q.row]
        /\ Now(r, SpecIdle) /\ q.row \in GuardrailRow
        /\ UNCHANGED <<specialist, assigned, preferred, attached, tools, unsettled>>
    BY <1>1, <1>4 DEF SaveGuardrail
  <2>2. guardrail' \in [Guardrail -> GuardrailRow \cup {NoRow}] /\ \A x \in Guardrail : guardrail[x] # NoRow => guardrail'[x] # NoRow
    <3> HIDE DEF GuardrailRow
    <3> QED
      BY <1>0, <1>1, <2>1
  <2>3. AttachedThere'
    BY <1>0, <2>1, <2>2 DEF SpecialistInvariant, SpecialistRowsSound, AttachedThere, SpecialistGuardrailRow
  <2> QED
    BY <1>0, <1>1, <1>2, <2>1, <2>2, <2>3, GuardrailStep
<1>5. CASE DeleteGuardrail(r)
  <2>1. UNCHANGED specRows /\ UNCHANGED unsettled
    BY <1>5 DEF DeleteGuardrail
  <2>2. CASE CountSpecialists(g) > 0
    BY <1>1, <1>2, <1>5, <2>1, <2>2, SpecialistTurns DEF DeleteGuardrail
  <2>3. CASE ~(CountSpecialists(g) > 0)
    BY <1>1, <1>3, <1>5, <2>1, <2>3, SpecialistTurns DEF DeleteGuardrail
  <2> QED
    BY <2>2, <2>3
<1>6. CASE DropGuardrail(r)
  <2>1. /\ guardrail' = [guardrail EXCEPT ![g] = NoRow] /\ attached' = {a \in attached : a[2] # g}
        /\ Now(r, SpecIdle) /\ UNCHANGED <<specialist, assigned, preferred, tools, unsettled>>
    BY <1>6 DEF DropGuardrail
  <2>2. guardrail' \in [Guardrail -> GuardrailRow \cup {NoRow}] /\ \A x \in Guardrail \ {g} : guardrail'[x] = guardrail[x]
    <3> HIDE DEF GuardrailRow
    <3> QED
      BY <1>0, <1>1, <2>1
  <2>3. AttachedThere' /\ attached' \subseteq SpecialistGuardrailRow
    BY <1>0, <2>1, <2>2 DEF SpecialistInvariant, SpecialistRowsSound, AttachedThere, SpecialistGuardrailRow
  <2> QED
    BY <1>1, <1>2, <2>1, <2>2, <2>3, GuardrailStep
<1> QED
  BY <1>4, <1>5, <1>6

\* An attachment.
LEMMA AttachKeeps ==
  ASSUME SpecialistInvariant, NEW r \in SpecRequest, Attach(r)
  PROVE SpecialistInvariant'
<1> DEFINE q == specReq[r]
<1>0. q \in SpecRecord /\ q.phase = "attach"
  BY DEF SpecialistInvariant, SpecRequestsTyped, Attach
<1>1. Changed(q) = {} /\ q.spec \in Specialist /\ q.guardrail \in Guardrail
  BY <1>0, ShapeOfSpecRequest DEF GuardrailRecord, WorkPhase
<1>2. SpecIdle \in SpecRecord /\ SpecIdle.phase \notin WorkPhase
  BY DEF SpecIdle, SpecRecord, WorkPhase
<1>3. /\ Now(r, SpecIdle) /\ UNCHANGED <<specialist, assigned, preferred, guardrail, tools, unsettled>>
      /\ attached' = IF guardrail[q.guardrail] = NoRow THEN attached ELSE attached \cup {<<q.spec, q.guardrail>>}
  BY DEF Attach
<1> HIDE DEF SpecRecord, GuardrailRow
<1>4. /\ guardrail' \in [Guardrail -> GuardrailRow \cup {NoRow}] /\ attached' \subseteq SpecialistGuardrailRow
      /\ AttachedThere'
  BY <1>1, <1>3 DEF SpecialistInvariant, SpecialistRowsSound, SpecialistRowsTyped, AttachedThere, SpecialistGuardrailRow
<1> QED
  BY <1>1, <1>2, <1>3, <1>4, GuardrailStep

\* Every step keeps the invariant.
LEMMA SpecialistInductive == SpecialistInvariant /\ [SpecialistNext]_specVars => SpecialistInvariant'
<1> SUFFICES ASSUME SpecialistInvariant, [SpecialistNext]_specVars PROVE SpecialistInvariant'
  OBVIOUS
<1>1. ASSUME NEW r \in SpecRequest, SpecialistForms(r) \/ TenantForms(r) \/ SpecFails(r) PROVE SpecialistInvariant'
  BY <1>1, SpecialistFormsKeep, PagesKeep, FirmFormsKeep, FirmRowsKeep, DefaultsKeep, SpecialistEnds
  DEF TenantForms, SpecFails
<1>2. ASSUME NEW r \in SpecRequest, GuardrailPages(r) \/ GuardrailForms(r) \/ GuardrailLinks(r) PROVE SpecialistInvariant'
  BY <1>2, PagesKeep, GuardrailFormsKeep DEF GuardrailForms, GuardrailLinks
<1>3. ASSUME NEW r \in SpecRequest, LibraryForms(r) \/ GuardrailStatements(r) PROVE SpecialistInvariant'
  BY <1>3, PagesKeep, GuardrailFormsKeep, GuardrailRowsKeep, AttachKeeps DEF LibraryForms, GuardrailStatements
<1>4. CASE UNCHANGED specVars
  BY <1>4 DEF specVars, specRows, SpecialistInvariant, SpecialistRowsSound, SpecialistRowsTyped, PreferredAssigned,
              AttachedThere, SpecRequestsTyped, Stage, SoleIsDefault, Busy, FindSpecialistIDs
<1> QED
  BY <1>1, <1>2, <1>3, <1>4, AloneKeeps DEF SpecialistNext

\* Every specialist, row and request is what the program can hold.
LEMMA SpecialistsTyped == SpecialistInvariant => SpecialistTypeOK
BY ShapeOfSpecRequest
DEF SpecialistInvariant, SpecialistRowsSound, SpecialistRowsTyped, PreferredAssigned, AttachedThere, SpecRequestsTyped,
    SpecialistTypeOK

LEMMA SpecialistBegins == SpecialistInit => SpecialistInvariant
<1> SUFFICES ASSUME SpecialistInit PROVE SpecialistInvariant
  OBVIOUS
<1>1. SpecialistRowsSound
  <2> HIDE DEF SpecialistRow, GuardrailRow
  <2> QED
    BY DEF SpecialistInit, SpecialistRowsSound, SpecialistRowsTyped, PreferredAssigned, AttachedThere
<1>2. SpecRequestsTyped
  BY DEF SpecialistInit, SpecRequestsTyped, SpecIdle, SpecRecord, Stage
<1>3. \A t \in Tenant : FindSpecialistIDs(t) = {}
  BY DEF SpecialistInit, FindSpecialistIDs
<1>4. SoleIsDefault
  BY <1>3, FS_EmptySet DEF SoleIsDefault
<1> QED
  BY <1>1, <1>2, <1>4 DEF SpecialistInvariant

\* A firm that is served by one specialist is answered by that one once no
\* request is between the change of its rows and the last statement about
\* them, for any number of firms, specialists and overlapping requests, unless
\* one failed there (ensure_tenant_default.go:19, sync_specialist_tenants.go:104-127).
THEOREM SoleStaysDefault == SpecialistSpec => [](SpecialistTypeOK /\ SoleIsDefault)
<1>1. SpecialistInvariant => SpecialistTypeOK /\ SoleIsDefault
  BY SpecialistsTyped DEF SpecialistInvariant
<1> QED
  BY <1>1, SpecialistBegins, SpecialistInductive, PTL DEF SpecialistSpec

-----------------------------------------------------------------------------
(* Rows in order.                                                          *)

\* One number each, from 1 on; and the same with one number missing.
Apart(rows, ids) == \A x, y \in ids : rows[x].order = rows[y].order => x = y
Ranked(rows, ids) == Apart(rows, ids) /\ Orders(rows, ids) = 1..Cardinality(ids)
Gap(rows, ids, o) ==
  /\ Apart(rows, ids)
  /\ o \in 1..(Cardinality(ids) + 1)
  /\ Orders(rows, ids) = (1..(Cardinality(ids) + 1)) \ {o}

\* The last number is the count.
LEMMA LastIsCount ==
  ASSUME NEW ids, IsFiniteSet(ids), NEW rows, Ranked(rows, ids)
  PROVE Max({rows[x].order : x \in ids} \cup {0}) = Cardinality(ids)
<1>1. Cardinality(ids) \in Nat
  BY FS_CardinalityType
<1> DEFINE n == Cardinality(ids)
           S == {rows[x].order : x \in ids} \cup {0}
<1>2. S = 0..n
  <2>1. {rows[x].order : x \in ids} = 1..n
    BY DEF Ranked, Orders
  <2> HIDE DEF n
  <2> QED
    BY <1>1, <2>1 DEF n
<1>3. n \in S /\ \A y \in S : n >= y
  BY <1>1, <1>2
<1>4. \A x \in S : (\A y \in S : x >= y) => x = n
  BY <1>1, <1>2
<1> HIDE DEF n, S
<1>5. Max(S) = n
  BY <1>3, <1>4 DEF Max
<1> QED
  BY <1>5 DEF n, S

\* Rows that keep their numbers, or exchange two of them.
LEMMA SameRanked ==
  ASSUME NEW ids, NEW rows, NEW next, Ranked(rows, ids), \A x \in ids : next[x].order = rows[x].order
  PROVE Ranked(next, ids)
BY DEF Ranked, Apart, Orders
LEMMA SwapRanked ==
  ASSUME NEW ids, NEW rows, NEW next, Ranked(rows, ids), NEW a \in ids, NEW b \in ids,
         next[a].order = rows[b].order, next[b].order = rows[a].order,
         \A x \in ids \ {a, b} : next[x].order = rows[x].order
  PROVE Ranked(next, ids)
<1>1. Apart(next, ids)
  BY DEF Ranked, Apart
<1>2. Orders(next, ids) = Orders(rows, ids)
  <2>1. ASSUME NEW x \in ids PROVE next[x].order \in Orders(rows, ids)
    BY DEF Orders
  <2>2. ASSUME NEW y \in ids PROVE rows[y].order \in Orders(next, ids)
    BY DEF Orders
  <2> QED
    BY <2>1, <2>2 DEF Orders
<1> QED
  BY <1>1, <1>2 DEF Ranked

\* One more, with the next number.
LEMMA AddRanked ==
  ASSUME NEW ids, IsFiniteSet(ids), NEW rows, NEW next, Ranked(rows, ids), NEW a, a \notin ids,
         next[a].order = Cardinality(ids) + 1, \A x \in ids : next[x].order = rows[x].order
  PROVE Ranked(next, ids \cup {a})
<1> DEFINE n == Cardinality(ids)
<1>1. n \in Nat /\ Cardinality(ids \cup {a}) = n + 1
  BY FS_CardinalityType, FS_AddElement
<1>2. \A x \in ids : rows[x].order \in 1..n
  BY DEF Ranked, Orders
<1>3. Apart(next, ids \cup {a})
  BY <1>1, <1>2 DEF Ranked, Apart
<1>4. Orders(next, ids \cup {a}) = Orders(rows, ids) \cup {n + 1}
  BY DEF Orders
<1>5. Orders(rows, ids) = 1..n
  BY DEF Ranked
<1> HIDE DEF n
<1>6. (1..n) \cup {n + 1} = 1..(n + 1)
  <2> SUFFICES ASSUME NEW k PROVE k \in (1..n) \cup {n + 1} <=> k \in 1..(n + 1)
    OBVIOUS
  <2> QED
    BY <1>1
<1>7. Orders(next, ids \cup {a}) = 1..(n + 1)
  BY <1>4, <1>5, <1>6, Zenon
<1>8. 1..Cardinality(ids \cup {a}) = 1..(n + 1)
  BY <1>1, Zenon
<1> QED
  BY <1>3, <1>7, <1>8, Zenon DEF Ranked

\* One less leaves a gap.
LEMMA DropLeavesGap ==
  ASSUME NEW ids, IsFiniteSet(ids), NEW rows, NEW next, Ranked(rows, ids), NEW a \in ids,
         \A x \in ids \ {a} : next[x].order = rows[x].order
  PROVE Gap(next, ids \ {a}, rows[a].order)
<1> DEFINE n == Cardinality(ids)
           o == rows[a].order
<1>1. n \in Nat /\ Cardinality(ids \ {a}) = n - 1
  BY FS_CardinalityType, FS_RemoveElement
<1>2. o \in 1..n /\ Orders(rows, ids) = 1..n
  BY DEF Ranked, Orders
<1>3. Apart(next, ids \ {a})
  BY DEF Ranked, Apart
<1>4. Orders(next, ids \ {a}) = Orders(rows, ids) \ {o}
  BY DEF Ranked, Apart, Orders
<1>5. Cardinality(ids \ {a}) + 1 = n
  BY <1>1
<1> HIDE DEF n
<1> QED
  BY <1>2, <1>3, <1>4, <1>5 DEF Gap

\* Closing it puts the rows in order again.
LEMMA CloseRanked ==
  ASSUME NEW ids, IsFiniteSet(ids), NEW rows, NEW next, NEW o, Gap(rows, ids, o),
         \A x \in ids : next[x].order = CloseGap(rows[x], o)
  PROVE Ranked(next, ids)
<1> DEFINE n == Cardinality(ids)
<1>1. n \in Nat
  BY FS_CardinalityType
<1>2. o \in 1..(n + 1) /\ Orders(rows, ids) = (1..(n + 1)) \ {o} /\ Apart(rows, ids)
  BY DEF Gap
<1> HIDE DEF n
<1>3. \A x \in ids : rows[x].order \in (1..(n + 1)) \ {o}
  BY <1>2 DEF Orders
<1>4. \A x \in ids : next[x].order = IF rows[x].order > o THEN rows[x].order - 1 ELSE rows[x].order
  BY DEF CloseGap
<1>5. Apart(next, ids)
  <2> SUFFICES ASSUME NEW x \in ids, NEW y \in ids, next[x].order = next[y].order PROVE x = y
    BY DEF Apart
  <2>1. rows[x].order = rows[y].order
    BY <1>1, <1>2, <1>3, <1>4
  <2> QED
    BY <1>2, <2>1 DEF Apart
<1>6. Orders(next, ids) \subseteq 1..n
  <2> SUFFICES ASSUME NEW x \in ids PROVE next[x].order \in 1..n
    BY DEF Orders
  <2> QED
    BY <1>1, <1>2, <1>3, <1>4
<1>7. ASSUME NEW k \in 1..n PROVE k \in Orders(next, ids)
  <2> DEFINE j == IF k < o THEN k ELSE k + 1
  <2>1. j \in (1..(n + 1)) \ {o}
    BY <1>1, <1>2
  <2>2. PICK x \in ids : rows[x].order = j
    BY <1>2, <2>1 DEF Orders
  <2>3. next[x].order = k
    BY <1>1, <1>2, <1>4, <2>2
  <2> QED
    BY <2>3 DEF Orders
<1>8. Orders(next, ids) = 1..n
  BY <1>1, <1>6, <1>7
<1> QED
  BY <1>5, <1>8 DEF Ranked, n

-----------------------------------------------------------------------------
(* Scripts.  As long as no write met a request that had read before it,    *)
(* what a request carries is what the rows still hold.                     *)

HIDE SpecialistAssumption
USE ScriptAssumption

StepRecord ==
  [phase : {"max"}, order : Int]
    \cup [phase : {"saveStep", "delete", "reorder"}, id : Step, row : StepRow]
    \cup [phase : {"list"}, id : Step, order : Int, dir : {"up", "down"}]
    \cup [phase : {"swap"}, id : Step, order : Int, neighbor : Step, its : Int]
RuleRecord ==
  [phase : {"insertRule"}, order : Nat]
    \cup [phase : {"saveRule", "deleteRule"}, id : Rule, row : RuleRow]
    \cup [phase : {"listRules"}, id : Rule, row : RuleRow, dir : {"up", "down"}]
    \cup [phase : {"saveNeighbor"}, id : Rule, row : RuleRow, neighbor : Rule, its : RuleRow]
ScriptRequestTyped(q) ==
  \/ q = ScriptIdle
  \/ q \in StepRecord \cup RuleRecord
  \/ q.phase \in ScoringPhase /\ q.form \in ScoringRow

ScriptTyped ==
  /\ step \in [Step -> StepRow \cup {NoRow}]
  /\ scoring \in ScoringRow \cup {NoRow}
  /\ rule \in [Rule -> RuleRow \cup {NoRow}]
  /\ DOMAIN scriptReq = ScriptRequest
  /\ \A r \in ScriptRequest : ScriptRequestTyped(scriptReq[r])
  /\ stepsRaced \in BOOLEAN /\ rulesRaced \in BOOLEAN /\ ruleDeleted \in BOOLEAN

\* What a request read of the steps is what they hold.
StepCurrent(q) ==
  /\ q.phase = "max" => q.order = Max({step[x].order : x \in FindSteps} \cup {0}) + 1
  /\ q.phase \in {"saveStep", "delete"} => q.row = step[q.id]
  /\ q.phase = "list" => step[q.id] # NoRow /\ q.order = step[q.id].order
  /\ q.phase = "swap" => /\ step[q.id] # NoRow /\ q.order = step[q.id].order
                         /\ step[q.neighbor] # NoRow /\ q.its = step[q.neighbor].order
  /\ q.phase = "reorder" => Gap(step, FindSteps, q.row.order)
StepsInvariant ==
  ~stepsRaced =>
    /\ (\A r \in ScriptRequest : ~At(r, "reorder")) => Ranked(step, FindSteps)
    /\ \A r \in ScriptRequest : StepCurrent(scriptReq[r])

\* The second save of an exchange is what puts the rules in order again.
Completes(q) ==
  q.phase = "saveRule" /\ rule[q.id] # NoRow /\ Ranked([rule EXCEPT ![q.id] = q.row], FindRules)
RuleCurrent(q) ==
  /\ q.phase = "insertRule" => q.order = Cardinality(FindRules) + 1
  /\ q.phase = "saveRule" => Completes(q) \/ (rule[q.id] # NoRow /\ q.row.order = rule[q.id].order)
  /\ q.phase = "listRules" => q.row = rule[q.id]
  /\ q.phase = "saveNeighbor" => q.row = rule[q.id] /\ q.its = rule[q.neighbor] /\ q.id # q.neighbor
RulesInvariant ==
  ~rulesRaced /\ ~ruleDeleted =>
    /\ Ranked(rule, FindRules) \/ \E r \in ScriptRequest : Completes(scriptReq[r])
    /\ \A r \in ScriptRequest : RuleCurrent(scriptReq[r])
ScriptInvariant == ScriptTyped /\ StepsInvariant /\ RulesInvariant

\* The fields of a request at each step of its code.
LEMMA ShapeOfScriptRequest ==
  ASSUME NEW q, ScriptRequestTyped(q)
  PROVE /\ q.phase \in {"none"} \cup StepPhase \cup RulePhase \cup ScoringPhase
        /\ q.phase = "max" => q.order \in Int
        /\ q.phase \in {"saveStep", "delete", "reorder"} =>
             /\ q \in [phase : {"saveStep", "delete", "reorder"}, id : Step, row : StepRow]
             /\ q.id \in Step /\ q.row \in StepRow
        /\ q.phase = "list" => q.id \in Step /\ q.order \in Int
        /\ q.phase = "swap" => q.id \in Step /\ q.order \in Int /\ q.neighbor \in Step /\ q.its \in Int
        /\ q.phase = "insertRule" => q.order \in Nat
        /\ q.phase \in {"saveRule", "deleteRule", "listRules", "saveNeighbor"} => q.id \in Rule /\ q.row \in RuleRow
        /\ q.phase = "saveNeighbor" => q.neighbor \in Rule /\ q.its \in RuleRow
        /\ q.phase \in ScoringPhase => q.form \in ScoringRow
<1> HIDE DEF StepRow, RuleRow, ScoringRow
<1>1. CASE q = ScriptIdle
  BY <1>1 DEF ScriptIdle, ScoringPhase
<1>2. CASE q \in StepRecord
  BY <1>2 DEF StepRecord, StepPhase, ScoringPhase
<1>3. CASE q \in RuleRecord
  BY <1>3 DEF RuleRecord, RulePhase, ScoringPhase
<1>4. CASE q.phase \in ScoringPhase /\ q.form \in ScoringRow
  BY <1>4 DEF ScoringPhase
<1> QED
  BY <1>1, <1>2, <1>3, <1>4 DEF ScriptRequestTyped

\* The steps and rules there are.
LEMMA ScriptRowsThere ==
  ASSUME ScriptTyped
  PROVE /\ FindSteps \subseteq Step /\ IsFiniteSet(FindSteps)
        /\ \A x \in FindSteps : step[x] \in StepRow /\ step[x].order \in Int
        /\ FindRules \subseteq Rule /\ IsFiniteSet(FindRules)
        /\ \A x \in FindRules : rule[x] \in RuleRow /\ rule[x].order \in Nat
<1>1. FindSteps \subseteq Step /\ FindRules \subseteq Rule
  BY DEF FindSteps, FindRules
<1>2. IsFiniteSet(FindSteps) /\ IsFiniteSet(FindRules)
  BY <1>1, FS_Subset
<1>3. (\A x \in FindSteps : step[x] \in StepRow) /\ (\A x \in FindRules : rule[x] \in RuleRow)
  <2> HIDE DEF StepRow, RuleRow
  <2> QED
    BY DEF ScriptTyped, FindSteps, FindRules
<1>4. (\A row \in StepRow : row.order \in Int) /\ (\A row \in RuleRow : row.order \in Nat)
  BY DEF StepRow, RuleRow
<1> QED
  BY <1>1, <1>2, <1>3, <1>4

\* One request moves and the others stay.
LEMMA ScriptMoves ==
  ASSUME ScriptTyped, NEW r \in ScriptRequest, NEW n, Goes(r, n)
  PROVE /\ DOMAIN scriptReq' = ScriptRequest /\ scriptReq'[r] = n
        /\ \A o \in ScriptRequest \ {r} : scriptReq'[o] = scriptReq[o]
BY DEF ScriptTyped, Goes
LEMMA ScriptTypes ==
  ASSUME ScriptTyped, NEW r \in ScriptRequest, NEW n, Goes(r, n), ScriptRequestTyped(n),
         step' \in [Step -> StepRow \cup {NoRow}], scoring' \in ScoringRow \cup {NoRow},
         rule' \in [Rule -> RuleRow \cup {NoRow}],
         stepsRaced' \in BOOLEAN, rulesRaced' \in BOOLEAN, ruleDeleted' \in BOOLEAN
  PROVE ScriptTyped'
<1>1. \A o \in ScriptRequest : ScriptRequestTyped(scriptReq'[o])
  BY ScriptMoves DEF ScriptTyped
<1> HIDE DEF StepRow, RuleRow, ScoringRow
<1> QED
  BY <1>1, ScriptMoves DEF ScriptTyped, ScriptRequestTyped

\* A request reads the steps, or does without them.
LEMMA StepsRead ==
  ASSUME ScriptTyped, StepsInvariant, NEW r \in ScriptRequest, NEW n, Goes(r, n), step' = step,
         stepsRaced' = stepsRaced, ~At(r, "reorder"), n.phase # "reorder", ~stepsRaced => StepCurrent(n)
  PROVE StepsInvariant'
<1> SUFFICES ASSUME ~stepsRaced
             PROVE /\ (\A o \in ScriptRequest : ~At(o, "reorder"))' => Ranked(step, FindSteps)'
                   /\ \A o \in ScriptRequest : StepCurrent(scriptReq[o])'
  BY DEF StepsInvariant
<1>1. FindSteps' = FindSteps
  BY DEF FindSteps
<1>2. ASSUME NEW o \in ScriptRequest PROVE StepCurrent(scriptReq[o])'
  <2>1. CASE o = r
    <3>1. StepCurrent(n) /\ scriptReq'[o] = n
      BY <2>1, ScriptMoves
    <3> QED
      BY <1>1, <3>1 DEF StepCurrent
  <2>2. CASE o # r
    <3>1. StepCurrent(scriptReq[o]) /\ scriptReq'[o] = scriptReq[o]
      BY <2>2, ScriptMoves DEF StepsInvariant
    <3> QED
      BY <1>1, <3>1 DEF StepCurrent
  <2> QED
    BY <2>1, <2>2
<1>3. ASSUME \A o \in ScriptRequest : ~At(o, "reorder")' PROVE Ranked(step', FindSteps')
  <2>1. \A o \in ScriptRequest : ~At(o, "reorder")
    BY <1>3, ScriptMoves DEF At
  <2> QED
    BY <1>1, <2>1 DEF StepsInvariant
<1> QED
  BY <1>2, <1>3

\* A request writes the steps: either no other had read them, or it is a race.
LEMMA StepsWritten ==
  ASSUME ScriptTyped, StepsInvariant, NEW r \in ScriptRequest, NEW n, Goes(r, n), WritesSteps(r),
         ~stepsRaced /\ ~Others(r, StepPhase) =>
           \/ n.phase = "none" /\ Ranked(step', FindSteps')
           \/ n.phase = "reorder" /\ Gap(step', FindSteps', n.row.order)
  PROVE StepsInvariant'
<1> SUFFICES ASSUME ~stepsRaced' PROVE StepsInvariant'
  BY DEF StepsInvariant
<1>1. ~stepsRaced /\ ~Others(r, StepPhase)
  BY DEF WritesSteps
<1>2. \A o \in ScriptRequest \ {r} : scriptReq'[o].phase \notin StepPhase
  BY <1>1, ScriptMoves DEF Others
<1>3. ASSUME NEW o \in ScriptRequest PROVE StepCurrent(scriptReq[o])'
  <2>1. CASE o = r
    BY <1>1, <2>1, ScriptMoves DEF StepCurrent
  <2>2. CASE o # r
    BY <1>2, <2>2 DEF StepCurrent, StepPhase
  <2> QED
    BY <2>1, <2>2
<1>4. (\A o \in ScriptRequest : ~At(o, "reorder"))' => Ranked(step, FindSteps)'
  BY <1>1, ScriptMoves DEF At
<1> QED
  BY <1>3, <1>4 DEF StepsInvariant

\* A request reads the rules, or does without them.
LEMMA RulesRead ==
  ASSUME ScriptTyped, RulesInvariant, NEW r \in ScriptRequest, NEW n, Goes(r, n), rule' = rule,
         rulesRaced' = rulesRaced, ruleDeleted' = ruleDeleted, ~At(r, "saveRule"),
         ~rulesRaced /\ ~ruleDeleted => RuleCurrent(n)
  PROVE RulesInvariant'
<1> SUFFICES ASSUME ~rulesRaced, ~ruleDeleted
             PROVE /\ Ranked(rule, FindRules)' \/ \E o \in ScriptRequest : Completes(scriptReq[o])'
                   /\ \A o \in ScriptRequest : RuleCurrent(scriptReq[o])'
  BY DEF RulesInvariant
<1>1. FindRules' = FindRules
  BY DEF FindRules
<1>2. ASSUME NEW q PROVE (Completes(q) => Completes(q)') /\ (RuleCurrent(q) => RuleCurrent(q)')
  BY <1>1 DEF Completes, RuleCurrent
<1>3. ASSUME NEW o \in ScriptRequest PROVE RuleCurrent(scriptReq[o])'
  <2>1. CASE o = r
    <3>1. RuleCurrent(n) /\ scriptReq'[o] = n
      BY <2>1, ScriptMoves
    <3> QED
      BY <1>1, <3>1 DEF RuleCurrent, Completes
  <2>2. CASE o # r
    <3>1. RuleCurrent(scriptReq[o]) /\ scriptReq'[o] = scriptReq[o]
      BY <2>2, ScriptMoves DEF RulesInvariant
    <3> QED
      BY <1>1, <3>1 DEF RuleCurrent, Completes
  <2> QED
    BY <2>1, <2>2
<1>4. ASSUME NEW o \in ScriptRequest, Completes(scriptReq[o]) PROVE Completes(scriptReq[o])'
  <2>1. o # r
    BY <1>4 DEF Completes, At
  <2>2. scriptReq'[o] = scriptReq[o]
    BY <2>1, ScriptMoves
  <2> QED
    BY <1>1, <1>4, <2>2 DEF Completes
<1>5. Ranked(rule, FindRules)' \/ \E o \in ScriptRequest : Completes(scriptReq[o])'
  <2>1. CASE Ranked(rule, FindRules)
    BY <1>1, <2>1
  <2>2. CASE \E o \in ScriptRequest : Completes(scriptReq[o])
    BY <1>4, <2>2
  <2> QED
    BY <2>1, <2>2 DEF RulesInvariant
<1> QED
  BY <1>3, <1>5

\* A request writes the rules: either no other had read them, or it is a race.
LEMMA RulesWritten ==
  ASSUME ScriptTyped, RulesInvariant, NEW r \in ScriptRequest, NEW n, Goes(r, n), WritesRules(r),
         ~rulesRaced /\ ~ruleDeleted' /\ ~Others(r, RulePhase) =>
           \/ n.phase = "none" /\ Ranked(rule', FindRules')
           \/ Completes(n)'
  PROVE RulesInvariant'
<1> SUFFICES ASSUME ~rulesRaced', ~ruleDeleted' PROVE RulesInvariant'
  BY DEF RulesInvariant
<1>1. ~rulesRaced /\ ~Others(r, RulePhase)
  BY DEF WritesRules
<1>2. \A o \in ScriptRequest \ {r} : scriptReq'[o].phase \notin RulePhase
  BY <1>1, ScriptMoves DEF Others
<1>3. scriptReq'[r] = n
  BY ScriptMoves
<1>4. ASSUME NEW o \in ScriptRequest PROVE RuleCurrent(scriptReq[o])'
  <2>1. CASE o = r
    <3>1. CASE n.phase = "none"
      BY <1>3, <2>1, <3>1 DEF RuleCurrent
    <3>2. CASE Completes(n)'
      <4>1. Completes(scriptReq[o])'
        BY <1>3, <2>1, <3>2 DEF Completes
      <4>2. scriptReq'[o].phase = "saveRule"
        BY <4>1 DEF Completes
      <4> QED
        BY <4>1, <4>2 DEF RuleCurrent
    <3> QED
      BY <1>1, <3>1, <3>2
  <2>2. CASE o # r
    BY <1>2, <2>2 DEF RuleCurrent, RulePhase
  <2> QED
    BY <2>1, <2>2
<1>5. Ranked(rule, FindRules)' \/ \E o \in ScriptRequest : Completes(scriptReq[o])'
  <2>1. CASE Completes(n)'
    BY <1>3, <2>1 DEF Completes
  <2> QED
    BY <1>1, <2>1
<1> QED
  BY <1>4, <1>5 DEF RulesInvariant

\* Of all that may be read next to a row, none is the row itself.
LEMMA NeighborIsAnother ==
  ASSUME NEW rows, NEW ids, IsFiniteSet(ids), NEW x, NEW dir, NEW n \in Neighbors(rows, ids, x, dir)
  PROVE n \in ids /\ n # x
<1>0. Cardinality(ids) \in Nat
  BY FS_CardinalityType
<1>1. PICK q \in Sorted(rows, ids) :
        LET at == IF Position(q, x) = {} THEN 0 ELSE CHOOSE i \in Position(q, x) : TRUE
            to == IF dir = "up" THEN at - 1 ELSE at + 1
        IN to \in DOMAIN q /\ n = q[to]
  BY DEF Neighbors
<1> DEFINE at == IF Position(q, x) = {} THEN 0 ELSE CHOOSE i \in Position(q, x) : TRUE
           to == IF dir = "up" THEN at - 1 ELSE at + 1
<1>2. to \in DOMAIN q /\ n = q[to]
  BY <1>1
<1>3. /\ q \in [1..Cardinality(ids) -> ids] /\ DOMAIN q = 1..Cardinality(ids)
      /\ \A i, j \in 1..Cardinality(ids) : i < j => q[i] # q[j]
  BY DEF Sorted
<1>4. CASE Position(q, x) = {}
  BY <1>2, <1>3, <1>4 DEF Position
<1>5. CASE Position(q, x) # {}
  <2>1. at \in Position(q, x)
    BY <1>5
  <2> HIDE DEF at
  <2>2. at \in 1..Cardinality(ids) /\ q[at] = x
    BY <1>3, <2>1 DEF Position
  <2>3. to # at /\ to \in 1..Cardinality(ids)
    BY <1>0, <1>2, <1>3, <2>2
  <2>4. q[to] # q[at]
    BY <1>0, <1>3, <2>2, <2>3
  <2> QED
    BY <1>2, <1>3, <2>2, <2>4
<1> QED
  BY <1>4, <1>5

-----------------------------------------------------------------------------
(* Each kind of step.                                                      *)

\* A request that reads.
LEMMA ScriptReads ==
  ASSUME ScriptInvariant, NEW r \in ScriptRequest, NEW n, Reads(r, n), ScriptRequestTyped(n),
         ~At(r, "reorder"), ~At(r, "saveRule"), n.phase # "reorder",
         ~stepsRaced => StepCurrent(n), ~rulesRaced /\ ~ruleDeleted => RuleCurrent(n)
  PROVE ScriptInvariant'
<1>1. /\ Goes(r, n) /\ step' = step /\ scoring' = scoring /\ rule' = rule
      /\ stepsRaced' = stepsRaced /\ rulesRaced' = rulesRaced /\ ruleDeleted' = ruleDeleted
  BY DEF Reads, Quiet, scriptRows
<1>2. ScriptTyped'
  <2> HIDE DEF StepRow, RuleRow, ScoringRow
  <2>1. ScriptTyped
    BY DEF ScriptInvariant
  <2>2. /\ step \in [Step -> StepRow \cup {NoRow}] /\ scoring \in ScoringRow \cup {NoRow}
        /\ rule \in [Rule -> RuleRow \cup {NoRow}]
        /\ stepsRaced \in BOOLEAN /\ rulesRaced \in BOOLEAN /\ ruleDeleted \in BOOLEAN
    BY <2>1 DEF ScriptTyped
  <2> QED
    BY <1>1, <2>1, <2>2, ScriptTypes
<1>3. StepsInvariant'
  BY <1>1, StepsRead DEF ScriptInvariant
<1>4. RulesInvariant'
  BY <1>1, RulesRead DEF ScriptInvariant
<1> QED
  BY <1>2, <1>3, <1>4 DEF ScriptInvariant

\* What does not carry steps, and what does not carry rules.
LEMMA NothingCarried ==
  ASSUME NEW q
  PROVE /\ q.phase \notin {"max", "saveStep", "delete", "list", "swap", "reorder"} => StepCurrent(q)
        /\ q.phase \notin {"insertRule", "saveRule", "listRules", "saveNeighbor"} => RuleCurrent(q)
BY DEF StepCurrent, RuleCurrent

\* A request that writes the steps.
LEMMA ScriptWritesSteps ==
  ASSUME ScriptInvariant, NEW r \in ScriptRequest, NEW n, Goes(r, n), WritesSteps(r), ScriptRequestTyped(n),
         step' \in [Step -> StepRow \cup {NoRow}], ~At(r, "saveRule"), n.phase \in {"none", "reorder"},
         ~stepsRaced /\ ~Others(r, StepPhase) =>
           \/ n.phase = "none" /\ Ranked(step', FindSteps')
           \/ n.phase = "reorder" /\ Gap(step', FindSteps', n.row.order)
  PROVE ScriptInvariant'
<1>1. /\ scoring' = scoring /\ rule' = rule /\ rulesRaced' = rulesRaced /\ ruleDeleted' = ruleDeleted
      /\ stepsRaced' = (stepsRaced \/ Others(r, StepPhase))
  BY DEF WritesSteps
<1>2. ScriptTyped'
  <2> HIDE DEF StepRow, RuleRow, ScoringRow
  <2>1. ScriptTyped
    BY DEF ScriptInvariant
  <2>2. /\ scoring' \in ScoringRow \cup {NoRow} /\ rule' \in [Rule -> RuleRow \cup {NoRow}]
        /\ rulesRaced' \in BOOLEAN /\ ruleDeleted' \in BOOLEAN
    BY <1>1, <2>1 DEF ScriptTyped
  <2>3. stepsRaced' \in BOOLEAN
    BY <1>1
  <2> QED
    BY <2>1, <2>2, <2>3, ScriptTypes
<1>3. StepsInvariant'
  BY StepsWritten DEF ScriptInvariant
<1>4. RuleCurrent(n)
  BY NothingCarried
<1>5. RulesInvariant'
  BY <1>1, <1>4, RulesRead DEF ScriptInvariant
<1> QED
  BY <1>2, <1>3, <1>5 DEF ScriptInvariant

\* A request that writes the rules.
LEMMA ScriptWritesRules ==
  ASSUME ScriptInvariant, NEW r \in ScriptRequest, NEW n, Goes(r, n), WritesRules(r), ScriptRequestTyped(n),
         rule' \in [Rule -> RuleRow \cup {NoRow}], ruleDeleted' \in BOOLEAN,
         ~At(r, "reorder"), n.phase \in {"none", "saveRule"},
         ~rulesRaced /\ ~ruleDeleted' /\ ~Others(r, RulePhase) =>
           \/ n.phase = "none" /\ Ranked(rule', FindRules')
           \/ Completes(n)'
  PROVE ScriptInvariant'
<1>1. /\ scoring' = scoring /\ step' = step /\ stepsRaced' = stepsRaced
      /\ rulesRaced' = (rulesRaced \/ Others(r, RulePhase))
  BY DEF WritesRules
<1>2. ScriptTyped'
  <2> HIDE DEF StepRow, RuleRow, ScoringRow
  <2>1. ScriptTyped
    BY DEF ScriptInvariant
  <2>2. /\ scoring' \in ScoringRow \cup {NoRow} /\ step' \in [Step -> StepRow \cup {NoRow}]
        /\ stepsRaced' \in BOOLEAN
    BY <1>1, <2>1 DEF ScriptTyped
  <2>3. rulesRaced' \in BOOLEAN
    BY <1>1
  <2> QED
    BY <2>1, <2>2, <2>3, ScriptTypes
<1>3. RulesInvariant'
  BY RulesWritten DEF ScriptInvariant
<1>4. StepCurrent(n)
  BY NothingCarried
<1>5. StepsInvariant'
  BY <1>1, <1>4, StepsRead DEF ScriptInvariant
<1> QED
  BY <1>2, <1>3, <1>5 DEF ScriptInvariant

\* Whoever writes alone finds the steps in order, or with the gap it left.
LEMMA AloneWithSteps ==
  ASSUME ScriptInvariant, NEW r \in ScriptRequest, ~stepsRaced, ~Others(r, StepPhase)
  PROVE /\ ~At(r, "reorder") => Ranked(step, FindSteps)
        /\ StepCurrent(scriptReq[r])
<1>1. \A o \in ScriptRequest \ {r} : ~At(o, "reorder")
  BY DEF Others, At, StepPhase
<1> QED
  BY <1>1 DEF ScriptInvariant, StepsInvariant
LEMMA AloneWithRules ==
  ASSUME ScriptInvariant, NEW r \in ScriptRequest, ~rulesRaced, ~ruleDeleted, ~Others(r, RulePhase)
  PROVE /\ Ranked(rule, FindRules) \/ Completes(scriptReq[r])
        /\ RuleCurrent(scriptReq[r])
<1>1. \A o \in ScriptRequest \ {r} : ~Completes(scriptReq[o])
  BY DEF Others, Completes, RulePhase
<1> QED
  BY <1>1 DEF ScriptInvariant, RulesInvariant

\* What a request at a given step of its code holds.
LEMMA ScriptRequestHolds ==
  ASSUME ScriptInvariant, NEW r \in ScriptRequest
  PROVE ScriptTyped /\ ScriptRequestTyped(scriptReq[r])
BY DEF ScriptInvariant, ScriptTyped

LEMMA CreateStepKeeps ==
  ASSUME ScriptInvariant, NEW r \in ScriptRequest, CreateStep(r)
  PROVE ScriptInvariant'
<1> DEFINE m == Max({step[x].order : x \in FindSteps} \cup {0})
<1>1. m \in Nat
  BY ScriptRowsThere, GreatestOrder DEF ScriptInvariant
<1>2. PICK k : k = m
  OBVIOUS
<1>3. PICK n : n = [phase |-> "max", order |-> k + 1]
  OBVIOUS
<1>4. Reads(r, n) /\ At(r, "none")
  BY <1>2, <1>3 DEF CreateStep
<1>5. k + 1 \in Int /\ n.phase = "max" /\ n.order = k + 1
  BY <1>1, <1>2, <1>3
<1>6. ScriptRequestTyped(n)
  BY <1>3, <1>5 DEF ScriptRequestTyped, StepRecord
<1>7. StepCurrent(n) /\ RuleCurrent(n)
  BY <1>2, <1>5 DEF StepCurrent, RuleCurrent
<1> HIDE DEF m
<1> QED
  BY <1>4, <1>5, <1>6, <1>7, ScriptReads DEF At

LEMMA InsertStepKeeps ==
  ASSUME ScriptInvariant, NEW r \in ScriptRequest, NEW x \in Step, NEW score \in StepScore, InsertStep(r, x, score)
  PROVE ScriptInvariant'
<1>1. PICK q : q = scriptReq[r]
  OBVIOUS
<1>2. PICK row : row = NewStep(q.order, score)
  OBVIOUS
<1>3. /\ q.phase = "max" /\ step[x] = NoRow /\ step' = [step EXCEPT ![x] = row]
      /\ WritesSteps(r) /\ Goes(r, ScriptIdle) /\ At(r, "max")
  BY <1>1, <1>2 DEF InsertStep, At
<1>4. q.order \in Int
  BY <1>1, <1>3, ScriptRequestHolds, ShapeOfScriptRequest
<1>5. row \in StepRow /\ row.order = q.order
  BY <1>2, <1>4 DEF NewStep, StepRow
<1> HIDE DEF StepRow, RuleRow
<1>6. step \in [Step -> StepRow \cup {NoRow}] /\ ScriptTyped
  BY DEF ScriptInvariant, ScriptTyped
<1>7. step' \in [Step -> StepRow \cup {NoRow}]
  BY <1>3, <1>5, <1>6
<1>8. FindSteps' = FindSteps \cup {x} /\ x \notin FindSteps
  BY <1>3, <1>5, <1>6 DEF FindSteps
<1>9. ASSUME ~stepsRaced, ~Others(r, StepPhase) PROVE Ranked(step', FindSteps')
  <2>1. Ranked(step, FindSteps) /\ StepCurrent(q)
    BY <1>1, <1>3, <1>9, AloneWithSteps DEF At
  <2>2. row.order = Cardinality(FindSteps) + 1
    BY <1>3, <1>5, <1>6, <2>1, LastIsCount, ScriptRowsThere DEF StepCurrent
  <2>3. step'[x] = row /\ \A y \in FindSteps : step'[y] = step[y]
    BY <1>3, <1>6, <1>8 DEF FindSteps
  <2>4. PICK ids : ids = FindSteps
    OBVIOUS
  <2>5. PICK next : next = step'
    OBVIOUS
  <2>6. Ranked(next, ids \cup {x})
    <3>1. IsFiniteSet(ids) /\ Ranked(step, ids) /\ x \notin ids
      BY <1>6, <1>8, <2>1, <2>4, ScriptRowsThere
    <3>2. next[x].order = Cardinality(ids) + 1 /\ \A y \in ids : next[y].order = step[y].order
      BY <2>2, <2>3, <2>4, <2>5
    <3> QED
      BY <3>1, <3>2, AddRanked
  <2> QED
    BY <1>8, <2>4, <2>5, <2>6
<1> QED
  BY <1>3, <1>7, <1>9, ScriptWritesSteps DEF ScriptIdle, ScriptRequestTyped, At

LEMMA FindStepKeeps ==
  ASSUME ScriptInvariant, NEW r \in ScriptRequest, NEW x \in Step, NEW phase \in {"saveStep", "delete"},
         FindStep(r, x, phase)
  PROVE ScriptInvariant'
<1>1. PICK n : n = [phase |-> phase, id |-> x, row |-> step[x]]
  OBVIOUS
<1>2. Reads(r, n) /\ At(r, "none") /\ step[x] # NoRow
  BY <1>1 DEF FindStep
<1> HIDE DEF StepRow
<1>3. step[x] \in StepRow
  BY <1>2 DEF ScriptInvariant, ScriptTyped
<1>4. n.phase = phase /\ n.id = x /\ n.row = step[x]
  BY <1>1
<1>5. ScriptRequestTyped(n)
  BY <1>1, <1>3 DEF ScriptRequestTyped, StepRecord
<1>6. StepCurrent(n) /\ RuleCurrent(n)
  BY <1>4 DEF StepCurrent, RuleCurrent
<1> QED
  BY <1>2, <1>4, <1>5, <1>6, ScriptReads DEF At

LEMMA SaveStepKeeps ==
  ASSUME ScriptInvariant, NEW r \in ScriptRequest, NEW score \in StepScore, NEW required \in BOOLEAN,
         SaveStep(r, score, required)
  PROVE ScriptInvariant'
<1>1. PICK q : q = scriptReq[r]
  OBVIOUS
<1>2. PICK row : row = [q.row EXCEPT !.score = score, !.required = required]
  OBVIOUS
<1>3. /\ q.phase = "saveStep" /\ step' = [step EXCEPT ![q.id] = row]
      /\ WritesSteps(r) /\ Goes(r, ScriptIdle) /\ At(r, "saveStep")
  BY <1>1, <1>2 DEF SaveStep, At
<1>4. q.id \in Step /\ q.row \in StepRow
  BY <1>1, <1>3, ScriptRequestHolds, ShapeOfScriptRequest
<1>5. row \in StepRow /\ row.order = q.row.order
  BY <1>2, <1>4 DEF StepRow
<1> HIDE DEF StepRow, RuleRow
<1>6. step \in [Step -> StepRow \cup {NoRow}] /\ ScriptTyped
  BY DEF ScriptInvariant, ScriptTyped
<1>7. step' \in [Step -> StepRow \cup {NoRow}]
  BY <1>3, <1>5, <1>6
<1>9. ASSUME ~stepsRaced, ~Others(r, StepPhase) PROVE Ranked(step', FindSteps')
  <2>1. Ranked(step, FindSteps) /\ StepCurrent(q)
    BY <1>1, <1>3, <1>9, AloneWithSteps DEF At
  <2>2. q.row = step[q.id]
    BY <1>3, <2>1 DEF StepCurrent
  <2>3. FindSteps' = FindSteps
    BY <1>3, <1>4, <1>5, <1>6, <2>2 DEF FindSteps
  <2>4. \A y \in FindSteps : step'[y].order = step[y].order
    BY <1>3, <1>4, <1>5, <1>6, <2>2 DEF FindSteps
  <2>5. PICK next : next = step'
    OBVIOUS
  <2>6. Ranked(next, FindSteps)
    BY <2>1, <2>4, <2>5, SameRanked
  <2> QED
    BY <2>3, <2>5, <2>6
<1> QED
  BY <1>3, <1>7, <1>9, ScriptWritesSteps DEF ScriptIdle, ScriptRequestTyped, At

LEMMA DropStepKeeps ==
  ASSUME ScriptInvariant, NEW r \in ScriptRequest, DropStep(r)
  PROVE ScriptInvariant'
<1>1. PICK q : q = scriptReq[r]
  OBVIOUS
<1>2. PICK n : n = IF step[q.id] = NoRow THEN ScriptIdle ELSE [q EXCEPT !.phase = "reorder"]
  OBVIOUS
<1>3. /\ q.phase = "delete" /\ step' = [step EXCEPT ![q.id] = NoRow]
      /\ WritesSteps(r) /\ Goes(r, n) /\ At(r, "delete")
  BY <1>1, <1>2 DEF DropStep, At
<1>4. /\ q.id \in Step /\ q.row \in StepRow
      /\ q \in [phase : {"saveStep", "delete", "reorder"}, id : Step, row : StepRow]
  BY <1>1, <1>3, ScriptRequestHolds, ShapeOfScriptRequest
<1> HIDE DEF StepRow, RuleRow
<1>5. CASE step[q.id] = NoRow
  <2>0. n = ScriptIdle
    BY <1>2, <1>5
  <2>1. ScriptRequestTyped(n) /\ n.phase = "none"
    BY <2>0 DEF ScriptIdle, ScriptRequestTyped
  <2>2. step' \in [Step -> StepRow \cup {NoRow}]
    BY <1>3 DEF ScriptInvariant, ScriptTyped
  <2>3. stepsRaced \/ Others(r, StepPhase)
    <3>1. ASSUME ~stepsRaced, ~Others(r, StepPhase) PROVE FALSE
      BY <1>1, <1>3, <1>4, <1>5, <3>1, AloneWithSteps DEF StepCurrent
    <3> QED
      BY <3>1
  <2> QED
    BY <1>3, <2>1, <2>2, <2>3, ScriptWritesSteps DEF At
<1>6. CASE step[q.id] # NoRow
  <2>0. n = [q EXCEPT !.phase = "reorder"]
    BY <1>2, <1>6
  <2>1. n \in [phase : {"saveStep", "delete", "reorder"}, id : Step, row : StepRow] /\ n.phase = "reorder" /\ n.row = q.row
    BY <1>4, <2>0
  <2>2. ScriptRequestTyped(n)
    BY <2>1 DEF ScriptRequestTyped, StepRecord
  <2>3. step \in [Step -> StepRow \cup {NoRow}] /\ ScriptTyped
    BY DEF ScriptInvariant, ScriptTyped
  <2>4. step' \in [Step -> StepRow \cup {NoRow}]
    BY <1>3, <2>3
  <2>5. FindSteps' = FindSteps \ {q.id} /\ q.id \in FindSteps
    BY <1>3, <1>4, <1>6, <2>3 DEF FindSteps
  <2>6. ASSUME ~stepsRaced, ~Others(r, StepPhase) PROVE Gap(step', FindSteps', n.row.order)
    <3>1. Ranked(step, FindSteps) /\ StepCurrent(q)
      BY <1>1, <1>3, <2>6, AloneWithSteps DEF At
    <3>2. q.row = step[q.id]
      BY <1>3, <3>1 DEF StepCurrent
    <3>3. PICK next : next = step'
      OBVIOUS
    <3>4. PICK ids : ids = FindSteps
      OBVIOUS
    <3>5. \A y \in ids \ {q.id} : next[y].order = step[y].order
      BY <1>3, <2>3, <3>3, <3>4 DEF FindSteps
    <3>6. Gap(next, ids \ {q.id}, step[q.id].order)
      BY <2>3, <2>5, <3>1, <3>4, <3>5, DropLeavesGap, ScriptRowsThere
    <3> QED
      BY <2>1, <2>5, <3>2, <3>3, <3>4, <3>6
  <2> QED
    BY <1>3, <2>1, <2>2, <2>4, <2>6, ScriptWritesSteps DEF At
<1> QED
  BY <1>5, <1>6

LEMMA ReorderKeeps ==
  ASSUME ScriptInvariant, NEW r \in ScriptRequest, ReorderAfterDelete(r)
  PROVE ScriptInvariant'
<1>1. PICK q : q = scriptReq[r]
  OBVIOUS
<1>2. PICK o : o = q.row.order
  OBVIOUS
<1>3. /\ q.phase = "reorder" /\ WritesSteps(r) /\ Goes(r, ScriptIdle) /\ At(r, "reorder")
      /\ step' = [x \in Step |-> IF step[x] = NoRow THEN NoRow ELSE [step[x] EXCEPT !.order = CloseGap(step[x], o)]]
  BY <1>1, <1>2 DEF ReorderAfterDelete, At
<1>4. q.row \in StepRow /\ o \in Int
  <2>1. q.row \in StepRow
    BY <1>1, <1>3, ScriptRequestHolds, ShapeOfScriptRequest
  <2> QED
    BY <1>2, <2>1 DEF StepRow
<1>5. ASSUME NEW row \in StepRow
      PROVE [row EXCEPT !.order = CloseGap(row, o)] \in StepRow /\ [row EXCEPT !.order = CloseGap(row, o)].order = CloseGap(row, o)
  BY <1>4 DEF StepRow, CloseGap
<1> HIDE DEF StepRow, RuleRow
<1>6. step \in [Step -> StepRow \cup {NoRow}] /\ ScriptTyped
  BY DEF ScriptInvariant, ScriptTyped
<1>7. step' \in [Step -> StepRow \cup {NoRow}]
  BY <1>3, <1>5, <1>6
<1>8. FindSteps' = FindSteps /\ \A y \in FindSteps : step'[y].order = CloseGap(step[y], o)
  BY <1>3, <1>5, <1>6 DEF FindSteps
<1>9. ASSUME ~stepsRaced, ~Others(r, StepPhase) PROVE Ranked(step', FindSteps')
  <2>1. Gap(step, FindSteps, o)
    BY <1>1, <1>2, <1>3, <1>9, AloneWithSteps DEF StepCurrent
  <2>2. PICK next : next = step'
    OBVIOUS
  <2>3. Ranked(next, FindSteps)
    BY <1>6, <1>8, <2>1, <2>2, CloseRanked, ScriptRowsThere
  <2> QED
    BY <1>8, <2>2, <2>3
<1> QED
  BY <1>3, <1>7, <1>9, ScriptWritesSteps DEF ScriptIdle, ScriptRequestTyped, At

LEMMA MoveStepKeeps ==
  ASSUME ScriptInvariant, NEW r \in ScriptRequest, NEW x \in Step, NEW dir \in {"up", "down"}, MoveStep(r, x, dir)
  PROVE ScriptInvariant'
<1>1. PICK n : n = [phase |-> "list", id |-> x, order |-> step[x].order, dir |-> dir]
  OBVIOUS
<1>2. Reads(r, n) /\ At(r, "none") /\ step[x] # NoRow
  BY <1>1 DEF MoveStep
<1>3. step[x].order \in Int
  BY <1>2, ScriptRowsThere DEF ScriptInvariant, FindSteps
<1>4. n.phase = "list" /\ n.id = x /\ n.order = step[x].order
  BY <1>1
<1>5. ScriptRequestTyped(n)
  BY <1>1, <1>3 DEF ScriptRequestTyped, StepRecord
<1>6. StepCurrent(n) /\ RuleCurrent(n)
  BY <1>2, <1>4 DEF StepCurrent, RuleCurrent
<1> QED
  BY <1>2, <1>4, <1>5, <1>6, ScriptReads DEF At

LEMMA ListStepsKeeps ==
  ASSUME ScriptInvariant, NEW r \in ScriptRequest, ListSteps(r)
  PROVE ScriptInvariant'
<1>1. PICK q : q = scriptReq[r]
  OBVIOUS
<1>2. PICK near : near = Neighbors(step, FindSteps, q.id, q.dir)
  OBVIOUS
<1>3. /\ q.phase = "list" /\ At(r, "list")
      /\ \/ near = {} /\ Reads(r, ScriptIdle)
         \/ \E n \in near : Reads(r, [phase |-> "swap", id |-> q.id, order |-> q.order,
                                      neighbor |-> n, its |-> step[n].order])
  BY <1>1, <1>2 DEF ListSteps, At
<1>4. q.id \in Step /\ q.order \in Int
  BY <1>1, <1>3, ScriptRequestHolds, ShapeOfScriptRequest
<1>5. CASE near = {} /\ Reads(r, ScriptIdle)
  BY <1>3, <1>5, ScriptReads, NothingCarried DEF At, ScriptIdle, ScriptRequestTyped
<1>6. ASSUME NEW n \in near,
             Reads(r, [phase |-> "swap", id |-> q.id, order |-> q.order, neighbor |-> n, its |-> step[n].order])
      PROVE ScriptInvariant'
  <2>1. PICK s : s = [phase |-> "swap", id |-> q.id, order |-> q.order, neighbor |-> n, its |-> step[n].order]
    OBVIOUS
  <2>2. /\ s.phase = "swap" /\ s.id = q.id /\ s.order = q.order /\ s.neighbor = n /\ s.its = step[n].order
        /\ Reads(r, s)
    BY <1>6, <2>1
  <2>3. n \in FindSteps
    BY <1>2, NeighborIsAnother, ScriptRowsThere DEF ScriptInvariant
  <2>4. n \in Step /\ step[n] # NoRow /\ step[n].order \in Int
    BY <2>3, ScriptRowsThere DEF ScriptInvariant, FindSteps
  <2>5. ScriptRequestTyped(s)
    BY <1>4, <2>1, <2>4 DEF ScriptRequestTyped, StepRecord
  <2>6. ~stepsRaced => StepCurrent(q)
    BY <1>1 DEF ScriptInvariant, StepsInvariant
  <2>7. ~stepsRaced => StepCurrent(s)
    BY <1>3, <2>2, <2>4, <2>6 DEF StepCurrent
  <2>8. RuleCurrent(s)
    BY <2>2, NothingCarried
  <2> QED
    BY <1>3, <2>2, <2>5, <2>7, <2>8, ScriptReads DEF At
<1> QED
  BY <1>3, <1>5, <1>6

LEMMA SwapOrderKeeps ==
  ASSUME ScriptInvariant, NEW r \in ScriptRequest, SwapOrder(r)
  PROVE ScriptInvariant'
<1>1. PICK q : q = scriptReq[r]
  OBVIOUS
<1>2. /\ q.phase = "swap" /\ At(r, "swap") /\ WritesSteps(r) /\ Goes(r, ScriptIdle)
      /\ step' = [step EXCEPT ![q.id] = WithOrder(step[q.id], q.its),
                            ![q.neighbor] = WithOrder(step[q.neighbor], q.order)]
  BY <1>1 DEF SwapOrder, At
<1>3. q.id \in Step /\ q.order \in Int /\ q.neighbor \in Step /\ q.its \in Int
  BY <1>1, <1>2, ScriptRequestHolds, ShapeOfScriptRequest
<1>4. step \in [Step -> StepRow \cup {NoRow}] /\ ScriptTyped
  BY DEF ScriptInvariant, ScriptTyped
<1>5. ASSUME NEW row \in StepRow \cup {NoRow}, NEW o \in Int
      PROVE /\ WithOrder(row, o) \in StepRow \cup {NoRow}
            /\ WithOrder(row, o) = NoRow <=> row = NoRow
            /\ row # NoRow => WithOrder(row, o).order = o
  <2>1. CASE row = NoRow
    BY <2>1 DEF WithOrder
  <2>2. CASE row # NoRow
    <3>1. row \in StepRow /\ WithOrder(row, o) = [row EXCEPT !.order = o]
      BY <2>2 DEF WithOrder
    <3>2. WithOrder(row, o) \in StepRow /\ WithOrder(row, o).order = o
      BY <3>1 DEF StepRow
    <3> HIDE DEF StepRow
    <3> QED
      BY <2>2, <3>2
  <2> QED
    BY <2>1, <2>2
<1> HIDE DEF StepRow, RuleRow
<1>6. PICK f : f = WithOrder(step[q.id], q.its)
  OBVIOUS
<1>7. PICK g : g = WithOrder(step[q.neighbor], q.order)
  OBVIOUS
<1>8. /\ f \in StepRow \cup {NoRow} /\ (f = NoRow <=> step[q.id] = NoRow)
      /\ step[q.id] # NoRow => f.order = q.its
      /\ g \in StepRow \cup {NoRow} /\ (g = NoRow <=> step[q.neighbor] = NoRow)
      /\ step[q.neighbor] # NoRow => g.order = q.order
  BY <1>3, <1>4, <1>5, <1>6, <1>7
<1>9. step' = [step EXCEPT ![q.id] = f, ![q.neighbor] = g]
  BY <1>2, <1>6, <1>7, Zenon
<1>10. /\ step' \in [Step -> StepRow \cup {NoRow}] /\ FindSteps' = FindSteps
       /\ step'[q.neighbor] = g /\ (q.id # q.neighbor => step'[q.id] = f)
       /\ \A y \in Step \ {q.id, q.neighbor} : step'[y] = step[y]
  BY <1>3, <1>4, <1>8, <1>9 DEF FindSteps
<1>11. ASSUME ~stepsRaced, ~Others(r, StepPhase) PROVE Ranked(step', FindSteps')
  <2>1. Ranked(step, FindSteps) /\ StepCurrent(q)
    BY <1>1, <1>2, <1>11, AloneWithSteps DEF At
  <2>2. /\ step[q.id] # NoRow /\ q.order = step[q.id].order
        /\ step[q.neighbor] # NoRow /\ q.its = step[q.neighbor].order
    BY <1>2, <2>1 DEF StepCurrent
  <2>3. q.id \in FindSteps /\ q.neighbor \in FindSteps
    BY <1>3, <2>2 DEF FindSteps
  <2>4. PICK next : next = step'
    OBVIOUS
  <2>5. next[q.id].order = step[q.neighbor].order
    BY <1>8, <1>10, <2>2, <2>4
  <2>6. next[q.neighbor].order = step[q.id].order
    BY <1>8, <1>10, <2>2, <2>4
  <2>7. \A y \in FindSteps \ {q.id, q.neighbor} : next[y].order = step[y].order
    BY <1>10, <2>4 DEF FindSteps
  <2>8. Ranked(next, FindSteps)
    BY <2>1, <2>3, <2>5, <2>6, <2>7, SwapRanked
  <2> QED
    BY <1>10, <2>4, <2>8
<1> QED
  BY <1>2, <1>10, <1>11, ScriptWritesSteps DEF ScriptIdle, ScriptRequestTyped, At

LEMMA ScoringKeeps ==
  ASSUME ScriptInvariant, NEW r \in ScriptRequest, ScoringForms(r)
  PROVE ScriptInvariant'
<1>0. ScriptTyped /\ ScriptRequestTyped(scriptReq[r])
  BY ScriptRequestHolds
<1>1. ASSUME NEW threshold \in Threshold, NEW human \in Threshold \cup {0},
             UpdateScoring(r, [threshold |-> threshold, human |-> human])
      PROVE ScriptInvariant'
  <2>1. PICK form : form = [threshold |-> threshold, human |-> human]
    OBVIOUS
  <2>2. PICK n : n = [phase |-> "config", form |-> form, total |-> TotalScore]
    OBVIOUS
  <2>3. Reads(r, n) /\ At(r, "none")
    BY <1>1, <2>1, <2>2, Zenon DEF UpdateScoring
  <2>4. form \in ScoringRow
    BY <2>1 DEF ScoringRow
  <2>5. n.phase = "config" /\ n.form = form
    BY <2>2
  <2>6. ScriptRequestTyped(n)
    BY <2>4, <2>5 DEF ScriptRequestTyped, ScoringPhase
  <2> QED
    BY <2>3, <2>5, <2>6, ScriptReads, NothingCarried DEF At
<1>2. CASE FindConfig(r)
  <2>1. PICK q : q = scriptReq[r]
    OBVIOUS
  <2>2. At(r, "config") /\ (Reads(r, [phase |-> "saveScoring", form |-> q.form]) \/ Reads(r, ScriptIdle))
    <3>1. PICK may \in BOOLEAN :
            At(r, "config") /\ Reads(r, IF may THEN [phase |-> "saveScoring", form |-> q.form] ELSE ScriptIdle)
      BY <1>2, <2>1, Zenon DEF FindConfig
    <3> QED
      BY <3>1
  <2>3. q.form \in ScoringRow
    BY <1>0, <2>1, <2>2, ShapeOfScriptRequest DEF At, ScoringPhase
  <2>4. CASE Reads(r, ScriptIdle)
    BY <2>2, <2>4, ScriptReads, NothingCarried DEF At, ScriptIdle, ScriptRequestTyped
  <2>5. CASE Reads(r, [phase |-> "saveScoring", form |-> q.form])
    <3>1. PICK n : n = [phase |-> "saveScoring", form |-> q.form]
      OBVIOUS
    <3>2. n.phase = "saveScoring" /\ n.form = q.form /\ Reads(r, n)
      BY <2>5, <3>1
    <3>3. ScriptRequestTyped(n)
      BY <2>3, <3>2 DEF ScriptRequestTyped, ScoringPhase
    <3> QED
      BY <2>2, <3>2, <3>3, ScriptReads, NothingCarried DEF At
  <2> QED
    BY <2>2, <2>4, <2>5
<1>3. CASE SaveScoring(r)
  <2>1. /\ At(r, "saveScoring") /\ scoring' = scriptReq[r].form /\ Goes(r, ScriptIdle)
        /\ step' = step /\ rule' = rule
        /\ stepsRaced' = stepsRaced /\ rulesRaced' = rulesRaced /\ ruleDeleted' = ruleDeleted
    BY <1>3 DEF SaveScoring, Quiet
  <2>2. scoring' \in ScoringRow
    BY <1>0, <2>1, ShapeOfScriptRequest DEF At, ScoringPhase
  <2>3. ScriptRequestTyped(ScriptIdle) /\ ScriptIdle.phase = "none"
    BY DEF ScriptRequestTyped, ScriptIdle
  <2>4. ScriptTyped'
    <3> HIDE DEF StepRow, RuleRow, ScoringRow
    <3>1. /\ step \in [Step -> StepRow \cup {NoRow}] /\ rule \in [Rule -> RuleRow \cup {NoRow}]
          /\ stepsRaced \in BOOLEAN /\ rulesRaced \in BOOLEAN /\ ruleDeleted \in BOOLEAN
      BY <1>0 DEF ScriptTyped
    <3> QED
      BY <1>0, <2>1, <2>2, <2>3, <3>1, ScriptTypes
  <2>5. StepsInvariant'
    BY <1>0, <2>1, <2>3, StepsRead, NothingCarried DEF ScriptInvariant, At
  <2>6. RulesInvariant'
    BY <1>0, <2>1, <2>3, RulesRead, NothingCarried DEF ScriptInvariant, At
  <2> QED
    BY <2>4, <2>5, <2>6 DEF ScriptInvariant
<1> QED
  BY <1>1, <1>2, <1>3 DEF ScoringForms

LEMMA CreateRuleKeeps ==
  ASSUME ScriptInvariant, NEW r \in ScriptRequest, CreateRule(r)
  PROVE ScriptInvariant'
<1>1. PICK k : k = Cardinality(FindRules) + 1
  OBVIOUS
<1>2. PICK n : n = [phase |-> "insertRule", order |-> k]
  OBVIOUS
<1>3. Reads(r, n) /\ At(r, "none")
  BY <1>1, <1>2, Zenon DEF CreateRule
<1>4. k \in Nat /\ n.phase = "insertRule" /\ n.order = k
  BY <1>1, <1>2, ScriptRowsThere, FS_CardinalityType DEF ScriptInvariant
<1>5. ScriptRequestTyped(n)
  BY <1>2, <1>4 DEF ScriptRequestTyped, RuleRecord
<1>6. StepCurrent(n) /\ RuleCurrent(n)
  BY <1>1, <1>4 DEF StepCurrent, RuleCurrent
<1> QED
  BY <1>3, <1>4, <1>5, <1>6, ScriptReads DEF At

LEMMA InsertRuleKeeps ==
  ASSUME ScriptInvariant, NEW r \in ScriptRequest, NEW x \in Rule, InsertRule(r, x)
  PROVE ScriptInvariant'
<1>1. PICK q : q = scriptReq[r]
  OBVIOUS
<1>2. PICK row : row = NewCrossSellRule(q.order)
  OBVIOUS
<1>3. /\ q.phase = "insertRule" /\ rule[x] = NoRow /\ rule' = [rule EXCEPT ![x] = row]
      /\ WritesRules(r) /\ Goes(r, ScriptIdle) /\ At(r, "insertRule") /\ ruleDeleted' = ruleDeleted
  BY <1>1, <1>2 DEF InsertRule, At
<1>4. q.order \in Nat
  BY <1>1, <1>3, ScriptRequestHolds, ShapeOfScriptRequest
<1>5. row \in RuleRow /\ row.order = q.order
  BY <1>2, <1>4 DEF NewCrossSellRule, RuleRow
<1> HIDE DEF StepRow, RuleRow
<1>6. rule \in [Rule -> RuleRow \cup {NoRow}] /\ ScriptTyped /\ ruleDeleted \in BOOLEAN
  BY DEF ScriptInvariant, ScriptTyped
<1>7. rule' \in [Rule -> RuleRow \cup {NoRow}]
  BY <1>3, <1>5, <1>6
<1>8. FindRules' = FindRules \cup {x} /\ x \notin FindRules
  BY <1>3, <1>5, <1>6 DEF FindRules
<1>9. ASSUME ~rulesRaced, ~ruleDeleted', ~Others(r, RulePhase) PROVE Ranked(rule', FindRules')
  <2>0. ~Completes(q)
    BY <1>3 DEF Completes
  <2>1. Ranked(rule, FindRules) /\ RuleCurrent(q)
    BY <1>1, <1>3, <1>9, <2>0, AloneWithRules
  <2>2. row.order = Cardinality(FindRules) + 1
    BY <1>3, <1>5, <2>1 DEF RuleCurrent
  <2>3. rule'[x] = row /\ \A y \in FindRules : rule'[y] = rule[y]
    BY <1>3, <1>6, <1>8 DEF FindRules
  <2>4. PICK ids : ids = FindRules
    OBVIOUS
  <2>5. PICK next : next = rule'
    OBVIOUS
  <2>6. Ranked(next, ids \cup {x})
    <3>1. IsFiniteSet(ids) /\ Ranked(rule, ids) /\ x \notin ids
      BY <1>6, <1>8, <2>1, <2>4, ScriptRowsThere
    <3>2. next[x].order = Cardinality(ids) + 1 /\ \A y \in ids : next[y].order = rule[y].order
      BY <2>2, <2>3, <2>4, <2>5
    <3> QED
      BY <3>1, <3>2, AddRanked
  <2> QED
    BY <1>8, <2>4, <2>5, <2>6
<1> QED
  BY <1>3, <1>6, <1>7, <1>9, ScriptWritesRules DEF ScriptIdle, ScriptRequestTyped, At

LEMMA RuleReadsKeep ==
  ASSUME ScriptInvariant, NEW r \in ScriptRequest, NEW x \in Rule,
         \/ \E active \in BOOLEAN : UpdateRule(r, x, active)
         \/ DeleteRule(r, x)
         \/ \E dir \in {"up", "down"} : MoveRule(r, x, dir)
  PROVE ScriptInvariant'
<1>0. rule[x] # NoRow => rule[x] \in RuleRow
  <2> HIDE DEF RuleRow
  <2> QED
    BY DEF ScriptInvariant, ScriptTyped
<1>1. ASSUME NEW active \in BOOLEAN, UpdateRule(r, x, active) PROVE ScriptInvariant'
  <2>1. PICK row : row = [rule[x] EXCEPT !.active = active]
    OBVIOUS
  <2>2. PICK n : n = [phase |-> "saveRule", id |-> x, row |-> row]
    OBVIOUS
  <2>3. Reads(r, n) /\ At(r, "none") /\ rule[x] # NoRow
    BY <1>1, <2>1, <2>2 DEF UpdateRule
  <2>4. row \in RuleRow /\ row.order = rule[x].order
    BY <1>0, <2>1, <2>3 DEF RuleRow
  <2>5. n.phase = "saveRule" /\ n.id = x /\ n.row = row
    BY <2>2
  <2> HIDE DEF RuleRow
  <2>6. ScriptRequestTyped(n)
    BY <2>2, <2>4 DEF ScriptRequestTyped, RuleRecord
  <2>7. StepCurrent(n) /\ RuleCurrent(n)
    BY <2>3, <2>4, <2>5 DEF StepCurrent, RuleCurrent
  <2> QED
    BY <2>3, <2>5, <2>6, <2>7, ScriptReads DEF At
<1>2. CASE DeleteRule(r, x)
  <2>1. PICK n : n = [phase |-> "deleteRule", id |-> x, row |-> rule[x]]
    OBVIOUS
  <2>2. Reads(r, n) /\ At(r, "none") /\ rule[x] # NoRow
    BY <1>2, <2>1 DEF DeleteRule, FindRule
  <2>3. n.phase = "deleteRule"
    BY <2>1
  <2> HIDE DEF RuleRow
  <2>4. ScriptRequestTyped(n)
    BY <1>0, <2>1, <2>2 DEF ScriptRequestTyped, RuleRecord
  <2> QED
    BY <2>2, <2>3, <2>4, ScriptReads, NothingCarried DEF At
<1>3. ASSUME NEW dir \in {"up", "down"}, MoveRule(r, x, dir) PROVE ScriptInvariant'
  <2>1. PICK n : n = [phase |-> "listRules", id |-> x, row |-> rule[x], dir |-> dir]
    OBVIOUS
  <2>2. Reads(r, n) /\ At(r, "none") /\ rule[x] # NoRow
    BY <1>3, <2>1 DEF MoveRule
  <2>3. n.phase = "listRules" /\ n.id = x /\ n.row = rule[x]
    BY <2>1
  <2> HIDE DEF RuleRow
  <2>4. ScriptRequestTyped(n)
    BY <1>0, <2>1, <2>2 DEF ScriptRequestTyped, RuleRecord
  <2>5. StepCurrent(n) /\ RuleCurrent(n)
    BY <2>3 DEF StepCurrent, RuleCurrent
  <2> QED
    BY <2>2, <2>3, <2>4, <2>5, ScriptReads DEF At
<1> QED
  BY <1>1, <1>2, <1>3

\* A save that completes an exchange, or one that keeps the order.
LEMMA SaveRuleKeeps ==
  ASSUME ScriptInvariant, NEW r \in ScriptRequest, SaveRule(r)
  PROVE ScriptInvariant'
<1>1. PICK q : q = scriptReq[r]
  OBVIOUS
<1>2. /\ q.phase = "saveRule" /\ rule' = [rule EXCEPT ![q.id] = q.row]
      /\ WritesRules(r) /\ Goes(r, ScriptIdle) /\ At(r, "saveRule") /\ ruleDeleted' = ruleDeleted
  BY <1>1 DEF SaveRule, At
<1>3. q.id \in Rule /\ q.row \in RuleRow
  BY <1>1, <1>2, ScriptRequestHolds, ShapeOfScriptRequest
<1> HIDE DEF StepRow, RuleRow
<1>4. rule \in [Rule -> RuleRow \cup {NoRow}] /\ ScriptTyped /\ ruleDeleted \in BOOLEAN
  BY DEF ScriptInvariant, ScriptTyped
<1>5. rule' \in [Rule -> RuleRow \cup {NoRow}]
  BY <1>2, <1>3, <1>4
<1>6. ASSUME ~rulesRaced, ~ruleDeleted', ~Others(r, RulePhase) PROVE Ranked(rule', FindRules')
  <2>1. (Ranked(rule, FindRules) \/ Completes(q)) /\ RuleCurrent(q)
    BY <1>1, <1>2, <1>6, AloneWithRules
  <2>2. rule[q.id] # NoRow
    BY <1>2, <2>1 DEF RuleCurrent, Completes
  <2>3. FindRules' = FindRules
    BY <1>2, <1>3, <1>4, <2>2 DEF FindRules
  <2>4. PICK next : next = rule'
    OBVIOUS
  <2>5. next = [rule EXCEPT ![q.id] = q.row]
    BY <1>2, <2>4
  <2>6. CASE Completes(q)
    BY <2>3, <2>4, <2>5, <2>6 DEF Completes
  <2>7. CASE ~Completes(q)
    <3>1. Ranked(rule, FindRules) /\ q.row.order = rule[q.id].order
      BY <1>2, <2>1, <2>7 DEF RuleCurrent
    <3>2. \A y \in FindRules : next[y].order = rule[y].order
      BY <1>3, <1>4, <2>5, <3>1 DEF FindRules
    <3>3. Ranked(next, FindRules)
      BY <3>1, <3>2, SameRanked
    <3> QED
      BY <2>3, <2>4, <3>3
  <2> QED
    BY <2>6, <2>7
<1> QED
  BY <1>2, <1>4, <1>5, <1>6, ScriptWritesRules DEF ScriptIdle, ScriptRequestTyped, At

LEMMA DropRuleKeeps ==
  ASSUME ScriptInvariant, NEW r \in ScriptRequest, DropRule(r)
  PROVE ScriptInvariant'
<1>1. PICK q : q = scriptReq[r]
  OBVIOUS
<1>2. /\ rule' = [rule EXCEPT ![q.id] = NoRow] /\ ruleDeleted' = TRUE
      /\ WritesRules(r) /\ Goes(r, ScriptIdle) /\ At(r, "deleteRule")
  BY <1>1 DEF DropRule, At
<1> HIDE DEF StepRow, RuleRow
<1>3. rule' \in [Rule -> RuleRow \cup {NoRow}]
  BY <1>2 DEF ScriptInvariant, ScriptTyped
<1> QED
  BY <1>2, <1>3, ScriptWritesRules DEF ScriptIdle, ScriptRequestTyped, At

LEMMA ListRulesKeeps ==
  ASSUME ScriptInvariant, NEW r \in ScriptRequest, ListRules(r)
  PROVE ScriptInvariant'
<1>1. PICK q : q = scriptReq[r]
  OBVIOUS
<1>2. PICK near : near = Neighbors(rule, FindRules, q.id, q.dir)
  OBVIOUS
<1>3. /\ q.phase = "listRules" /\ At(r, "listRules")
      /\ \/ near = {} /\ Reads(r, ScriptIdle)
         \/ \E n \in near : Reads(r, [phase |-> "saveNeighbor", id |-> q.id, row |-> q.row,
                                      neighbor |-> n, its |-> rule[n]])
  BY <1>1, <1>2 DEF ListRules, At
<1>4. q.id \in Rule /\ q.row \in RuleRow
  BY <1>1, <1>3, ScriptRequestHolds, ShapeOfScriptRequest
<1>5. CASE near = {} /\ Reads(r, ScriptIdle)
  BY <1>3, <1>5, ScriptReads, NothingCarried DEF At, ScriptIdle, ScriptRequestTyped
<1>6. ASSUME NEW n \in near,
             Reads(r, [phase |-> "saveNeighbor", id |-> q.id, row |-> q.row, neighbor |-> n, its |-> rule[n]])
      PROVE ScriptInvariant'
  <2>1. PICK s : s = [phase |-> "saveNeighbor", id |-> q.id, row |-> q.row, neighbor |-> n, its |-> rule[n]]
    OBVIOUS
  <2>2. /\ s.phase = "saveNeighbor" /\ s.id = q.id /\ s.row = q.row /\ s.neighbor = n /\ s.its = rule[n]
        /\ Reads(r, s)
    BY <1>6, <2>1
  <2>3. n \in FindRules /\ n # q.id
    BY <1>2, NeighborIsAnother, ScriptRowsThere DEF ScriptInvariant
  <2> HIDE DEF RuleRow
  <2>4. n \in Rule /\ rule[n] \in RuleRow
    BY <2>3, ScriptRowsThere DEF ScriptInvariant
  <2>5. ScriptRequestTyped(s)
    BY <1>4, <2>1, <2>4 DEF ScriptRequestTyped, RuleRecord
  <2>6. ~rulesRaced /\ ~ruleDeleted => RuleCurrent(q)
    BY <1>1 DEF ScriptInvariant, RulesInvariant
  <2>7. ~rulesRaced /\ ~ruleDeleted => RuleCurrent(s)
    BY <1>3, <2>2, <2>3, <2>6 DEF RuleCurrent
  <2>8. StepCurrent(s)
    BY <2>2, NothingCarried
  <2> QED
    BY <1>3, <2>2, <2>5, <2>7, <2>8, ScriptReads DEF At
<1> QED
  BY <1>3, <1>5, <1>6

LEMMA SaveNeighborKeeps ==
  ASSUME ScriptInvariant, NEW r \in ScriptRequest, SaveNeighbor(r)
  PROVE ScriptInvariant'
<1>1. PICK q : q = scriptReq[r]
  OBVIOUS
<1>2. PICK its : its = Exchanged(q)
  OBVIOUS
<1>3. PICK row : row = [q.row EXCEPT !.order = q.its.order]
  OBVIOUS
<1>4. PICK n : n = [phase |-> "saveRule", id |-> q.id, row |-> row]
  OBVIOUS
<1>5. /\ q.phase = "saveNeighbor" /\ rule' = [rule EXCEPT ![q.neighbor] = its]
      /\ WritesRules(r) /\ Goes(r, n) /\ At(r, "saveNeighbor") /\ ruleDeleted' = ruleDeleted
  BY <1>1, <1>2, <1>3, <1>4 DEF SaveNeighbor, At
<1>6. q.id \in Rule /\ q.row \in RuleRow /\ q.neighbor \in Rule /\ q.its \in RuleRow
  BY <1>1, <1>5, ScriptRequestHolds, ShapeOfScriptRequest
<1>7. /\ its \in RuleRow /\ its.order = q.row.order
      /\ row \in RuleRow /\ row.order = q.its.order
  BY <1>2, <1>3, <1>6 DEF RuleRow, Exchanged
<1> HIDE DEF StepRow, RuleRow
<1>8. n.phase = "saveRule" /\ n.id = q.id /\ n.row = row /\ ScriptRequestTyped(n)
  BY <1>4, <1>6, <1>7 DEF ScriptRequestTyped, RuleRecord
<1>9. rule \in [Rule -> RuleRow \cup {NoRow}] /\ ScriptTyped /\ ruleDeleted \in BOOLEAN
  BY DEF ScriptInvariant, ScriptTyped
<1>10. rule' \in [Rule -> RuleRow \cup {NoRow}]
  BY <1>5, <1>7, <1>9
<1>11. ASSUME ~rulesRaced, ~ruleDeleted', ~Others(r, RulePhase) PROVE Completes(n)'
  <2>0. ~Completes(q)
    BY <1>5 DEF Completes
  <2>1. Ranked(rule, FindRules) /\ RuleCurrent(q)
    BY <1>1, <1>5, <1>11, <2>0, AloneWithRules
  <2>2. q.row = rule[q.id] /\ q.its = rule[q.neighbor] /\ q.id # q.neighbor
    BY <1>5, <2>1 DEF RuleCurrent
  <2>3. rule[q.id] # NoRow /\ rule[q.neighbor] # NoRow
    BY <1>6, <2>2
  <2>4. FindRules' = FindRules /\ q.id \in FindRules /\ q.neighbor \in FindRules
    BY <1>5, <1>6, <1>7, <1>9, <2>3 DEF FindRules
  <2>5. PICK next : next = [rule' EXCEPT ![q.id] = row]
    OBVIOUS
  <2>6. /\ next[q.id] = row /\ next[q.neighbor] = its
        /\ \A y \in Rule \ {q.id, q.neighbor} : next[y] = rule[y]
    BY <1>5, <1>6, <1>9, <2>2, <2>5
  <2>7. /\ next[q.id].order = rule[q.neighbor].order /\ next[q.neighbor].order = rule[q.id].order
        /\ \A y \in FindRules \ {q.id, q.neighbor} : next[y].order = rule[y].order
    BY <1>7, <2>2, <2>6 DEF FindRules
  <2>8. Ranked(next, FindRules)
    BY <2>1, <2>4, <2>7, SwapRanked
  <2>9. rule'[q.id] # NoRow
    BY <1>5, <1>6, <1>9, <2>2, <2>3
  <2> QED
    BY <1>8, <2>4, <2>5, <2>8, <2>9 DEF Completes
<1> QED
  BY <1>5, <1>8, <1>9, <1>10, <1>11, ScriptWritesRules DEF At

\* A statement fails: what stops in the middle counts as a race.
LEMMA ScriptFailsKeeps ==
  ASSUME ScriptInvariant, NEW r \in ScriptRequest, ScriptFails(r)
  PROVE ScriptInvariant'
<1>1. /\ Goes(r, ScriptIdle) /\ step' = step /\ scoring' = scoring /\ rule' = rule /\ ruleDeleted' = ruleDeleted
      /\ stepsRaced' = (stepsRaced \/ At(r, "reorder")) /\ rulesRaced' = (rulesRaced \/ At(r, "saveRule"))
  BY DEF ScriptFails, scriptRows
<1>2. ScriptTyped /\ ScriptRequestTyped(ScriptIdle) /\ ScriptIdle.phase = "none"
  BY DEF ScriptInvariant, ScriptRequestTyped, ScriptIdle
<1>3. ScriptTyped'
  <2> HIDE DEF StepRow, RuleRow, ScoringRow
  <2>1. /\ step \in [Step -> StepRow \cup {NoRow}] /\ rule \in [Rule -> RuleRow \cup {NoRow}]
        /\ scoring \in ScoringRow \cup {NoRow} /\ ruleDeleted \in BOOLEAN
    BY <1>2 DEF ScriptTyped
  <2>2. stepsRaced' \in BOOLEAN /\ rulesRaced' \in BOOLEAN
    BY <1>1
  <2> QED
    BY <1>1, <1>2, <2>1, <2>2, ScriptTypes
<1>4. StepsInvariant'
  <2>1. CASE At(r, "reorder")
    BY <1>1, <2>1 DEF StepsInvariant
  <2>2. CASE ~At(r, "reorder")
    <3>1. stepsRaced' = stepsRaced
      BY <1>1, <1>2, <2>2 DEF ScriptTyped
    <3> QED
      BY <1>1, <1>2, <2>2, <3>1, StepsRead, NothingCarried DEF ScriptInvariant
  <2> QED
    BY <2>1, <2>2
<1>5. RulesInvariant'
  <2>1. CASE At(r, "saveRule")
    BY <1>1, <2>1 DEF RulesInvariant
  <2>2. CASE ~At(r, "saveRule")
    <3>1. rulesRaced' = rulesRaced
      BY <1>1, <1>2, <2>2 DEF ScriptTyped
    <3> QED
      BY <1>1, <1>2, <2>2, <3>1, RulesRead, NothingCarried DEF ScriptInvariant
  <2> QED
    BY <2>1, <2>2
<1> QED
  BY <1>3, <1>4, <1>5 DEF ScriptInvariant

LEMMA ScriptBegins == ScriptInit => ScriptInvariant
<1> SUFFICES ASSUME ScriptInit PROVE ScriptInvariant
  OBVIOUS
<1>1. /\ step = [x \in Step |-> NoRow] /\ rule = [x \in Rule |-> NoRow] /\ scoring = NoRow
      /\ scriptReq = [r \in ScriptRequest |-> ScriptIdle]
      /\ stepsRaced = FALSE /\ rulesRaced = FALSE /\ ruleDeleted = FALSE
  BY DEF ScriptInit
<1>2. FindSteps = {} /\ FindRules = {}
  BY <1>1 DEF FindSteps, FindRules
<1>3. \A r \in ScriptRequest : scriptReq[r] = ScriptIdle /\ scriptReq[r].phase = "none"
  BY <1>1 DEF ScriptIdle
<1>4. ScriptTyped
  <2> HIDE DEF StepRow, RuleRow, ScoringRow
  <2> QED
    BY <1>1, <1>3 DEF ScriptTyped, ScriptRequestTyped
<1>5. Ranked(step, {}) /\ Ranked(rule, {})
  <2>1. Cardinality({}) = 0
    BY FS_EmptySet
  <2>2. 1..Cardinality({}) = {}
    BY <2>1
  <2> QED
    BY <2>2 DEF Ranked, Apart, Orders
<1>6. \A r \in ScriptRequest : StepCurrent(scriptReq[r]) /\ RuleCurrent(scriptReq[r])
  BY <1>3, NothingCarried
<1> QED
  BY <1>2, <1>4, <1>5, <1>6 DEF ScriptInvariant, StepsInvariant, RulesInvariant

LEMMA ScriptInductive == ScriptInvariant /\ [ScriptNext]_scriptVars => ScriptInvariant'
<1> SUFFICES ASSUME ScriptInvariant, [ScriptNext]_scriptVars PROVE ScriptInvariant'
  OBVIOUS
<1>1. CASE UNCHANGED scriptVars
  <2>1. /\ step' = step /\ scoring' = scoring /\ rule' = rule /\ scriptReq' = scriptReq
        /\ stepsRaced' = stepsRaced /\ rulesRaced' = rulesRaced /\ ruleDeleted' = ruleDeleted
    BY <1>1 DEF scriptVars, scriptRows
  <2>2. FindSteps' = FindSteps /\ FindRules' = FindRules
    BY <2>1 DEF FindSteps, FindRules
  <2>3. ScriptTyped'
    <3> HIDE DEF StepRow, RuleRow, ScoringRow
    <3> QED
      BY <2>1 DEF ScriptInvariant, ScriptTyped, ScriptRequestTyped
  <2>4. StepsInvariant'
    BY <2>1, <2>2 DEF ScriptInvariant, StepsInvariant, StepCurrent, At
  <2>5. RulesInvariant'
    BY <2>1, <2>2 DEF ScriptInvariant, RulesInvariant, RuleCurrent, Completes
  <2> QED
    BY <2>3, <2>4, <2>5 DEF ScriptInvariant
<1>2. ASSUME NEW r \in ScriptRequest, StepForms(r) PROVE ScriptInvariant'
  BY <1>2, CreateStepKeeps, InsertStepKeeps, FindStepKeeps, SaveStepKeeps, DropStepKeeps, ReorderKeeps,
     MoveStepKeeps, ListStepsKeeps, SwapOrderKeeps DEF StepForms, UpdateStep, DeleteStep
<1>3. ASSUME NEW r \in ScriptRequest, RuleForms(r) \/ RuleMoves(r) \/ RuleSection(r) PROVE ScriptInvariant'
  BY <1>3, CreateRuleKeeps, RuleReadsKeep DEF RuleForms, RuleMoves, RuleSection
<1>4. ASSUME NEW r \in ScriptRequest, RuleStatements(r) PROVE ScriptInvariant'
  BY <1>4, InsertRuleKeeps, SaveRuleKeeps, DropRuleKeeps, ListRulesKeeps, SaveNeighborKeeps DEF RuleStatements
<1> QED
  BY <1>1, <1>2, <1>3, <1>4, ScoringKeeps, ScriptFailsKeeps DEF ScriptNext

\* The steps are numbered from 1 without a gap and the rules have one number
\* each, however many requests create, move and delete them, as long as no
\* write met a request that had read before it (delete_step.go:23-27,
\* move_step.go:40-70, create_cross_sell_rule.go:44): what a request carries
\* to its write is then what the rows still hold, a delete leaves exactly the
\* gap its renumbering closes, and the first save of an exchange exactly what
\* the second completes.
THEOREM ScriptStaysInOrder == ScriptSpec => [](ScriptTypeOK /\ ScriptInOrder)
<1>1. ScriptInvariant => ScriptTypeOK
  <2> SUFFICES ASSUME ScriptInvariant PROVE ScriptTypeOK
    OBVIOUS
  <2>1. \A r \in ScriptRequest : scriptReq[r].phase \in {"none"} \cup StepPhase \cup RulePhase \cup ScoringPhase
    BY ShapeOfScriptRequest DEF ScriptInvariant, ScriptTyped
  <2> HIDE DEF StepRow, RuleRow, ScoringRow, StepPhase, RulePhase, ScoringPhase
  <2> QED
    BY <2>1 DEF ScriptTypeOK, ScriptInvariant, ScriptTyped
<1>2. ScriptInvariant => ScriptInOrder
  <2> SUFFICES ASSUME ScriptInvariant PROVE ScriptInOrder
    OBVIOUS
  <2>1. StepsDense
    BY DEF StepsDense, ScriptInvariant, StepsInvariant, Ranked
  <2>2. RulesDistinct
    <3> SUFFICES ASSUME ~rulesRaced, ~ruleDeleted, \A r \in ScriptRequest : ~At(r, "saveRule")
                 PROVE Cardinality(Orders(rule, FindRules)) = Cardinality(FindRules)
      BY DEF RulesDistinct
    <3>1. Orders(rule, FindRules) = 1..Cardinality(FindRules)
      BY DEF ScriptInvariant, RulesInvariant, Completes, At, Ranked
    <3>2. Cardinality(FindRules) \in Nat
      BY ScriptRowsThere, FS_CardinalityType DEF ScriptInvariant
    <3>3. PICK n \in Nat : n = Cardinality(FindRules)
      BY <3>2
    <3>4. Cardinality(1..n) = n
      BY FS_Interval
    <3> QED
      BY <3>1, <3>3, <3>4
  <2> QED
    BY <2>1, <2>2 DEF ScriptInOrder
<1> QED
  BY <1>1, <1>2, ScriptBegins, ScriptInductive, PTL DEF ScriptSpec

-----------------------------------------------------------------------------
(* The catalogue.  No step of one part touches what another keeps, but for *)
(* the rows of the specialists, which the others only read.                *)

HIDE ScriptAssumption

\* What a row names is there, in every part, whichever statement failed or
\* wherever the process died: documents and media have their files
\* (document handler.go:149-177, 216-232, store_file.go:57-91), links their
\* products, and whatever a request carries is of its type.
THEOREM NothingStaysHalfStored == CatalogueSpec => []NothingHalfStored
<1>1. CatalogueInit => SpecialistInit /\ ScriptInit /\ ProductInit /\ LibraryInit /\ FileInit
  BY DEF CatalogueInit
<1>2. [CatalogueNext]_catalogueVars =>
        /\ [SpecialistNext]_specVars /\ [ScriptNext]_scriptVars /\ [ProductNext]_productVars
        /\ [LibraryNext]_libraryVars /\ [FileNext]_fileVars
  BY Zenon DEF CatalogueNext, catalogueVars
<1>3. CatalogueSpec => SpecialistSpec /\ ScriptSpec /\ ProductSpec /\ LibrarySpec /\ FileSpec
  BY <1>1, <1>2, PTL DEF CatalogueSpec, SpecialistSpec, ScriptSpec, ProductSpec, LibrarySpec, FileSpec
<1>4. SpecialistTypeOK /\ ScriptTypeOK /\ ProductTypeOK /\ LibraryTypeOK /\ FileTypeOK
        /\ DocumentsAreWhole /\ FilesAreWhole => NothingHalfStored
  BY Zenon DEF NothingHalfStored, CatalogueTypeOK
<1> QED
  BY <1>3, <1>4, SoleStaysDefault, ScriptStaysInOrder, ProductsTyped, LibraryStaysTyped, FilesStayTyped,
     DocumentsHold, FilesHold, PTL
=============================================================================
