-------------------------------- MODULE Products --------------------------------
(***************************************************************************)
(* Products, the firms that offer them and the funnels their leads enter   *)
(* (src/internal/product).                                                 *)
(*                                                                         *)
(* A change of a product is a read and a save of the whole row; a link is  *)
(* one statement under a unique key.  A message is matched by two queries  *)
(* and routed by a third, and what they read may have changed in between.  *)
(***************************************************************************)
EXTENDS Specialists, Sequences

CONSTANTS
  Product,       \* ids of products
  Funnel,        \* funnels
  FunnelOwner,   \* the firm of a funnel
  Field,         \* words a form may hold; a keyword is one or more
  Priority,      \* priorities a form may give
  MaxCreated,    \* bound: products ever created
  ProductRequest \* requests and messages in flight

VARIABLES
  product,       \* rows of products, or NoRow
  tenantProduct, \* rows of tenant_products
  funnelProduct, \* the priority of a row of funnel_products, or 0
  productReq     \* requests and messages in flight

productRows == <<product, tenantProduct, funnelProduct>>
productVars == <<productRows, productReq>>

\* A keyword with commas is the words between them.
Keyword == UNION {[1..n -> Field] : n \in 1..2}
ProductRow == [active : BOOLEAN, keywords : SUBSET Keyword, createdAt : Nat]
TenantProductRow == Tenant \X Product
FunnelProductRow == [Funnel \X Product -> Priority \cup {0}]

ASSUME ProductAssumption ==
  /\ FunnelOwner \in [Funnel -> Tenant] /\ Priority \subseteq Nat \ {0}
  /\ IsFiniteSet(Product) /\ NoRow \notin ProductRow

ProductIdle == [phase |-> "none"]
ProductPhase == {"none", "form", "saveProduct", "match", "missed", "route", "routed"}

ProductTypeOK ==
  /\ product \in [Product -> ProductRow \cup {NoRow}]
  /\ tenantProduct \subseteq TenantProductRow
  /\ funnelProduct \in FunnelProductRow
  /\ \A tp \in tenantProduct : product[tp[2]] # NoRow
  /\ \A l \in Funnel \X Product : funnelProduct[l] # 0 => product[l[2]] # NoRow
  /\ \A r \in ProductRequest : productReq[r].phase \in ProductPhase

ProductInit ==
  /\ product = [p \in Product |-> NoRow] /\ tenantProduct = {}
  /\ funnelProduct = [l \in Funnel \X Product |-> 0]
  /\ productReq = [r \in ProductRequest |-> ProductIdle]

-----------------------------------------------------------------------------
Stored == {p \in Product : product[p] # NoRow}
\* What firm t offers that a text asks for, by the rows given.
OfferedTo(rows, links, t, text) ==
  {p \in Product : <<t, p>> \in links /\ rows[p] # NoRow /\ rows[p].active /\ rows[p].keywords \cap text # {}}

\* History of a message that is being matched: what was offered to it at some
\* moment (seen) and at every moment (steady), and what its firm had and lost.
Watched(q) ==
  IF q.phase \in {"match", "route"}
  THEN LET now == OfferedTo(product', tenantProduct', q.tenant, q.text) IN
       [q EXCEPT !.seen = @ \cup now, !.steady = @ \cap now,
                 !.unlinked = @ \cup {p \in Product : <<q.tenant, p>> \in tenantProduct \ tenantProduct'}]
  ELSE q
Becomes(r, q) == productReq' = [o \in ProductRequest |-> Watched(IF o = r THEN q ELSE productReq[o])]
Go == productReq' = [o \in ProductRequest |-> Watched(productReq[o])]

Idle(r) == productReq[r].phase \in {"none", "form", "missed", "routed"}
Gets(r, q) == UNCHANGED productRows /\ Becomes(r, q)
HeldProduct(p) ==
  \E r \in ProductRequest : LET q == productReq[r] IN
    (q.phase \in {"form", "saveProduct", "route"} /\ q.product = p) \/ (q.phase = "match" /\ p \in q.ids)

\* The words of a form, one keyword each unless a form quotes several.
ShownKeywords(ks) == {<<w>> : w \in UNION {Range(k) : k \in ks}}
NewProduct(ks) ==
  [active |-> TRUE, keywords |-> ks, createdAt |-> 1 + Max({product[p].createdAt : p \in Stored} \cup {0})]
CreateProduct(p, ks) ==
  /\ product[p] = NoRow /\ ~HeldProduct(p)
  /\ NewProduct(ks).createdAt <= MaxCreated
  /\ product' = [product EXCEPT ![p] = NewProduct(ks)]
  /\ UNCHANGED <<tenantProduct, funnelProduct>>
  /\ Go

FindProductNow(r, p, row) ==
  /\ product[p] # NoRow
  /\ Gets(r, [phase |-> "saveProduct", product |-> p, row |-> row])
\* The form shows the keywords joined by commas, without quotes.
RenderAdminProductForm(r, p) ==
  /\ Idle(r) /\ product[p] # NoRow
  /\ Gets(r, [phase |-> "form", product |-> p, shown |-> ShownKeywords(product[p].keywords)])
UpdateProduct(r, ks) ==
  LET p == productReq[r].product IN
  /\ productReq[r].phase = "form"
  /\ product[p] # NoRow
  /\ FindProductNow(r, p, [product[p] EXCEPT !.keywords = ks])
ToggleProduct(r, p) ==
  /\ Idle(r) /\ product[p] # NoRow
  /\ FindProductNow(r, p, [product[p] EXCEPT !.active = ~@])

\* Save brings back a product that is gone, without its links.
SaveProduct(r) ==
  LET q == productReq[r] IN
  /\ q.phase = "saveProduct"
  /\ product' = [product EXCEPT ![q.product] = q.row]
  /\ UNCHANGED <<tenantProduct, funnelProduct>>
  /\ Becomes(r, ProductIdle)

\* The foreign keys cascade.
DeleteProduct(p) ==
  /\ product[p] # NoRow
  /\ product' = [product EXCEPT ![p] = NoRow]
  /\ tenantProduct' = {tp \in tenantProduct : tp[2] # p}
  /\ funnelProduct' = [l \in Funnel \X Product |-> IF l[2] = p THEN 0 ELSE funnelProduct[l]]
  /\ Go

-----------------------------------------------------------------------------
(* Links; the unique keys stop the second of two. *)

LinkFunnel(f, p, priority) ==
  /\ product[p] # NoRow /\ funnelProduct[<<f, p>>] = 0
  /\ funnelProduct' = [funnelProduct EXCEPT ![<<f, p>>] = priority]
  /\ UNCHANGED <<product, tenantProduct>>
  /\ Go
UnlinkFunnel(f, p) ==
  /\ funnelProduct[<<f, p>>] # 0
  /\ funnelProduct' = [funnelProduct EXCEPT ![<<f, p>>] = 0]
  /\ UNCHANGED <<product, tenantProduct>>
  /\ Go
UpdatePriority(f, p, priority) ==
  /\ funnelProduct[<<f, p>>] # 0
  /\ funnelProduct' = [funnelProduct EXCEPT ![<<f, p>>] = priority]
  /\ UNCHANGED <<product, tenantProduct>>
  /\ Go

AssociateTenant(t, p) ==
  /\ product[p] # NoRow /\ <<t, p>> \notin tenantProduct
  /\ tenantProduct' = tenantProduct \cup {<<t, p>>}
  /\ UNCHANGED <<product, funnelProduct>>
  /\ Go
DisassociateTenant(t, p) ==
  /\ <<t, p>> \in tenantProduct
  /\ tenantProduct' = tenantProduct \ {<<t, p>>}
  /\ UNCHANGED <<product, funnelProduct>>
  /\ Go

-----------------------------------------------------------------------------
(* A message to firm t, as the set of the keywords its text contains. *)

FindByTenantID(t) == {p \in Product : <<t, p>> \in tenantProduct}
FindActiveByIDs(ids) == {p \in ids : product[p] # NoRow /\ product[p].active}
MatchesText(p, text) == product[p].keywords \cap text # {}
\* ORDER BY created_at, and the first that matches.
\* Mutant: the newest first.
LastOf(ps) == {p \in ps : \A x \in ps : product[p].createdAt >= product[x].createdAt}
FirstOf(ps) == {p \in ps : \A x \in ps : product[p].createdAt <= product[x].createdAt}

DetectProduct(r, t, text) ==
  /\ Idle(r)
  /\ LET steady == OfferedTo(product, tenantProduct, t, text) IN
     Gets(r, IF FindByTenantID(t) = {} THEN [phase |-> "missed", steady |-> steady]
             ELSE [phase |-> "match", tenant |-> t, text |-> text, ids |-> FindByTenantID(t),
                   seen |-> {}, steady |-> steady, unlinked |-> {}])
MatchProduct(r) ==
  LET q == productReq[r]
      matching == {p \in FindActiveByIDs(q.ids) : MatchesText(p, q.text)}
  IN /\ q.phase = "match"
     /\ \/ matching = {} /\ Gets(r, [phase |-> "missed", steady |-> q.steady])
        \/ \E p \in FirstOf(matching) :
             Gets(r, [phase |-> "route", tenant |-> q.tenant, text |-> q.text, product |-> p,
                      createdAt |-> product[p].createdAt,
                      seen |-> q.seen, steady |-> q.steady, unlinked |-> q.unlinked])

LinkedFunnels(t, p) == {f \in Funnel : funnelProduct[<<f, p>>] # 0 /\ FunnelOwner[f] = t}
FindTopPriorityFunnel(r) ==
  LET q == productReq[r]
      linked == LinkedFunnels(q.tenant, q.product)
  IN /\ q.phase = "route"
     /\ \/ linked = {} /\ Gets(r, ProductIdle)
        \/ \E f \in linked :
             /\ \A x \in linked : funnelProduct[<<x, q.product>>] <= funnelProduct[<<f, q.product>>]
             /\ Gets(r, [phase |-> "routed", tenant |-> q.tenant, product |-> q.product, funnel |-> f])

-----------------------------------------------------------------------------
AdminForms ==
  \E p \in Product :
    \/ \E ks \in SUBSET Keyword : CreateProduct(p, ks)
    \/ \E r \in ProductRequest :
         \/ RenderAdminProductForm(r, p) \/ ToggleProduct(r, p)
         \/ productReq[r].phase = "form" /\ productReq[r].product = p /\ UpdateProduct(r, productReq[r].shown)
    \/ DeleteProduct(p)
    \/ \E t \in Tenant : AssociateTenant(t, p) \/ DisassociateTenant(t, p)
FunnelForms ==
  \E f \in Funnel, p \in Product :
    \/ UnlinkFunnel(f, p)
    \/ \E priority \in Priority : LinkFunnel(f, p, priority) \/ UpdatePriority(f, p, priority)
\* A text with a keyword has its words.
Text == {ks \in SUBSET Keyword : ShownKeywords(ks) \subseteq ks}
ProductStatements ==
  \E r \in ProductRequest :
    \/ SaveProduct(r) \/ MatchProduct(r) \/ FindTopPriorityFunnel(r)
    \/ \E t \in Tenant, text \in Text : DetectProduct(r, t, text)
ProductNext == AdminForms \/ FunnelForms \/ ProductStatements
ProductSpec == ProductInit /\ [][ProductNext]_productVars

-----------------------------------------------------------------------------
\* While a message is matched products are linked and unlinked, switched,
\* edited, deleted and saved again from stale copies.  It is left without one
\* only when none was offered to it at every moment; the one it is matched to
\* was offered, on and in its text at one moment, unless the firm lost it
\* meanwhile, and is no younger than any that was offered all along
\* (detect_product.go:21-45).
MatchedAsOffered ==
  \A r \in ProductRequest : LET q == productReq[r] IN
    /\ q.phase = "missed" => q.steady = {}
    /\ q.phase = "route" =>
         /\ q.product \in q.seen \cup q.unlinked
         /\ \A p \in q.steady : q.createdAt <= product[p].createdAt
=============================================================================
