----------------------------- MODULE PlatformProofs -----------------------------
(***************************************************************************)
(* Proofs about the parts that stand around the conversation: the          *)
(* ingestion of messages, the WhatsApp clients, the events and the notices *)
(* that pages are told of, the pages of the lists and the audit trail, for *)
(* any number of messages, conversations, firms, clients, requests, users, *)
(* streams, publishers, rows and editors, with and without faults.         *)
(***************************************************************************)
EXTENDS MessageIngest, WaClients, Notices, Paging, AuditTrail, FiniteSetTheorems, WellFoundedInduction, TLAPS

-----------------------------------------------------------------------------
(***************************************************************************)
(* The ingestion of messages.                                              *)
(***************************************************************************)
USE IngestAssumption

\* First is one of the conversations it chooses from.
LEMMA FirstExists ==
  ASSUME NEW S \in SUBSET Conv, S # {} PROVE First(S) \in S
<1>1. S \subseteq Nat
  OBVIOUS
<1>2. PICK x \in S : \A y \in S : ~(<<y, x>> \in OpToRel(<, Nat))
  BY <1>1, WFMin, NatLessThanWellFounded, Zenon
<1>3. \A y \in S : ~(y < x)
  BY <1>1, <1>2 DEF OpToRel
<1>4. \A y \in S : x <= y
  BY <1>1, <1>3
<1> QED
  BY <1>4 DEF First

\* The initial state satisfies the invariant.
LEMMA InitIngestInvariant == Init => IngestInvariant
<1> SUFFICES ASSUME Init PROVE IngestInvariant
  OBVIOUS
<1> USE DEF Init
<1>1. TypeOK
  BY DEF TypeOK, Phase, Writing, NotWriting
<1>2. Located /\ OnlyOnePast /\ TriggeredIsStored
  BY DEF Located, Knows, OnlyOnePast, Past, TriggeredIsStored, NotWriting
<1>3. \A c \in Conv : InConv(c) = {}
  BY DEF InConv
<1>4. \A c \in Conv : Count[c] = 0
  BY <1>3, FS_EmptySet DEF Count
<1>4a. CopiesBounded
  BY <1>4 DEF CopiesBounded, NotWriting
<1>5. FiniteConvs
  BY <1>3, FS_EmptySet DEF FiniteConvs
<1> QED
  BY <1>1, <1>2, <1>4a, <1>5 DEF IngestInvariant

\* Every action keeps the types.
LEMMA IngestTypeNext ==
  TypeOK /\ Located /\ [Next]_vars => TypeOK'
<1> SUFFICES ASSUME TypeOK, Located, [Next]_vars PROVE TypeOK'
  OBVIOUS
<1> USE DEF TypeOK, Located, Knows, Phase, Writing, NotWriting
<1>1. ASSUME NEW d \in Delivery, Deliver(d) PROVE TypeOK'
  BY <1>1 DEF Deliver, Goto, Busy, rows, locals
<1>2. ASSUME NEW d \in Delivery, Discard(d) PROVE TypeOK'
  BY <1>2 DEF Discard, Goto, Busy, rows, locals
<1>3. ASSUME NEW d \in Delivery, NotDuplicate(d) PROVE TypeOK'
  BY <1>3 DEF NotDuplicate, Goto, Busy, rows, locals
<1>4. ASSUME NEW d \in Delivery, FindContact(d) PROVE TypeOK'
  BY <1>4 DEF FindContact, Goto, Busy, rows, locals
<1>5. ASSUME NEW d \in Delivery, CreateContact(d) PROVE TypeOK'
  BY <1>5 DEF CreateContact, Goto, Busy, rows, locals
<1>6. ASSUME NEW d \in Delivery, FindConv(d) PROVE TypeOK'
  <2>1. exists # {} => First(exists) \in Conv
    BY FirstExists
  <2>2. CASE exists = {}
    BY <1>6, <2>2 DEF FindConv, OpenConvs, Goto, rows
  <2>3. CASE exists # {}
    <3>1. /\ conv' = [conv EXCEPT ![d] = First(exists)]
          /\ copy' = [copy EXCEPT ![d] = unread[First(exists)]]
          /\ pc' = [pc EXCEPT ![d] = "message"]
      BY <1>6, <2>3 DEF FindConv, OpenConvs, Goto
    <3>2. UNCHANGED <<rows, writer, noter, triggered>>
      BY <1>6 DEF FindConv
    <3> QED
      BY <2>1, <2>3, <3>1, <3>2 DEF rows
  <2> QED
    BY <2>2, <2>3
<1>7. ASSUME NEW d \in Delivery, NEW c \in Conv, CreateConv(d, c) PROVE TypeOK'
  BY <1>7 DEF CreateConv, Goto, Busy, rows, locals
<1>8. ASSUME NEW d \in Delivery, CreateMessage(d) PROVE TypeOK'
  <2>1. MessageOf[d] \in WaMessage /\ conv[d] \in Conv
    BY <1>8 DEF CreateMessage
  <2>2. CASE Rejected(d)
    BY <2>2, <1>8 DEF CreateMessage, Goto
  <2>3. CASE ~Rejected(d)
    BY <2>1, <2>3, <1>8 DEF CreateMessage, Goto
  <2> QED
    BY <2>2, <2>3
<1>9. ASSUME NEW d \in Delivery, UpdateConv(d) PROVE TypeOK'
  BY <1>9 DEF UpdateConv, RecordMessage, Goto, Busy, rows, locals
<1>10. ASSUME NEW d \in Delivery, FindLead(d) PROVE TypeOK'
  BY <1>10 DEF FindLead, Goto, Busy, rows, locals
<1>11. ASSUME NEW d \in Delivery, CreateLead(d) PROVE TypeOK'
  BY <1>11 DEF CreateLead, Goto, Busy, rows, locals
<1>12. ASSUME NEW d \in Delivery, LeadFails(d) PROVE TypeOK'
  BY <1>12 DEF LeadFails, Goto, Busy, rows, locals
<1>13. ASSUME NEW d \in Delivery, TriggerAI(d) PROVE TypeOK'
  BY <1>13 DEF TriggerAI, Goto, Busy, rows, locals
<1>14. ASSUME NEW d \in Delivery, DbFails(d) PROVE TypeOK'
  BY <1>14 DEF DbFails, Goto, Busy, rows, locals
<1>15. ASSUME NEW w \in Writer, NEW c \in Conv, SendFind(w, c) PROVE TypeOK'
  BY <1>15 DEF SendFind, RecordMessage, Goto, Busy, rows, locals
<1>16. ASSUME NEW w \in Writer, NEW c \in Conv, ReadFind(w, c) PROVE TypeOK'
  BY <1>16 DEF ReadFind, Goto, Busy, rows, locals
<1>17. ASSUME NEW w \in Writer, WriterSave(w) PROVE TypeOK'
  BY <1>17 DEF WriterSave, Goto, Busy, rows, locals
<1>18. ASSUME NEW w \in Writer, WriterGivesUp(w) PROVE TypeOK'
  BY <1>18 DEF WriterGivesUp, Goto, Busy, rows, locals
<1>19. ASSUME NEW n \in Noter, NoteFind(n) PROVE TypeOK'
  BY <1>19 DEF NoteFind, Goto, Busy, rows, locals
<1>20. ASSUME NEW n \in Noter, NoteCreateLead(n) PROVE TypeOK'
  BY <1>20 DEF NoteCreateLead, Goto, Busy, rows, locals
<1>21. ASSUME NEW n \in Noter, NoteFails(n) PROVE TypeOK'
  BY <1>21 DEF NoteFails, Goto, Busy, rows, locals
<1>22. CASE Crash
  BY <1>22 DEF Crash, Goto, Busy, rows, locals
<1>23. CASE UNCHANGED vars
  BY <1>23 DEF vars, rows, locals
<1> HIDE DEF TypeOK, Located, Knows, Phase, Writing, NotWriting
<1> QED
  BY <1>1, <1>2, <1>3, <1>4, <1>5, <1>6, <1>7, <1>8, <1>9, <1>10, <1>11, <1>12, <1>13, <1>14,
     <1>15, <1>16, <1>17, <1>18, <1>19, <1>20, <1>21, <1>22, <1>23 DEF Next, Receive, Lookup, Store, Write, Note

\* A delivery that knows its conversation keeps it.
LEMMA LocatedNext ==
  TypeOK /\ Located /\ [Next]_vars => Located'
<1> SUFFICES ASSUME TypeOK, Located, [Next]_vars PROVE Located'
  OBVIOUS
<1> USE DEF TypeOK, Located, Knows, Phase, Writing, NotWriting
<1>1. ASSUME NEW d \in Delivery, Deliver(d) PROVE Located'
  BY <1>1 DEF Deliver, Goto, Busy, rows, locals
<1>2. ASSUME NEW d \in Delivery, Discard(d) PROVE Located'
  BY <1>2 DEF Discard, Goto, Busy, rows, locals
<1>3. ASSUME NEW d \in Delivery, NotDuplicate(d) PROVE Located'
  BY <1>3 DEF NotDuplicate, Goto, Busy, rows, locals
<1>4. ASSUME NEW d \in Delivery, FindContact(d) PROVE Located'
  BY <1>4 DEF FindContact, Goto, Busy, rows, locals
<1>5. ASSUME NEW d \in Delivery, CreateContact(d) PROVE Located'
  BY <1>5 DEF CreateContact, Goto, Busy, rows, locals
<1>6. ASSUME NEW d \in Delivery, FindConv(d) PROVE Located'
  <2>1. exists # {} => First(exists) \in Conv
    BY FirstExists
  <2> QED
    BY <1>6, <2>1 DEF FindConv, OpenConvs, Goto, Busy, rows, locals
<1>7. ASSUME NEW d \in Delivery, NEW c \in Conv, CreateConv(d, c) PROVE Located'
  BY <1>7 DEF CreateConv, Goto, Busy, rows, locals
<1>8. ASSUME NEW d \in Delivery, CreateMessage(d) PROVE Located'
  BY <1>8 DEF CreateMessage, Rejected, Goto, Busy, rows, locals
<1>9. ASSUME NEW d \in Delivery, UpdateConv(d) PROVE Located'
  BY <1>9 DEF UpdateConv, RecordMessage, Goto, Busy, rows, locals
<1>10. ASSUME NEW d \in Delivery, FindLead(d) PROVE Located'
  BY <1>10 DEF FindLead, Goto, Busy, rows, locals
<1>11. ASSUME NEW d \in Delivery, CreateLead(d) PROVE Located'
  BY <1>11 DEF CreateLead, Goto, Busy, rows, locals
<1>12. ASSUME NEW d \in Delivery, LeadFails(d) PROVE Located'
  BY <1>12 DEF LeadFails, Goto, Busy, rows, locals
<1>13. ASSUME NEW d \in Delivery, TriggerAI(d) PROVE Located'
  BY <1>13 DEF TriggerAI, Goto, Busy, rows, locals
<1>14. ASSUME NEW d \in Delivery, DbFails(d) PROVE Located'
  BY <1>14 DEF DbFails, Goto, Busy, rows, locals
<1>15. ASSUME NEW w \in Writer, NEW c \in Conv, SendFind(w, c) PROVE Located'
  BY <1>15 DEF SendFind, RecordMessage, Goto, Busy, rows, locals
<1>16. ASSUME NEW w \in Writer, NEW c \in Conv, ReadFind(w, c) PROVE Located'
  BY <1>16 DEF ReadFind, Goto, Busy, rows, locals
<1>17. ASSUME NEW w \in Writer, WriterSave(w) PROVE Located'
  BY <1>17 DEF WriterSave, Goto, Busy, rows, locals
<1>18. ASSUME NEW w \in Writer, WriterGivesUp(w) PROVE Located'
  BY <1>18 DEF WriterGivesUp, Goto, Busy, rows, locals
<1>19. ASSUME NEW n \in Noter, NoteFind(n) PROVE Located'
  BY <1>19 DEF NoteFind, Goto, Busy, rows, locals
<1>20. ASSUME NEW n \in Noter, NoteCreateLead(n) PROVE Located'
  BY <1>20 DEF NoteCreateLead, Goto, Busy, rows, locals
<1>21. ASSUME NEW n \in Noter, NoteFails(n) PROVE Located'
  BY <1>21 DEF NoteFails, Goto, Busy, rows, locals
<1>22. CASE Crash
  BY <1>22 DEF Crash, Goto, Busy, rows, locals
<1>23. CASE UNCHANGED vars
  BY <1>23 DEF vars, rows, locals
<1> HIDE DEF TypeOK, Located, Knows, Phase, Writing, NotWriting
<1> QED
  BY <1>1, <1>2, <1>3, <1>4, <1>5, <1>6, <1>7, <1>8, <1>9, <1>10, <1>11, <1>12, <1>13, <1>14,
     <1>15, <1>16, <1>17, <1>18, <1>19, <1>20, <1>21, <1>22, <1>23 DEF Next, Receive, Lookup, Store, Write, Note

\* CreateMessage lets one delivery of a message past, whatever runs beside it.
LEMMA OnlyOnePastNext ==
  TypeOK /\ Located /\ OnlyOnePast /\ TriggeredIsStored /\ [Next]_vars => OnlyOnePast'
<1> SUFFICES ASSUME TypeOK, Located, OnlyOnePast, TriggeredIsStored, [Next]_vars PROVE OnlyOnePast'
  OBVIOUS
<1> USE DEF TypeOK, Located, Knows, Phase, OnlyOnePast, Past, Stored, TriggeredIsStored
<1>1. ASSUME NEW d \in Delivery, Deliver(d) PROVE OnlyOnePast'
  BY <1>1 DEF Deliver, Goto, Busy, rows, locals
<1>2. ASSUME NEW d \in Delivery, Discard(d) PROVE OnlyOnePast'
  BY <1>2 DEF Discard, Goto, Busy, rows, locals
<1>3. ASSUME NEW d \in Delivery, NotDuplicate(d) PROVE OnlyOnePast'
  BY <1>3 DEF NotDuplicate, Goto, Busy, rows, locals
<1>4. ASSUME NEW d \in Delivery, FindContact(d) PROVE OnlyOnePast'
  BY <1>4 DEF FindContact, Goto, Busy, rows, locals
<1>5. ASSUME NEW d \in Delivery, CreateContact(d) PROVE OnlyOnePast'
  BY <1>5 DEF CreateContact, Goto, Busy, rows, locals
<1>6. ASSUME NEW d \in Delivery, FindConv(d) PROVE OnlyOnePast'
  BY <1>6 DEF FindConv, OpenConvs, Goto, Busy, rows, locals
<1>7. ASSUME NEW d \in Delivery, NEW c \in Conv, CreateConv(d, c) PROVE OnlyOnePast'
  BY <1>7 DEF CreateConv, Goto, Busy, rows, locals
<1>8. ASSUME NEW d \in Delivery, CreateMessage(d) PROVE OnlyOnePast'
  <2>1. CASE Rejected(d)
    BY <2>1, <1>8 DEF CreateMessage, Goto
  <2>2. CASE ~Rejected(d)
    <3>1. /\ stored[MessageOf[d]] = NoConv /\ pc[d] = "message"
          /\ stored' = [stored EXCEPT ![MessageOf[d]] = conv[d]]
          /\ pc' = [pc EXCEPT ![d] = "update"] /\ UNCHANGED triggered
      BY <2>2, <1>8 DEF CreateMessage, Rejected, Goto
    <3>2. conv[d] \in Conv /\ MessageOf[d] \in WaMessage
      BY <3>1
    <3>3. \A e \in Delivery : Past(e) => MessageOf[e] # MessageOf[d]
      BY <3>1
    <3>4. triggered[MessageOf[d]] = 0
      <4>1. triggered[MessageOf[d]] \in Nat /\ triggered[MessageOf[d]] <= 1
        BY <3>2
      <4>2. triggered[MessageOf[d]] # 1
        BY <3>1, <3>2
      <4> HIDE DEF TypeOK, Located, OnlyOnePast, TriggeredIsStored
      <4> QED
        BY <4>1, <4>2
    <3>5. \A e \in Delivery : Past(e)' => e = d \/ Past(e)
      BY <3>1
    <3>6. ASSUME NEW e \in Delivery, Past(e)' PROVE Stored(e)' /\ triggered'[MessageOf[e]] = 0
      BY <3>1, <3>2, <3>3, <3>4, <3>5, <3>6
    <3>7. ASSUME NEW e \in Delivery, NEW f \in Delivery, Past(e)', Past(f)',
                 MessageOf[e] = MessageOf[f]
          PROVE  e = f
      BY <3>3, <3>5, <3>7
    <3> QED
      BY <3>6, <3>7
  <2> QED
    BY <2>1, <2>2
<1>9. ASSUME NEW d \in Delivery, UpdateConv(d) PROVE OnlyOnePast'
  BY <1>9 DEF UpdateConv, RecordMessage, Goto, Busy, rows, locals
<1>10. ASSUME NEW d \in Delivery, FindLead(d) PROVE OnlyOnePast'
  BY <1>10 DEF FindLead, Goto, Busy, rows, locals
<1>11. ASSUME NEW d \in Delivery, CreateLead(d) PROVE OnlyOnePast'
  BY <1>11 DEF CreateLead, Goto, Busy, rows, locals
<1>12. ASSUME NEW d \in Delivery, LeadFails(d) PROVE OnlyOnePast'
  BY <1>12 DEF LeadFails, Goto, Busy, rows, locals
<1>13. ASSUME NEW d \in Delivery, TriggerAI(d) PROVE OnlyOnePast'
  BY <1>13 DEF TriggerAI, Goto, Busy, rows, locals
<1>14. ASSUME NEW d \in Delivery, DbFails(d) PROVE OnlyOnePast'
  BY <1>14 DEF DbFails, Goto, Busy, rows, locals
<1>15. ASSUME NEW w \in Writer, NEW c \in Conv, SendFind(w, c) PROVE OnlyOnePast'
  BY <1>15 DEF SendFind, RecordMessage, Goto, Busy, rows, locals
<1>16. ASSUME NEW w \in Writer, NEW c \in Conv, ReadFind(w, c) PROVE OnlyOnePast'
  BY <1>16 DEF ReadFind, Goto, Busy, rows, locals
<1>17. ASSUME NEW w \in Writer, WriterSave(w) PROVE OnlyOnePast'
  BY <1>17 DEF WriterSave, Goto, Busy, rows, locals
<1>18. ASSUME NEW w \in Writer, WriterGivesUp(w) PROVE OnlyOnePast'
  BY <1>18 DEF WriterGivesUp, Goto, Busy, rows, locals
<1>19. ASSUME NEW n \in Noter, NoteFind(n) PROVE OnlyOnePast'
  BY <1>19 DEF NoteFind, Goto, Busy, rows, locals
<1>20. ASSUME NEW n \in Noter, NoteCreateLead(n) PROVE OnlyOnePast'
  BY <1>20 DEF NoteCreateLead, Goto, Busy, rows, locals
<1>21. ASSUME NEW n \in Noter, NoteFails(n) PROVE OnlyOnePast'
  BY <1>21 DEF NoteFails, Goto, Busy, rows, locals
<1>22. CASE Crash
  BY <1>22 DEF Crash, Goto, Busy, rows, locals
<1>23. CASE UNCHANGED vars
  BY <1>23 DEF vars, rows, locals
<1> HIDE DEF TypeOK, Located, Knows, Phase, OnlyOnePast, Past, Stored, TriggeredIsStored
<1> QED
  BY <1>1, <1>2, <1>3, <1>4, <1>5, <1>6, <1>7, <1>8, <1>9, <1>10, <1>11, <1>12, <1>13, <1>14,
     <1>15, <1>16, <1>17, <1>18, <1>19, <1>20, <1>21, <1>22, <1>23 DEF Next, Receive, Lookup, Store, Write, Note

\* Only a delivery past CreateMessage triggers.
LEMMA TriggeredNext ==
  TypeOK /\ Located /\ OnlyOnePast /\ TriggeredIsStored /\ [Next]_vars => TriggeredIsStored'
<1> SUFFICES ASSUME TypeOK, Located, OnlyOnePast, TriggeredIsStored, [Next]_vars PROVE TriggeredIsStored'
  OBVIOUS
<1> USE DEF TypeOK, Located, Knows, Phase, OnlyOnePast, Past, Stored, TriggeredIsStored
<1>1. ASSUME NEW d \in Delivery, Deliver(d) PROVE TriggeredIsStored'
  BY <1>1 DEF Deliver, Goto, Busy, rows, locals
<1>2. ASSUME NEW d \in Delivery, Discard(d) PROVE TriggeredIsStored'
  BY <1>2 DEF Discard, Goto, Busy, rows, locals
<1>3. ASSUME NEW d \in Delivery, NotDuplicate(d) PROVE TriggeredIsStored'
  BY <1>3 DEF NotDuplicate, Goto, Busy, rows, locals
<1>4. ASSUME NEW d \in Delivery, FindContact(d) PROVE TriggeredIsStored'
  BY <1>4 DEF FindContact, Goto, Busy, rows, locals
<1>5. ASSUME NEW d \in Delivery, CreateContact(d) PROVE TriggeredIsStored'
  BY <1>5 DEF CreateContact, Goto, Busy, rows, locals
<1>6. ASSUME NEW d \in Delivery, FindConv(d) PROVE TriggeredIsStored'
  BY <1>6 DEF FindConv, OpenConvs, Goto, Busy, rows, locals
<1>7. ASSUME NEW d \in Delivery, NEW c \in Conv, CreateConv(d, c) PROVE TriggeredIsStored'
  BY <1>7 DEF CreateConv, Goto, Busy, rows, locals
<1>8. ASSUME NEW d \in Delivery, CreateMessage(d) PROVE TriggeredIsStored'
  BY <1>8 DEF CreateMessage, Rejected, Goto, Busy, rows, locals
<1>9. ASSUME NEW d \in Delivery, UpdateConv(d) PROVE TriggeredIsStored'
  BY <1>9 DEF UpdateConv, RecordMessage, Goto, Busy, rows, locals
<1>10. ASSUME NEW d \in Delivery, FindLead(d) PROVE TriggeredIsStored'
  BY <1>10 DEF FindLead, Goto, Busy, rows, locals
<1>11. ASSUME NEW d \in Delivery, CreateLead(d) PROVE TriggeredIsStored'
  BY <1>11 DEF CreateLead, Goto, Busy, rows, locals
<1>12. ASSUME NEW d \in Delivery, LeadFails(d) PROVE TriggeredIsStored'
  BY <1>12 DEF LeadFails, Goto, Busy, rows, locals
<1>13. ASSUME NEW d \in Delivery, TriggerAI(d) PROVE TriggeredIsStored'
  BY <1>13 DEF TriggerAI, Goto, Busy, rows, locals
<1>14. ASSUME NEW d \in Delivery, DbFails(d) PROVE TriggeredIsStored'
  BY <1>14 DEF DbFails, Goto, Busy, rows, locals
<1>15. ASSUME NEW w \in Writer, NEW c \in Conv, SendFind(w, c) PROVE TriggeredIsStored'
  BY <1>15 DEF SendFind, RecordMessage, Goto, Busy, rows, locals
<1>16. ASSUME NEW w \in Writer, NEW c \in Conv, ReadFind(w, c) PROVE TriggeredIsStored'
  BY <1>16 DEF ReadFind, Goto, Busy, rows, locals
<1>17. ASSUME NEW w \in Writer, WriterSave(w) PROVE TriggeredIsStored'
  BY <1>17 DEF WriterSave, Goto, Busy, rows, locals
<1>18. ASSUME NEW w \in Writer, WriterGivesUp(w) PROVE TriggeredIsStored'
  BY <1>18 DEF WriterGivesUp, Goto, Busy, rows, locals
<1>19. ASSUME NEW n \in Noter, NoteFind(n) PROVE TriggeredIsStored'
  BY <1>19 DEF NoteFind, Goto, Busy, rows, locals
<1>20. ASSUME NEW n \in Noter, NoteCreateLead(n) PROVE TriggeredIsStored'
  BY <1>20 DEF NoteCreateLead, Goto, Busy, rows, locals
<1>21. ASSUME NEW n \in Noter, NoteFails(n) PROVE TriggeredIsStored'
  BY <1>21 DEF NoteFails, Goto, Busy, rows, locals
<1>22. CASE Crash
  BY <1>22 DEF Crash, Goto, Busy, rows, locals
<1>23. CASE UNCHANGED vars
  BY <1>23 DEF vars, rows, locals
<1> HIDE DEF TypeOK, Located, Knows, Phase, OnlyOnePast, Past, Stored, TriggeredIsStored
<1> QED
  BY <1>1, <1>2, <1>3, <1>4, <1>5, <1>6, <1>7, <1>8, <1>9, <1>10, <1>11, <1>12, <1>13, <1>14,
     <1>15, <1>16, <1>17, <1>18, <1>19, <1>20, <1>21, <1>22, <1>23 DEF Next, Receive, Lookup, Store, Write, Note

\* Storing a message adds one to its own conversation's count and to no other.
LEMMA StoringAddsOne ==
  ASSUME TypeOK, FiniteConvs, NEW m \in WaMessage, NEW k \in Conv,
         stored[m] = NoConv, stored' = [stored EXCEPT ![m] = k]
  PROVE  FiniteConvs' /\ Count' = [Count EXCEPT ![k] = @ + 1]
<1>1. ASSUME NEW c \in Conv, c # k PROVE InConv(c)' = InConv(c)
  BY <1>1 DEF InConv, TypeOK
<1>2. InConv(k)' = InConv(k) \cup {m}
  BY DEF InConv, TypeOK
<1>3. m \notin InConv(k) /\ IsFiniteSet(InConv(k))
  BY DEF InConv, FiniteConvs
<1>4. IsFiniteSet(InConv(k)')
  BY <1>2, <1>3, FS_AddElement
<1>5. Cardinality(InConv(k)') = Cardinality(InConv(k)) + 1
  BY <1>2, <1>3, FS_AddElement
<1>6. FiniteConvs'
  BY <1>1, <1>4 DEF FiniteConvs
<1>7. Count' = [Count EXCEPT ![k] = @ + 1]
  BY <1>1, <1>5 DEF Count
<1> QED
  BY <1>6, <1>7

\* An action that stores nothing leaves every conversation's messages alone.
LEMMA SameMessages ==
  ASSUME UNCHANGED stored PROVE (FiniteConvs => FiniteConvs') /\ UNCHANGED Count
<1> QED
  BY DEF InConv, FiniteConvs, Count

\* The count of a conversation's messages is a natural number.
LEMMA CountIsNat ==
  ASSUME FiniteConvs PROVE Count \in [Conv -> Nat]
<1> QED
  BY FS_CardinalityType DEF FiniteConvs, Count

\* Conversations stay finite.
LEMMA FiniteNext ==
  TypeOK /\ Located /\ FiniteConvs /\ [Next]_vars => FiniteConvs'
<1> SUFFICES ASSUME TypeOK, Located, FiniteConvs, [Next]_vars PROVE FiniteConvs'
  OBVIOUS
<1> USE DEF TypeOK, Located, Knows
<1>1. ASSUME NEW d \in Delivery, Deliver(d) PROVE FiniteConvs'
  BY <1>1, SameMessages DEF Deliver, Goto, Busy, rows, locals
<1>2. ASSUME NEW d \in Delivery, Discard(d) PROVE FiniteConvs'
  BY <1>2, SameMessages DEF Discard, Goto, Busy, rows, locals
<1>3. ASSUME NEW d \in Delivery, NotDuplicate(d) PROVE FiniteConvs'
  BY <1>3, SameMessages DEF NotDuplicate, Goto, Busy, rows, locals
<1>4. ASSUME NEW d \in Delivery, FindContact(d) PROVE FiniteConvs'
  BY <1>4, SameMessages DEF FindContact, Goto, Busy, rows, locals
<1>5. ASSUME NEW d \in Delivery, CreateContact(d) PROVE FiniteConvs'
  BY <1>5, SameMessages DEF CreateContact, Goto, Busy, rows, locals
<1>6. ASSUME NEW d \in Delivery, FindConv(d) PROVE FiniteConvs'
  BY <1>6, SameMessages DEF FindConv, OpenConvs, Goto, Busy, rows, locals
<1>7. ASSUME NEW d \in Delivery, NEW c \in Conv, CreateConv(d, c) PROVE FiniteConvs'
  BY <1>7, SameMessages DEF CreateConv, Goto, Busy, rows, locals
<1>8. ASSUME NEW d \in Delivery, CreateMessage(d) PROVE FiniteConvs'
  <2>1. CASE Rejected(d)
    BY <2>1, <1>8, SameMessages DEF CreateMessage
  <2>2. CASE ~Rejected(d)
    <3>1. stored[MessageOf[d]] = NoConv /\ stored' = [stored EXCEPT ![MessageOf[d]] = conv[d]]
      BY <2>2, <1>8 DEF CreateMessage, Rejected, Stored
    <3>2. conv[d] \in Conv /\ MessageOf[d] \in WaMessage
      BY <1>8 DEF CreateMessage
    <3> QED
      BY <3>1, <3>2, StoringAddsOne
  <2> QED
    BY <2>1, <2>2
<1>9. ASSUME NEW d \in Delivery, UpdateConv(d) PROVE FiniteConvs'
  BY <1>9, SameMessages DEF UpdateConv, RecordMessage, Goto, Busy, rows, locals
<1>10. ASSUME NEW d \in Delivery, FindLead(d) PROVE FiniteConvs'
  BY <1>10, SameMessages DEF FindLead, Goto, Busy, rows, locals
<1>11. ASSUME NEW d \in Delivery, CreateLead(d) PROVE FiniteConvs'
  BY <1>11, SameMessages DEF CreateLead, Goto, Busy, rows, locals
<1>12. ASSUME NEW d \in Delivery, LeadFails(d) PROVE FiniteConvs'
  BY <1>12, SameMessages DEF LeadFails, Goto, Busy, rows, locals
<1>13. ASSUME NEW d \in Delivery, TriggerAI(d) PROVE FiniteConvs'
  BY <1>13, SameMessages DEF TriggerAI, Goto, Busy, rows, locals
<1>14. ASSUME NEW d \in Delivery, DbFails(d) PROVE FiniteConvs'
  BY <1>14, SameMessages DEF DbFails, Goto, Busy, rows, locals
<1>15. ASSUME NEW w \in Writer, NEW c \in Conv, SendFind(w, c) PROVE FiniteConvs'
  BY <1>15, SameMessages DEF SendFind, RecordMessage, Goto, Busy, rows, locals
<1>16. ASSUME NEW w \in Writer, NEW c \in Conv, ReadFind(w, c) PROVE FiniteConvs'
  BY <1>16, SameMessages DEF ReadFind, Goto, Busy, rows, locals
<1>17. ASSUME NEW w \in Writer, WriterSave(w) PROVE FiniteConvs'
  BY <1>17, SameMessages DEF WriterSave, Goto, Busy, rows, locals
<1>18. ASSUME NEW w \in Writer, WriterGivesUp(w) PROVE FiniteConvs'
  BY <1>18, SameMessages DEF WriterGivesUp, Goto, Busy, rows, locals
<1>19. ASSUME NEW n \in Noter, NoteFind(n) PROVE FiniteConvs'
  BY <1>19, SameMessages DEF NoteFind, Goto, Busy, rows, locals
<1>20. ASSUME NEW n \in Noter, NoteCreateLead(n) PROVE FiniteConvs'
  BY <1>20, SameMessages DEF NoteCreateLead, Goto, Busy, rows, locals
<1>21. ASSUME NEW n \in Noter, NoteFails(n) PROVE FiniteConvs'
  BY <1>21, SameMessages DEF NoteFails, Goto, Busy, rows, locals
<1>22. CASE Crash
  BY <1>22, SameMessages DEF Crash, Goto, Busy, rows, locals
<1>23. CASE UNCHANGED vars
  BY <1>23, SameMessages DEF vars, rows, locals
<1> HIDE DEF TypeOK, Located, Knows
<1> QED
  BY <1>1, <1>2, <1>3, <1>4, <1>5, <1>6, <1>7, <1>8, <1>9, <1>10, <1>11, <1>12, <1>13, <1>14,
     <1>15, <1>16, <1>17, <1>18, <1>19, <1>20, <1>21, <1>22, <1>23 DEF Next, Receive, Lookup, Store, Write, Note

\* No stale copy runs ahead of the messages.
LEMMA CopiesNext ==
  TypeOK /\ Located /\ FiniteConvs /\ CopiesBounded /\ [Next]_vars => CopiesBounded'
<1> SUFFICES ASSUME TypeOK, Located, FiniteConvs, CopiesBounded, [Next]_vars PROVE CopiesBounded'
  OBVIOUS
<1> USE DEF TypeOK, Located, Knows, Phase, Writing, NotWriting, CopiesBounded
<1>1. ASSUME NEW d \in Delivery, Deliver(d) PROVE CopiesBounded'
  <2>1. UNCHANGED stored
    BY <1>1 DEF Deliver, Goto, Busy, rows, locals
  <2>2. UNCHANGED Count /\ Count \in [Conv -> Nat]
    BY <2>1, SameMessages, CountIsNat
  <2> QED
    BY <1>1, <2>2 DEF Deliver, Goto, Busy, rows, locals
<1>2. ASSUME NEW d \in Delivery, Discard(d) PROVE CopiesBounded'
  <2>1. UNCHANGED stored
    BY <1>2 DEF Discard, Goto, Busy, rows, locals
  <2>2. UNCHANGED Count /\ Count \in [Conv -> Nat]
    BY <2>1, SameMessages, CountIsNat
  <2> QED
    BY <1>2, <2>2 DEF Discard, Goto, Busy, rows, locals
<1>3. ASSUME NEW d \in Delivery, NotDuplicate(d) PROVE CopiesBounded'
  <2>1. UNCHANGED stored
    BY <1>3 DEF NotDuplicate, Goto, Busy, rows, locals
  <2>2. UNCHANGED Count /\ Count \in [Conv -> Nat]
    BY <2>1, SameMessages, CountIsNat
  <2> QED
    BY <1>3, <2>2 DEF NotDuplicate, Goto, Busy, rows, locals
<1>4. ASSUME NEW d \in Delivery, FindContact(d) PROVE CopiesBounded'
  <2>1. UNCHANGED stored
    BY <1>4 DEF FindContact, Goto, Busy, rows, locals
  <2>2. UNCHANGED Count /\ Count \in [Conv -> Nat]
    BY <2>1, SameMessages, CountIsNat
  <2> QED
    BY <1>4, <2>2 DEF FindContact, Goto, Busy, rows, locals
<1>5. ASSUME NEW d \in Delivery, CreateContact(d) PROVE CopiesBounded'
  <2>1. UNCHANGED stored
    BY <1>5 DEF CreateContact, Goto, Busy, rows, locals
  <2>2. UNCHANGED Count /\ Count \in [Conv -> Nat]
    BY <2>1, SameMessages, CountIsNat
  <2> QED
    BY <1>5, <2>2 DEF CreateContact, Goto, Busy, rows, locals
<1>6. ASSUME NEW d \in Delivery, FindConv(d) PROVE CopiesBounded'
  <2>1. UNCHANGED stored
    BY <1>6 DEF FindConv, OpenConvs, Goto, Busy, rows, locals
  <2>2. UNCHANGED Count /\ Count \in [Conv -> Nat]
    BY <2>1, SameMessages, CountIsNat
  <2>3. exists # {} => First(exists) \in Conv
    BY FirstExists
  <2> QED
    BY <1>6, <2>2, <2>3, ZenonT(40) DEF FindConv, OpenConvs, Goto, Busy, rows, locals
<1>7. ASSUME NEW d \in Delivery, NEW c \in Conv, CreateConv(d, c) PROVE CopiesBounded'
  <2>1. UNCHANGED stored
    BY <1>7 DEF CreateConv, Goto, Busy, rows, locals
  <2>2. UNCHANGED Count /\ Count \in [Conv -> Nat]
    BY <2>1, SameMessages, CountIsNat
  <2> QED
    BY <1>7, <2>2 DEF CreateConv, Goto, Busy, rows, locals
<1>8. ASSUME NEW d \in Delivery, CreateMessage(d) PROVE CopiesBounded'
  <2>0. Count \in [Conv -> Nat]
    BY CountIsNat
  <2>1. CASE Rejected(d)
    <3>1. UNCHANGED <<stored, unread, conv, copy, writer>> /\ pc' = [pc EXCEPT ![d] = "over"]
      BY <2>1, <1>8 DEF CreateMessage, Goto
    <3>2. UNCHANGED Count
      BY <3>1, SameMessages
    <3> QED
      BY <2>0, <3>1, <3>2
  <2>2. CASE ~Rejected(d)
    <3>1. stored[MessageOf[d]] = NoConv /\ stored' = [stored EXCEPT ![MessageOf[d]] = conv[d]]
      BY <2>2, <1>8 DEF CreateMessage, Rejected, Stored
    <3>2. conv[d] \in Conv /\ MessageOf[d] \in WaMessage
      BY <1>8 DEF CreateMessage
    <3>3. Count' = [Count EXCEPT ![conv[d]] = @ + 1]
      BY <3>1, <3>2, StoringAddsOne
    <3>4. pc' = [pc EXCEPT ![d] = "update"] /\ pc[d] = "message"
      BY <2>2, <1>8 DEF CreateMessage, Goto
    <3>5. UNCHANGED <<unread, conv, copy, writer>>
      BY <2>2, <1>8 DEF CreateMessage
    <3>6. \A c \in Conv : Count'[c] \in Nat /\ Count[c] \in Nat /\ Count[c] <= Count'[c]
      BY <2>0, <3>2, <3>3
    <3>7. copy[d] < Count'[conv[d]]
      <4>1. copy[d] <= Count[conv[d]] /\ copy[d] \in Nat /\ Count[conv[d]] \in Nat
        BY <2>0, <3>2, <3>4
      <4>2. Count'[conv[d]] = Count[conv[d]] + 1
        BY <2>0, <3>2, <3>3
      <4> QED
        BY <4>1, <4>2
    <3>8. \A c \in Conv : unread'[c] <= Count'[c]
      BY <3>5, <3>6
    <3>9. ASSUME NEW e \in Delivery
          PROVE  /\ pc'[e] = "message" => copy'[e] <= Count'[conv'[e]]
                 /\ pc'[e] = "update" => copy'[e] < Count'[conv'[e]]
      <4>1. CASE e = d
        BY <4>1, <3>4, <3>5, <3>7
      <4>2. CASE e # d
        <5>1. pc'[e] = pc[e] /\ copy'[e] = copy[e] /\ conv'[e] = conv[e] /\ copy[e] \in Nat
          BY <4>2, <3>4, <3>5
        <5>2. pc[e] \in {"message", "update"} => conv[e] \in Conv
          OBVIOUS
        <5>3. pc[e] = "message" => copy[e] <= Count[conv[e]]
          OBVIOUS
        <5>4. pc[e] = "update" => copy[e] < Count[conv[e]]
          OBVIOUS
        <5> HIDE DEF TypeOK, Located, CopiesBounded
        <5>5. ASSUME NEW a \in Nat, NEW b \in Nat, NEW c \in Nat, b <= c
              PROVE  (a <= b => a <= c) /\ (a < b => a < c)
          BY <5>5
        <5>6. ASSUME conv[e] \in Conv
              PROVE  /\ copy[e] <= Count[conv[e]] => copy[e] <= Count'[conv[e]]
                     /\ copy[e] < Count[conv[e]] => copy[e] < Count'[conv[e]]
          BY <5>1, <5>5, <5>6, <3>6
        <5> QED
          BY <5>1, <5>2, <5>3, <5>4, <5>6
      <4> QED
        BY <4>1, <4>2
    <3>10. \A w \in Writer :
             writer'[w].stage = "save" => writer'[w].unread <= Count'[writer'[w].conv]
      <4>1. \A w \in Writer :
              writer[w].stage = "save" =>
                /\ writer[w].conv \in Conv /\ writer[w].unread \in Nat
                /\ writer[w].unread <= Count[writer[w].conv]
        OBVIOUS
      <4> HIDE DEF TypeOK, Located, CopiesBounded
      <4>2. ASSUME NEW a \in Nat, NEW b \in Nat, NEW c \in Nat, a <= b, b <= c
            PROVE  a <= c
        BY <4>2
      <4>3. ASSUME NEW w \in Writer, writer[w].stage = "save"
            PROVE  writer[w].unread <= Count'[writer[w].conv]
        BY <4>1, <4>2, <4>3, <3>6
      <4> QED
        BY <4>3, <3>5
    <3> QED
      BY <3>8, <3>9, <3>10
  <2> QED
    BY <2>1, <2>2
<1>9. ASSUME NEW d \in Delivery, UpdateConv(d) PROVE CopiesBounded'
  <2>1. UNCHANGED <<stored, conv, copy, writer>> /\ pc' = [pc EXCEPT ![d] = "findLead"]
    BY <1>9 DEF UpdateConv, Goto
  <2>2. UNCHANGED Count /\ Count \in [Conv -> Nat]
    BY <2>1, SameMessages, CountIsNat
  <2>3. unread' = [unread EXCEPT ![conv[d]] = copy[d] + 1] /\ pc[d] = "update"
    BY <1>9 DEF UpdateConv, RecordMessage
  <2>3a. conv[d] \in Conv /\ copy[d] \in Nat
    BY <2>3
  <2>3b. copy[d] < Count[conv[d]]
    BY <2>3
  <2>4. copy[d] + 1 <= Count[conv[d]] /\ conv[d] \in Conv
    <3> HIDE DEF TypeOK, Located, CopiesBounded
    <3>1. Count[conv[d]] \in Nat
      BY <2>2, <2>3a
    <3>2. ASSUME NEW a \in Nat, NEW b \in Nat, a < b PROVE a + 1 <= b
      BY <3>2
    <3> QED
      BY <2>3a, <2>3b, <3>1, <3>2
  <2>5. \A c \in Conv : unread'[c] <= Count[c]
    BY <2>2, <2>3, <2>4
  <2> QED
    BY <2>1, <2>2, <2>5
<1>10. ASSUME NEW d \in Delivery, FindLead(d) PROVE CopiesBounded'
  <2>1. UNCHANGED stored
    BY <1>10 DEF FindLead, Goto, Busy, rows, locals
  <2>2. UNCHANGED Count /\ Count \in [Conv -> Nat]
    BY <2>1, SameMessages, CountIsNat
  <2> QED
    BY <1>10, <2>2 DEF FindLead, Goto, Busy, rows, locals
<1>11. ASSUME NEW d \in Delivery, CreateLead(d) PROVE CopiesBounded'
  <2>1. UNCHANGED stored
    BY <1>11 DEF CreateLead, Goto, Busy, rows, locals
  <2>2. UNCHANGED Count /\ Count \in [Conv -> Nat]
    BY <2>1, SameMessages, CountIsNat
  <2> QED
    BY <1>11, <2>2 DEF CreateLead, Goto, Busy, rows, locals
<1>12. ASSUME NEW d \in Delivery, LeadFails(d) PROVE CopiesBounded'
  <2>1. UNCHANGED stored
    BY <1>12 DEF LeadFails, Goto, Busy, rows, locals
  <2>2. UNCHANGED Count /\ Count \in [Conv -> Nat]
    BY <2>1, SameMessages, CountIsNat
  <2> QED
    BY <1>12, <2>2 DEF LeadFails, Goto, Busy, rows, locals
<1>13. ASSUME NEW d \in Delivery, TriggerAI(d) PROVE CopiesBounded'
  <2>1. UNCHANGED stored
    BY <1>13 DEF TriggerAI, Goto, Busy, rows, locals
  <2>2. UNCHANGED Count /\ Count \in [Conv -> Nat]
    BY <2>1, SameMessages, CountIsNat
  <2> QED
    BY <1>13, <2>2 DEF TriggerAI, Goto, Busy, rows, locals
<1>14. ASSUME NEW d \in Delivery, DbFails(d) PROVE CopiesBounded'
  <2>1. UNCHANGED stored
    BY <1>14 DEF DbFails, Goto, Busy, rows, locals
  <2>2. UNCHANGED Count /\ Count \in [Conv -> Nat]
    BY <2>1, SameMessages, CountIsNat
  <2> QED
    BY <1>14, <2>2 DEF DbFails, Goto, Busy, rows, locals
<1>15. ASSUME NEW w \in Writer, NEW c \in Conv, SendFind(w, c) PROVE CopiesBounded'
  <2>1. UNCHANGED stored
    BY <1>15 DEF SendFind, RecordMessage, Goto, Busy, rows, locals
  <2>2. UNCHANGED Count /\ Count \in [Conv -> Nat]
    BY <2>1, SameMessages, CountIsNat
  <2> QED
    BY <1>15, <2>2 DEF SendFind, RecordMessage, Goto, Busy, rows, locals
<1>16. ASSUME NEW w \in Writer, NEW c \in Conv, ReadFind(w, c) PROVE CopiesBounded'
  <2>1. UNCHANGED <<stored, unread, conv, copy, pc>>
    BY <1>16 DEF ReadFind, rows, locals
  <2>2. UNCHANGED Count /\ Count \in [Conv -> Nat]
    BY <2>1, SameMessages, CountIsNat
  <2>3. \/ writer' = writer
        \/ writer' = [writer EXCEPT ![w] = [stage |-> "save", conv |-> c, unread |-> 0]]
    BY <1>16 DEF ReadFind
  <2> QED
    BY <2>1, <2>2, <2>3
<1>17. ASSUME NEW w \in Writer, WriterSave(w) PROVE CopiesBounded'
  <2>1. UNCHANGED stored
    BY <1>17 DEF WriterSave, Goto, Busy, rows, locals
  <2>2. UNCHANGED Count /\ Count \in [Conv -> Nat]
    BY <2>1, SameMessages, CountIsNat
  <2> QED
    BY <1>17, <2>2 DEF WriterSave, Goto, Busy, rows, locals
<1>18. ASSUME NEW w \in Writer, WriterGivesUp(w) PROVE CopiesBounded'
  <2>1. UNCHANGED stored
    BY <1>18 DEF WriterGivesUp, Goto, Busy, rows, locals
  <2>2. UNCHANGED Count /\ Count \in [Conv -> Nat]
    BY <2>1, SameMessages, CountIsNat
  <2> QED
    BY <1>18, <2>2 DEF WriterGivesUp, Goto, Busy, rows, locals
<1>19. ASSUME NEW n \in Noter, NoteFind(n) PROVE CopiesBounded'
  <2>1. UNCHANGED stored
    BY <1>19 DEF NoteFind, Goto, Busy, rows, locals
  <2>2. UNCHANGED Count /\ Count \in [Conv -> Nat]
    BY <2>1, SameMessages, CountIsNat
  <2> QED
    BY <1>19, <2>2 DEF NoteFind, Goto, Busy, rows, locals
<1>20. ASSUME NEW n \in Noter, NoteCreateLead(n) PROVE CopiesBounded'
  <2>1. UNCHANGED stored
    BY <1>20 DEF NoteCreateLead, Goto, Busy, rows, locals
  <2>2. UNCHANGED Count /\ Count \in [Conv -> Nat]
    BY <2>1, SameMessages, CountIsNat
  <2> QED
    BY <1>20, <2>2 DEF NoteCreateLead, Goto, Busy, rows, locals
<1>21. ASSUME NEW n \in Noter, NoteFails(n) PROVE CopiesBounded'
  <2>1. UNCHANGED stored
    BY <1>21 DEF NoteFails, Goto, Busy, rows, locals
  <2>2. UNCHANGED Count /\ Count \in [Conv -> Nat]
    BY <2>1, SameMessages, CountIsNat
  <2> QED
    BY <1>21, <2>2 DEF NoteFails, Goto, Busy, rows, locals
<1>22. CASE Crash
  <2>1. UNCHANGED stored
    BY <1>22 DEF Crash, Goto, Busy, rows, locals
  <2>2. UNCHANGED Count /\ Count \in [Conv -> Nat]
    BY <2>1, SameMessages, CountIsNat
  <2> QED
    BY <1>22, <2>2 DEF Crash, Goto, Busy, rows, locals
<1>23. CASE UNCHANGED vars
  <2>1. UNCHANGED <<stored, unread, conv, copy, pc, writer>>
    BY <1>23 DEF vars, rows, locals
  <2>2. UNCHANGED Count
    BY <2>1, SameMessages
  <2> QED
    BY <2>1, <2>2
<1> HIDE DEF TypeOK, Located, Knows, Phase, Writing, NotWriting, CopiesBounded
<1> QED
  BY <1>1, <1>2, <1>3, <1>4, <1>5, <1>6, <1>7, <1>8, <1>9, <1>10, <1>11, <1>12, <1>13, <1>14,
     <1>15, <1>16, <1>17, <1>18, <1>19, <1>20, <1>21, <1>22, <1>23 DEF Next, Receive, Lookup, Store, Write, Note

\* Every action keeps the invariant.
LEMMA IngestInvariantNext == IngestInvariant /\ [Next]_vars => IngestInvariant'
<1> SUFFICES ASSUME IngestInvariant, [Next]_vars PROVE IngestInvariant'
  OBVIOUS
<1>1. TypeOK /\ Located /\ OnlyOnePast /\ TriggeredIsStored /\ FiniteConvs /\ CopiesBounded
  BY DEF IngestInvariant
<1>2. TypeOK' /\ Located' /\ OnlyOnePast'
  BY <1>1, IngestTypeNext, LocatedNext, OnlyOnePastNext
<1>3. TriggeredIsStored' /\ FiniteConvs' /\ CopiesBounded'
  BY <1>1, TriggeredNext, FiniteNext, CopiesNext
<1> QED
  BY <1>2, <1>3 DEF IngestInvariant

\* The invariant holds of every behaviour.
THEOREM IngestInvariantHolds == Spec => []IngestInvariant
<1> QED
  BY InitIngestInvariant, IngestInvariantNext, PTL DEF Spec

\* However a message is delivered, the AI handler is started for it at most once.
THEOREM TriggeredOnceHolds == Spec => []TriggeredOnce
<1>1. IngestInvariant => TriggeredOnce
  BY DEF IngestInvariant, TriggeredIsStored, TriggeredOnce
<1> QED
  BY <1>1, IngestInvariantHolds, PTL

\* The badge never shows more messages than the conversation has.
THEOREM UnreadBoundedHolds == Spec => []UnreadBounded
<1>1. IngestInvariant => UnreadBounded
  BY DEF IngestInvariant, CopiesBounded, Count, UnreadBounded
<1> QED
  BY <1>1, IngestInvariantHolds, PTL

-----------------------------------------------------------------------------
(***************************************************************************)
(* The WhatsApp clients.                                                   *)
(***************************************************************************)
HIDE IngestAssumption
USE WaAssumption

-----------------------------------------------------------------------------
(* The inductive invariant. *)

\* The maps name clients made for the firm they are kept under.
ClientsOfFirms ==
  \A f \in Firm :
    /\ clients[f] # Nobody => ClientFirm[clients[f]] = f
    /\ stores[f] # Nobody => ClientFirm[stores[f]] = f
\* A client is connected or will connect again, not both.
LiveOrRetrying == live \cap retrying = {}
\* A client that was logged out does not connect again by itself.
LoggedOutIsDown == logouts \cap (live \cup retrying) = {}

WaInvariant ==
  /\ ProviderTyped /\ RequestsTyped
  /\ ClientsOfFirms /\ LiveOrRetrying /\ LoggedOutIsDown /\ ClientsTracked
ProviderInvariant ==
  ProviderTyped /\ ClientsOfFirms /\ LiveOrRetrying /\ LoggedOutIsDown /\ ClientsTracked

\* The initial states satisfy the invariant.
LEMMA InitWa == WaInit => WaInvariant
BY DEF WaInit, WaInvariant, ProviderTyped, RequestsTyped, ClientsOfFirms, LiveOrRetrying, LoggedOutIsDown,
   ClientsTracked, AttemptState, WaReqState, NoAttemptYet, WaIdle, View, Tracked

-----------------------------------------------------------------------------
(* What the provider does, whoever calls it. *)

\* A new client is of the firm it was asked for.
LEMMA NewClientIsOfFirm ==
  ASSUME NEW f \in Firm, NEW c \in NewClients(f)
  PROVE c \in Client /\ ClientFirm[c] = f /\ c \notin live \cup retrying \cup openStore \cup logouts
<1>1. c \in FreeClients(f)
  BY DEF NewClients
<1> QED
  BY <1>1 DEF FreeClients

\* The firm's client and store are dropped and no other is made.
LEMMA DroppedKeeps ==
  ASSUME ProviderInvariant, NEW f \in Firm, NEW s \in Client \cup {Nobody},
         s # Nobody => ClientFirm[s] = f,
         live' = live \ {clients[f]}, retrying' = retrying \ {clients[f]},
         clients' = [clients EXCEPT ![f] = Nobody], stores' = [stores EXCEPT ![f] = s],
         openStore' = openStore \ {stores[f]},
         UNCHANGED <<logouts, replaced>>
  PROVE ProviderInvariant'
<1> USE DEF ProviderInvariant
<1>1. ProviderTyped'
  BY DEF ProviderTyped
<1>2. ClientsOfFirms'
  BY DEF ProviderTyped, ClientsOfFirms
<1>3. LiveOrRetrying' /\ LoggedOutIsDown'
  BY DEF LiveOrRetrying, LoggedOutIsDown
<1>4. (live \cup retrying)' \subseteq (Tracked \cup replaced)'
  BY DEF ProviderTyped, ClientsTracked, Tracked
<1>5. openStore' \subseteq {stores'[g] : g \in Firm}
  BY DEF ProviderTyped, ClientsTracked
<1>6. ASSUME NEW g \in Firm, clients'[g] \in (live \cup retrying)'
      PROVE  clients'[g] = stores'[g] /\ clients'[g] \in openStore'
  <2>1. g # f
    BY <1>6 DEF ProviderTyped
  <2>2. clients[g] = stores[g] /\ clients[g] \in openStore /\ clients'[g] = clients[g] /\ stores'[g] = stores[g]
    BY <1>6, <2>1 DEF ProviderTyped, ClientsTracked
  <2>3. stores[g] # stores[f]
    BY <2>1, <2>2 DEF ProviderTyped, ClientsOfFirms
  <2> QED
    BY <2>2, <2>3
<1> QED
  BY <1>1, <1>2, <1>3, <1>4, <1>5, <1>6 DEF ClientsTracked

\* The firm's client and store are replaced by a new client, connected.
LEMMA ConnectedKeeps ==
  ASSUME ProviderInvariant, NEW f \in Firm, NEW c \in NewClients(f), ConnectClient(f, c),
         UNCHANGED <<logouts, replaced>>
  PROVE ProviderInvariant'
<1> USE DEF ProviderInvariant, ConnectClient, Existing
<1>0. c \in Client /\ ClientFirm[c] = f /\ c \notin live \cup retrying \cup openStore \cup logouts
  BY NewClientIsOfFirm
<1>1. ProviderTyped'
  BY <1>0 DEF ProviderTyped
<1>2. ClientsOfFirms'
  BY <1>0 DEF ProviderTyped, ClientsOfFirms
<1>3. LiveOrRetrying' /\ LoggedOutIsDown'
  BY <1>0 DEF LiveOrRetrying, LoggedOutIsDown
<1>4. ASSUME NEW x \in (live \cup retrying)' PROVE x \in (Tracked \cup replaced)'
  <2>1. CASE x = c
    <3>1. clients'[f] = c /\ c # Nobody
      BY <1>0 DEF ProviderTyped
    <3> QED
      BY <2>1, <3>1 DEF Tracked
  <2>2. CASE x # c
    <3>1. x \in live \cup retrying /\ x # clients[f] /\ x \in Client
      BY <2>2 DEF ProviderTyped
    <3>2. x \in replaced \/ \E g \in Firm \ {f} : x = clients[g]
      BY <3>1 DEF ClientsTracked, Tracked
    <3>3. \A g \in Firm \ {f} : clients'[g] = clients[g]
      BY DEF ProviderTyped
    <3> QED
      BY <3>1, <3>2, <3>3 DEF Tracked
  <2> QED
    BY <2>1, <2>2
<1>5. openStore' \subseteq {stores'[g] : g \in Firm}
  BY DEF ProviderTyped, ClientsTracked
<1>6. ASSUME NEW g \in Firm, clients'[g] \in (live \cup retrying)'
      PROVE  clients'[g] = stores'[g] /\ clients'[g] \in openStore'
  <2>1. CASE g = f
    BY <2>1 DEF ProviderTyped
  <2>2. CASE g # f
    <3>1. clients[g] # c /\ clients'[g] = clients[g] /\ stores'[g] = stores[g]
      BY <1>0, <2>2 DEF ProviderTyped, ClientsOfFirms
    <3>2. clients[g] = stores[g] /\ clients[g] \in openStore
      BY <1>6, <3>1 DEF ProviderTyped, ClientsTracked
    <3>3. stores[g] # stores[f]
      BY <2>2, <3>2 DEF ProviderTyped, ClientsOfFirms
    <3> QED
      BY <3>1, <3>2, <3>3
  <2> QED
    BY <2>1, <2>2
<1> QED
  BY <1>1, <1>2, <1>3, <1>4, <1>5, <1>6 DEF ClientsTracked

\* The steps that connect a firm keep the invariant.
LEMMA ConnectKeeps ==
  ASSUME ProviderInvariant, NEW f \in Firm, UNCHANGED <<logouts, replaced>>,
         ConnectNoStore(f) \/ \E c \in NewClients(f) : ConnectNoNet(f, c) \/ ConnectClient(f, c)
  PROVE ProviderInvariant'
<1>1. CASE ConnectNoStore(f)
  BY <1>1, DroppedKeeps DEF ConnectNoStore, Existing
<1>2. ASSUME NEW c \in NewClients(f), ConnectNoNet(f, c) PROVE ProviderInvariant'
  BY <1>2, DroppedKeeps, NewClientIsOfFirm DEF ConnectNoNet, Existing
<1>3. ASSUME NEW c \in NewClients(f), ConnectClient(f, c) PROVE ProviderInvariant'
  BY <1>3, ConnectedKeeps
<1> QED
  BY <1>1, <1>2, <1>3

\* Connections end or come back, and nothing else.
LEMMA NoNewClient ==
  ASSUME ProviderInvariant, UNCHANGED <<clients, stores, openStore, replaced>>,
         (live \cup retrying)' \subseteq live \cup retrying, (live \cap retrying)' = {},
         logouts' \cap (live \cup retrying)' = {}, logouts' \subseteq Client
  PROVE ProviderInvariant'
BY DEF ProviderInvariant, ProviderTyped, ClientsOfFirms, LiveOrRetrying, LoggedOutIsDown, ClientsTracked, Tracked

-----------------------------------------------------------------------------
(* What the attempts, the requests and the startup do around it. *)

\* What attempts may be: those that connect know their firm.
AttemptsTyped(m) ==
  /\ m \in [Attempt -> AttemptState]
  /\ \A a \in Attempt : m[a].phase = "connect" => m[a].firm \in Firm

\* An attempt goes on, to anything but a connection.
LEMMA AttemptGoesOn ==
  ASSUME NEW m, AttemptsTyped(m), NEW a \in Attempt, NEW phase \in {"drain", "over"}, NEW c \in Client \cup {Nobody}
  PROVE /\ AttemptsTyped([m EXCEPT ![a].phase = phase, ![a].client = c])
        /\ AttemptsTyped([m EXCEPT ![a].phase = phase, ![a].err = TRUE])
<1> DEFINE s == [m EXCEPT ![a].phase = phase]
<1>1. AttemptsTyped(s) /\ s[a].phase = phase
  BY DEF AttemptsTyped, AttemptState
<1>2. /\ [m EXCEPT ![a].phase = phase, ![a].client = c] = [s EXCEPT ![a].client = c]
      /\ [m EXCEPT ![a].phase = phase, ![a].err = TRUE] = [s EXCEPT ![a].err = TRUE]
  BY DEF AttemptsTyped, AttemptState
<1> HIDE DEF s
<1>3. ASSUME NEW e \in {[s EXCEPT ![a].client = c], [s EXCEPT ![a].err = TRUE]}
      PROVE  AttemptsTyped(e)
  <2>1. s[a] \in AttemptState /\ s[a].phase # "connect"
    BY <1>1 DEF AttemptsTyped
  <2>2. PICK x \in AttemptState : e = [s EXCEPT ![a] = x] /\ x.phase # "connect"
    <3>1. [s[a] EXCEPT !.client = c] \in AttemptState /\ [s[a] EXCEPT !.client = c].phase # "connect"
      BY <2>1 DEF AttemptState
    <3>2. [s[a] EXCEPT !.err = TRUE] \in AttemptState /\ [s[a] EXCEPT !.err = TRUE].phase # "connect"
      BY <2>1 DEF AttemptState
    <3> QED
      BY <1>3, <3>1, <3>2
  <2> QED
    BY <1>1, <2>2 DEF AttemptsTyped
<1> QED
  BY <1>2, <1>3

\* The attempts that wait for a client that is disconnected do not connect.
LEMMA LeftTyped ==
  ASSUME RequestsTyped, NEW f \in Firm, NEW phase \in {"cut", "overtaken"}
  PROVE AttemptsTyped(Left(f, phase))
<1>1. ASSUME NEW a \in Attempt
      PROVE  /\ Left(f, phase)[a] \in AttemptState
             /\ Left(f, phase)[a].phase = "connect" => Left(f, phase)[a].firm \in Firm
  <2> DEFINE x == [attempt[a] EXCEPT !.phase = phase, !.client = Nobody]
  <2>1. attempt[a] \in AttemptState /\ (attempt[a].phase = "connect" => attempt[a].firm \in Firm)
    BY DEF RequestsTyped
  <2>2. x \in AttemptState /\ x.phase # "connect"
    BY <2>1 DEF AttemptState
  <2> HIDE DEF x
  <2>3. Left(f, phase)[a] \in {x, attempt[a]}
    BY DEF Left, x
  <2> QED
    BY <2>1, <2>2, <2>3
<1> QED
  BY <1>1 DEF AttemptsTyped, Left

\* What is left after the collection is typed.
LEMMA CollectedTyped ==
  ASSUME NEW m, AttemptsTyped(m), attempt' = Collected(m)
  PROVE AttemptsTyped(attempt')
BY DEF AttemptsTyped, Collected, NoAttemptYet, AttemptState

\* A request takes up another record, none that connects without a firm.
LEMMA ReplyTyped ==
  ASSUME RequestsTyped, NEW r \in WaRequest, NEW q \in WaReqState,
         q.phase \in {"start", "again"} => q.firm \in Firm, waReq' = [waReq EXCEPT ![r] = q]
  PROVE /\ waReq' \in [WaRequest -> WaReqState]
        /\ \A s \in WaRequest : waReq'[s].phase \in {"start", "again"} => waReq'[s].firm \in Firm
BY DEF RequestsTyped

\* What is asked for a firm is typed.
LEMMA AskedTyped ==
  ASSUME NEW phase \in {"again", "told", "start", "status", "forget"}, NEW f \in Firm, NEW open \in BOOLEAN
  PROVE Asked(phase, f, open) \in WaReqState /\ Asked(phase, f, open).firm \in Firm
BY DEF Asked, WaIdle, WaReqState

\* A step that leaves the requests alone leaves what is true of them.
LEMMA RequestsUnchanged ==
  ASSUME RequestsTyped, UNCHANGED <<connStates, attempt, waReq, page, startup>>
  PROVE RequestsTyped'
BY DEF RequestsTyped

\* Every action keeps the types of attempts and requests.
LEMMA RequestsTypedNext == RequestsTyped /\ [WaNext]_waVars => RequestsTyped'
<1> SUFFICES ASSUME RequestsTyped, [WaNext]_waVars PROVE RequestsTyped'
  OBVIOUS
<1> USE DEF provider, handler, Others
<1>0. AttemptsTyped(attempt)
  BY DEF RequestsTyped, AttemptsTyped
<1>1. ASSUME NEW c \in Client, ClientEvents(c) PROVE RequestsTyped'
  BY <1>1, RequestsUnchanged
  DEF ClientEvents, HandleLoggedOut, QrSuccess, QrTimeout, Drop, Retry, LogOut, StreamReplaced
<1>2. ASSUME NEW a \in Attempt, ExecuteConnect(a) PROVE RequestsTyped'
  <2> DEFINE f == attempt[a].firm
             others == Left(f, "overtaken")
  <2>1. f \in Firm
    BY <1>2 DEF ExecuteConnect, RequestsTyped
  <2>2. AttemptsTyped(others)
    BY <2>1, LeftTyped
  <2>3. PICK m : AttemptsTyped(m) /\ attempt' = Collected(m)
    <3>1. CASE attempt' = Collected([others EXCEPT ![a].phase = "over", ![a].err = TRUE])
      <4> HIDE DEF others
      <4>1. AttemptsTyped([others EXCEPT ![a].phase = "over", ![a].err = TRUE])
        BY <2>2, AttemptGoesOn
      <4> QED
        BY <3>1, <4>1
    <3>2. ASSUME NEW c \in NewClients(f),
                 attempt' = Collected([others EXCEPT ![a].phase = "drain", ![a].client = c])
          PROVE  \E m : AttemptsTyped(m) /\ attempt' = Collected(m)
      <4>1. c \in Client
        BY <2>1, NewClientIsOfFirm
      <4> HIDE DEF others
      <4>2. AttemptsTyped([others EXCEPT ![a].phase = "drain", ![a].client = c])
        BY <2>2, <4>1, AttemptGoesOn
      <4> QED
        BY <3>2, <4>2
    <3> QED
      BY <1>2, <3>1, <3>2 DEF ExecuteConnect
  <2>4. UNCHANGED <<connStates, waReq, page, startup>>
    BY <1>2 DEF ExecuteConnect
  <2>5. AttemptsTyped(attempt')
    BY <2>3, CollectedTyped
  <2> QED
    BY <2>4, <2>5 DEF RequestsTyped, AttemptsTyped
<1>3. ASSUME NEW a \in Attempt, DrainQr(a) PROVE RequestsTyped'
  <2> DEFINE m == [attempt EXCEPT ![a].phase = "over", ![a].client = Nobody]
  <2>1. AttemptsTyped(m)
    BY <1>0, AttemptGoesOn
  <2>2. attempt' = Collected(m) /\ UNCHANGED <<connStates, waReq, page, startup>>
    BY <1>3 DEF DrainQr
  <2> HIDE DEF m
  <2>3. AttemptsTyped(attempt')
    BY <2>1, <2>2, CollectedTyped
  <2> QED
    BY <2>2, <2>3 DEF RequestsTyped, AttemptsTyped
<1>4. ASSUME NEW a \in Attempt, QrCode(a) PROVE RequestsTyped'
  <2> DEFINE x == [attempt[a] EXCEPT !.qr = TRUE]
  <2>1. attempt[a] \in AttemptState
    BY DEF RequestsTyped
  <2>2. x \in AttemptState
    BY <2>1 DEF AttemptState
  <2>3. x.phase = attempt[a].phase /\ x.firm = attempt[a].firm
    BY <2>1 DEF AttemptState
  <2>4. attempt' = [attempt EXCEPT ![a] = x] /\ UNCHANGED <<connStates, waReq, page, startup>>
    BY <1>4 DEF QrCode
  <2> HIDE DEF x
  <2> QED
    BY <2>2, <2>3, <2>4 DEF RequestsTyped
<1>5. ASSUME NEW r \in WaRequest, StartAttempt(r) PROVE RequestsTyped'
  <2> DEFINE f == waReq[r].firm
             read(st) == [waReq[r] EXCEPT !.phase = "read", !.state = st]
  <2>1. PICK st \in Attempt :
          Reply(r, IF waReq[r].phase = "again" THEN WaIdle ELSE read(st)) /\ StartConnect(f, st)
    BY <1>5 DEF StartAttempt
  <2>2. f \in Firm /\ UNCHANGED <<page, startup>>
    BY <1>5 DEF StartAttempt, RequestsTyped
  <2>3. PICK q \in WaReqState : q.phase \notin {"start", "again"} /\ waReq' = [waReq EXCEPT ![r] = q]
    <3>1. WaIdle \in WaReqState /\ WaIdle.phase = "none"
      BY DEF WaIdle, WaReqState
    <3>2. read(st) \in WaReqState /\ read(st).phase = "read"
      BY DEF RequestsTyped, WaReqState
    <3> HIDE DEF read
    <3> QED
      BY <2>1, <3>1, <3>2 DEF Reply
  <2>4. /\ waReq' \in [WaRequest -> WaReqState]
        /\ \A s \in WaRequest : waReq'[s].phase \in {"start", "again"} => waReq'[s].firm \in Firm
    BY <2>3, ReplyTyped
  <2>5. CASE UNCHANGED <<connStates, attempt>>
    BY <2>2, <2>4, <2>5 DEF RequestsTyped
  <2>6. CASE ~UNCHANGED <<connStates, attempt>>
    <3> DEFINE m == [attempt EXCEPT ![st] = [NoAttemptYet EXCEPT !.phase = "connect", !.firm = f]]
    <3>1. AttemptsTyped(m)
      BY <2>2 DEF RequestsTyped, AttemptsTyped, AttemptState, NoAttemptYet
    <3>2. attempt' = Collected(m) /\ connStates' = [connStates EXCEPT ![f] = st]
      BY <2>1, <2>6 DEF StartConnect
    <3> HIDE DEF m
    <3>3. AttemptsTyped(attempt')
      BY <3>1, <3>2, CollectedTyped
    <3> QED
      BY <2>2, <2>4, <3>2, <3>3 DEF RequestsTyped, AttemptsTyped
  <2> QED
    BY <2>5, <2>6
<1>6. ASSUME NEW r \in WaRequest, ReadState(r) PROVE RequestsTyped'
  <2> DEFINE a == waReq[r].state
             m == [attempt EXCEPT ![a].seen = @ \/ attempt[a].qr]
  <2>1. AttemptsTyped(m)
    <3>1. CASE a \in Attempt
      <4> DEFINE x == [attempt[a] EXCEPT !.seen = @ \/ attempt[a].qr]
      <4>1. x \in AttemptState /\ x.phase = attempt[a].phase /\ x.firm = attempt[a].firm
        BY <3>1 DEF RequestsTyped, AttemptState
      <4>2. m = [attempt EXCEPT ![a] = x]
        OBVIOUS
      <4> HIDE DEF x, m
      <4> QED
        BY <1>0, <3>1, <4>1, <4>2 DEF AttemptsTyped
    <3>2. CASE a \notin Attempt
      <4>1. m = attempt
        BY <3>2 DEF RequestsTyped
      <4> QED
        BY <1>0, <4>1
    <3> QED
      BY <3>1, <3>2
  <2>2. attempt' = Collected(m) /\ startup' = startup /\ waReq' = [waReq EXCEPT ![r] = WaIdle]
    BY <1>6 DEF ReadState, Reply
  <2>3. connStates' \in {connStates, [connStates EXCEPT ![waReq[r].firm] = Nobody]}
    BY <1>6 DEF ReadState, Forget
  <2>4. page' \in [Firm -> View]
    <3>1. PICK shown \in View : Answers(r, shown)
      BY <1>6 DEF ReadState, View
    <3> QED
      BY <3>1 DEF Answers, RequestsTyped
  <2>5. WaIdle \in WaReqState /\ WaIdle.phase \notin {"start", "again"}
    BY DEF WaIdle, WaReqState
  <2> HIDE DEF a, m
  <2>6. AttemptsTyped(attempt')
    BY <2>1, <2>2, CollectedTyped
  <2> QED
    BY <2>2, <2>3, <2>4, <2>5, <2>6, ReplyTyped DEF RequestsTyped, AttemptsTyped
<1>7. ASSUME NEW r \in WaRequest, ForgetState(r) PROVE RequestsTyped'
  <2>1. /\ connStates' = [connStates EXCEPT ![waReq[r].firm] = Nobody]
        /\ waReq' = [waReq EXCEPT ![r] = WaIdle] /\ attempt' = Collected(attempt) /\ startup' = startup
    BY <1>7 DEF ForgetState, Forget, Reply
  <2>2. page' \in [Firm -> View]
    BY <1>7 DEF ForgetState, Answers, RequestsTyped, View
  <2>3. WaIdle \in WaReqState /\ WaIdle.phase \notin {"start", "again"}
    BY DEF WaIdle, WaReqState
  <2>4. AttemptsTyped(attempt')
    BY <1>0, <2>1, CollectedTyped
  <2> QED
    BY <2>1, <2>2, <2>3, <2>4, ReplyTyped DEF RequestsTyped, AttemptsTyped
<1>8. ASSUME NEW r \in WaRequest, NEW f \in Firm,
             \/ RenderQR(r, f) \/ RenderStatus(r, f) \/ HandleConnect(r, f) \/ HandleDisconnect(r, f)
      PROVE  RequestsTyped'
  <2>1. PICK phase \in {"again", "told", "start", "status", "forget"}, open \in BOOLEAN :
          waReq' = [waReq EXCEPT ![r] = Asked(phase, f, open)]
    BY <1>8 DEF RenderQR, RenderStatus, HandleConnect, HandleDisconnect, Reply
  <2>2. /\ waReq' \in [WaRequest -> WaReqState]
        /\ \A s \in WaRequest : waReq'[s].phase \in {"start", "again"} => waReq'[s].firm \in Firm
    BY <2>1, AskedTyped, ReplyTyped
  <2>3. UNCHANGED <<page, startup>> /\ connStates' \in {connStates, [connStates EXCEPT ![f] = Nobody]}
    BY <1>8 DEF RenderQR, RenderStatus, HandleConnect, HandleDisconnect, Forget
  <2>4. PICK m : AttemptsTyped(m) /\ attempt' \in {m, Collected(m)}
    BY <1>0, <1>8, LeftTyped DEF RenderQR, RenderStatus, HandleConnect, HandleDisconnect
  <2>5. AttemptsTyped(attempt')
    BY <2>4, CollectedTyped
  <2> QED
    BY <2>2, <2>3, <2>5 DEF RequestsTyped, AttemptsTyped
<1>9. ASSUME NEW f \in Firm, HasPairedSession(f) PROVE RequestsTyped'
  BY <1>9 DEF HasPairedSession, RequestsTyped
<1>10. ASSUME NEW f \in Firm, RenderPage(f) PROVE RequestsTyped'
  <2>1. page' \in [Firm -> View]
    BY <1>10 DEF RenderPage, RequestsTyped, View
  <2>2. ASSUME NEW s \in WaRequest
        PROVE  /\ waReq'[s] \in WaReqState
               /\ waReq'[s].phase \in {"start", "again"} => waReq'[s].firm \in Firm
    <3> DEFINE x == [waReq[s] EXCEPT !.open = FALSE]
    <3>1. x \in WaReqState /\ x.phase = waReq[s].phase /\ x.firm = waReq[s].firm
      BY DEF RequestsTyped, WaReqState
    <3> HIDE DEF x
    <3>2. waReq'[s] \in {x, waReq[s]}
      BY <1>10 DEF RenderPage, x
    <3> QED
      BY <3>1, <3>2 DEF RequestsTyped
  <2>3. waReq' = [s \in WaRequest |-> waReq'[s]] /\ UNCHANGED <<connStates, attempt, startup>>
    BY <1>10 DEF RenderPage
  <2> QED
    BY <2>1, <2>2, <2>3 DEF RequestsTyped
<1>11. CASE ReconnectExisting
  <2> DEFINE m == Left(startup.connecting, "overtaken")
  <2>1. startup.connecting \in Firm /\ attempt' = Collected(m) /\ UNCHANGED <<connStates, waReq, page>>
    BY <1>11 DEF ReconnectExisting, RequestsTyped
  <2>2. AttemptsTyped(m)
    BY <2>1, LeftTyped
  <2>3. startup'.connecting \in Firm \cup {Nobody}
    BY <1>11 DEF ReconnectExisting, RequestsTyped
  <2> HIDE DEF m
  <2>4. AttemptsTyped(attempt')
    BY <2>1, <2>2, CollectedTyped
  <2> QED
    BY <2>1, <2>3, <2>4 DEF RequestsTyped, AttemptsTyped
<1>12. CASE UNCHANGED waVars
  BY <1>12, RequestsUnchanged DEF waVars
<1> HIDE DEF provider, handler, Others
<1> QED
  BY <1>1, <1>2, <1>3, <1>4, <1>5, <1>6, <1>7, <1>8, <1>9, <1>10, <1>11, <1>12 DEF WaNext, RunAttempt, RunRequest

\* Every action keeps what is asked of the provider.
LEMMA ProviderNext == ProviderInvariant /\ RequestsTyped /\ [WaNext]_waVars => ProviderInvariant'
<1> SUFFICES ASSUME ProviderInvariant, RequestsTyped, [WaNext]_waVars PROVE ProviderInvariant'
  OBVIOUS
<1> DEFINE Still == UNCHANGED <<clients, stores, openStore, live, retrying, logouts, replaced>>
<1>0. ASSUME Still PROVE ProviderInvariant'
  BY <1>0, NoNewClient DEF ProviderInvariant, ProviderTyped, LiveOrRetrying, LoggedOutIsDown
<1> USE DEF provider, Others
<1>1. ASSUME NEW c \in Client, HandleLoggedOut(c) PROVE ProviderInvariant'
  <2> DEFINE f == ClientFirm[c]
  <2>1. /\ f \in Firm /\ c \in logouts /\ logouts' = logouts \ {c}
        /\ clients' = [clients EXCEPT ![f] = Nobody]
        /\ replaced' = IF clients[f] \in {c, Nobody} THEN replaced \ {c} ELSE (replaced \ {c}) \cup {clients[f]}
        /\ UNCHANGED <<stores, openStore, live, retrying>>
    BY <1>1 DEF HandleLoggedOut
  <2> USE DEF ProviderInvariant
  <2>2. ProviderTyped'
    BY <2>1 DEF ProviderTyped
  <2>3. ClientsOfFirms' /\ LiveOrRetrying' /\ LoggedOutIsDown'
    BY <2>1 DEF ProviderTyped, ClientsOfFirms, LiveOrRetrying, LoggedOutIsDown
  <2>4. ASSUME NEW x \in live \cup retrying PROVE x \in (Tracked \cup replaced)'
    <3>1. x # c /\ x # Nobody
      BY <2>1 DEF LoggedOutIsDown, ProviderTyped
    <3>2. CASE x = clients[f]
      BY <2>1, <3>1, <3>2
    <3>3. CASE x # clients[f]
      <4>1. x \in replaced \/ \E g \in Firm \ {f} : x = clients[g]
        BY <3>3 DEF ClientsTracked, Tracked
      <4> QED
        BY <2>1, <3>1, <4>1 DEF Tracked, ProviderTyped
    <3> QED
      BY <3>2, <3>3
  <2>5. \A g \in Firm : clients'[g] \in live \cup retrying => clients'[g] = stores[g] /\ clients'[g] \in openStore
    BY <2>1 DEF ClientsTracked, ProviderTyped
  <2> QED
    BY <2>1, <2>2, <2>3, <2>4, <2>5 DEF ClientsTracked
<1>2. ASSUME NEW c \in Client, ClientEvents(c), ~HandleLoggedOut(c) PROVE ProviderInvariant'
  <2>1. /\ UNCHANGED <<clients, stores, openStore, replaced>>
        /\ (live \cup retrying)' \subseteq live \cup retrying
        /\ (live \cap retrying)' = {}
        /\ logouts' \cap (live \cup retrying)' = {} /\ logouts' \subseteq Client
    BY <1>2
    DEF ClientEvents, QrSuccess, QrTimeout, Drop, Retry, LogOut, StreamReplaced,
        ProviderInvariant, ProviderTyped, LiveOrRetrying, LoggedOutIsDown
  <2> QED
    BY <2>1, NoNewClient
<1>3. ASSUME NEW a \in Attempt, ExecuteConnect(a) PROVE ProviderInvariant'
  <2>1. attempt[a].firm \in Firm /\ UNCHANGED <<logouts, replaced>>
    BY <1>3 DEF ExecuteConnect, RequestsTyped
  <2> QED
    BY <1>3, <2>1, ConnectKeeps DEF ExecuteConnect
<1>4. ASSUME NEW a \in Attempt, DrainQr(a) \/ QrCode(a) PROVE ProviderInvariant'
  BY <1>4, <1>0 DEF DrainQr, QrCode
<1>5. ASSUME NEW r \in WaRequest, RunRequest(r) PROVE ProviderInvariant'
  BY <1>5, <1>0 DEF RunRequest, StartAttempt, ReadState, ForgetState
<1>6. ASSUME NEW r \in WaRequest, NEW f \in Firm, HandleDisconnect(r, f) PROVE ProviderInvariant'
  BY <1>6, DroppedKeeps DEF HandleDisconnect, Disconnect
<1>7. ASSUME NEW r \in WaRequest, NEW f \in Firm, RenderQR(r, f) \/ RenderStatus(r, f) \/ HandleConnect(r, f)
      PROVE ProviderInvariant'
  BY <1>7, <1>0 DEF RenderQR, RenderStatus, HandleConnect
<1>8. ASSUME NEW f \in Firm, HasPairedSession(f) \/ RenderPage(f) PROVE ProviderInvariant'
  BY <1>8, <1>0 DEF HasPairedSession, RenderPage
<1>9. CASE ReconnectExisting
  <2>1. startup.connecting \in Firm /\ UNCHANGED <<logouts, replaced>>
    BY <1>9 DEF ReconnectExisting, RequestsTyped
  <2> QED
    BY <1>9, <2>1, ConnectKeeps DEF ReconnectExisting
<1>10. CASE UNCHANGED waVars
  BY <1>10, <1>0 DEF waVars
<1> HIDE DEF provider, Others
<1> QED
  BY <1>1, <1>2, <1>3, <1>4, <1>5, <1>6, <1>7, <1>8, <1>9, <1>10 DEF WaNext, RunAttempt

-----------------------------------------------------------------------------
\* However attempts, pages, clicks, logouts, reconnections and a start overlap:
\* no firm has a second client that is connected or will be, or a second open
\* store, but one that the late logout of an earlier client took out of the map
\* (whatsmeow_provider.go:45-53, 269-271).
THEOREM ClientsSafe == WaSpec => []OneClientPerFirm
<1>1. WaInit => WaInvariant
  BY InitWa
<1>2. WaInvariant /\ [WaNext]_waVars => WaInvariant'
  BY RequestsTypedNext, ProviderNext DEF WaInvariant, ProviderInvariant
<1>3. WaInvariant => OneClientPerFirm
  BY DEF WaInvariant, ProviderInvariant, OneClientPerFirm, WaTypeOK
<1> QED
  BY <1>1, <1>2, <1>3, PTL DEF WaSpec

-----------------------------------------------------------------------------
(***************************************************************************)
(* The events and the streams of the pages.                                *)
(***************************************************************************)
HIDE WaAssumption
USE NoticeAssumption

\* A note that is stored for the user and the office it is told of.
StoredFor(n, o, u) == n \in DOMAIN notice /\ notice[n].office = o /\ notice[n].user = u
Told(e) == e.type = "notification" => StoredFor(e.note, e.office, e.user)
Listens(s, o) == stream[s].phase \in {"open", "toast", "leave"} /\ stream[s].office = o

\* What is in a channel is for the office of its stream.
QueuesTrue ==
  /\ \A c \in Channel : \A i \in 1..Len(queue[c]) : Told(queue[c][i])
  /\ \A s \in Stream : /\ stream[s].phase = "none" => queue[s] = <<>>
                       /\ Listens(s, stream[s].office) =>
                            \A i \in 1..Len(queue[s]) : queue[s][i].office = stream[s].office
\* Whoever sends holds the lock, and so only streams that are subscribed.
PublishersTrue ==
  \A p \in Publisher :
    /\ publishing[p].phase = "send" => publishing[p].event \in Event
    /\ publishing[p].phase # "send" => publishing[p].left = {}
    /\ Told(publishing[p].event) /\ Told(publishing[p].next)
    /\ \A s \in publishing[p].left \cap Stream : Listens(s, publishing[p].event.office)
SubscribersTrue ==
  /\ \A o \in Office : \A s \in subscribers[o] : Listens(s, o)
  /\ \A s \in closed : stream[s].phase = "left"
ToldTrue ==
  /\ \A s \in Stream : stream[s].phase = "toast" => StoredFor(stream[s].note, stream[s].office, stream[s].user)
  /\ notifier.phase = "publish" => StoredFor(notifier.note, notifier.office, notifier.user)
ToastsTrue ==
  \A s \in Stream : \A t \in toasts[s] :
    /\ stream[s].phase # "none" /\ StoredFor(t.note, stream[s].office, stream[s].user)
    /\ t.count = 0 => notice[t.note].read \/ t.note \in failed
NoticeInvariant ==
  NoticeTypeOK /\ QueuesTrue /\ PublishersTrue /\ SubscribersTrue /\ ToldTrue /\ ToastsTrue

\* The fields of an event.
LEMMA ShapeOfEvent ==
  ASSUME NEW e \in Event
  PROVE /\ e.type \in EventType /\ e.office \in Office
        /\ e.type # "lead-created" => e.user \in Reader
        /\ e.type = "notification" => e.note \in NoticeId
BY DEF Event, EventType
\* The fields of a stream at each step.
LEMMA ShapeOfStream ==
  ASSUME NEW q \in StreamState
  PROVE /\ q.phase \in {"none", "open", "toast", "leave", "left"}
        /\ q.phase # "none" => q.office \in Office /\ q.user \in Reader
        /\ q.phase = "toast" => q.note \in NoticeId
BY DEF StreamState
\* The fields of the goroutine's state at each step.
LEMMA ShapeOfNotifier ==
  ASSUME notifier \in NotifierState
  PROVE /\ notifier.phase \in {"insert", "publish"} => notifier.office \in Office /\ notifier.user \in Reader
        /\ notifier.phase = "publish" => notifier.note \in NoticeId
BY DEF NotifierState

-----------------------------------------------------------------------------
(* What notes do: they are added and read, never moved or removed.          *)

NotesGrow ==
  /\ notice' \in [DOMAIN notice' -> NotificationRow] /\ IsFiniteSet(DOMAIN notice')
  /\ \A n \in DOMAIN notice :
       /\ n \in DOMAIN notice' /\ notice'[n].office = notice[n].office /\ notice'[n].user = notice[n].user
       /\ notice[n].read => notice'[n].read

\* What is stored stays stored.
LEMMA StaysStored ==
  ASSUME NotesGrow
  PROVE /\ \A n, o, u : StoredFor(n, o, u) => StoredFor(n, o, u)'
        /\ \A e : Told(e) => (e.type = "notification" => StoredFor(e.note, e.office, e.user)')
BY DEF NotesGrow, StoredFor, Told

\* A step that only stores or reads notes.
LEMMA NotesKeep ==
  ASSUME NoticeInvariant, NotesGrow, UNCHANGED <<bus, publishing, stream, toasts, failed>>,
         notifier' \in NotifierState,
         (notifier.phase = "publish" => StoredFor(notifier.note, notifier.office, notifier.user))'
  PROVE NoticeInvariant'
<1>1. NoticeTypeOK'
  BY DEF NoticeInvariant, NoticeTypeOK, NotesGrow, bus
<1>2. QueuesTrue'
  <2>1. \A c \in Channel : \A i \in 1..Len(queue[c]) :
          queue[c][i].type = "notification" =>
            StoredFor(queue[c][i].note, queue[c][i].office, queue[c][i].user)'
    <3>1. \A c \in Channel : \A i \in 1..Len(queue[c]) : Told(queue[c][i])
      BY DEF NoticeInvariant, QueuesTrue
    <3>2. ASSUME NEW e, Told(e), e.type = "notification" PROVE StoredFor(e.note, e.office, e.user)'
      BY <3>2, StaysStored
    <3> QED
      BY <3>1, <3>2 DEF bus
  <2> QED
    BY <2>1 DEF NoticeInvariant, QueuesTrue, bus, Told, StoredFor, Listens
<1>5. PublishersTrue'
  <2>1. \A p \in Publisher :
          /\ publishing[p].event.type = "notification" =>
               StoredFor(publishing[p].event.note, publishing[p].event.office, publishing[p].event.user)'
          /\ publishing[p].next.type = "notification" =>
               StoredFor(publishing[p].next.note, publishing[p].next.office, publishing[p].next.user)'
    BY StaysStored DEF NoticeInvariant, PublishersTrue
  <2> QED
    BY <2>1 DEF NoticeInvariant, PublishersTrue, Told, StoredFor, Listens
<1>3. SubscribersTrue' /\ ToldTrue'
  BY StaysStored DEF NoticeInvariant, SubscribersTrue, ToldTrue, bus, Listens
<1>4. ToastsTrue'
  <2>1. ASSUME NEW s \in Stream, NEW t \in toasts[s]
        PROVE /\ stream[s].phase # "none" /\ StoredFor(t.note, stream[s].office, stream[s].user)'
              /\ t.count = 0 => notice'[t.note].read \/ t.note \in failed
    BY StaysStored DEF NoticeInvariant, ToastsTrue, NotesGrow, StoredFor
  <2> QED
    BY <2>1 DEF ToastsTrue, StoredFor
<1> QED
  BY <1>1, <1>2, <1>3, <1>4, <1>5 DEF NoticeInvariant

\* The user reads notes.
LEMMA ReadingKeeps ==
  ASSUME NoticeInvariant,
         (\E n \in NoticeId : MarkRead(n)) \/ (\E o \in Office, u \in Reader : MarkAllRead(o, u))
  PROVE NoticeInvariant'
<1>0. /\ UNCHANGED <<bus, publishing, stream, toasts, failed>> /\ notifier' = notifier
  BY DEF MarkRead, MarkAllRead, NoticeOnly
<1>1. NotesGrow
  <2>1. ASSUME NEW n \in NoticeId, MarkRead(n) PROVE NotesGrow
    <3>0. notice \in [DOMAIN notice -> NotificationRow] /\ IsFiniteSet(DOMAIN notice) /\ n \in DOMAIN notice
      BY <2>1 DEF MarkRead, NoticeInvariant, NoticeTypeOK
    <3>1. notice' = [notice EXCEPT ![n] = [@ EXCEPT !.read = TRUE]]
      BY <2>1, <3>0 DEF MarkRead
    <3>2. notice[n] \in NotificationRow
      BY <3>0
    <3> DEFINE row == [notice[n] EXCEPT !.read = TRUE]
    <3>3. row \in NotificationRow /\ row.office = notice[n].office /\ row.user = notice[n].user /\ row.read
      BY <3>2 DEF NotificationRow
    <3>4. notice' = [notice EXCEPT ![n] = row]
      BY <3>1
    <3> HIDE DEF row
    <3>5. DOMAIN notice' = DOMAIN notice /\ notice'[n] = row /\ \A x \in DOMAIN notice \ {n} : notice'[x] = notice[x]
      BY <3>0, <3>4
    <3>6. notice' \in [DOMAIN notice' -> NotificationRow]
      BY <3>0, <3>3, <3>4
    <3> QED
      BY <3>0, <3>3, <3>5, <3>6 DEF NotesGrow
  <2>2. ASSUME NEW o \in Office, NEW u \in Reader, MarkAllRead(o, u) PROVE NotesGrow
    <3>0. notice \in [DOMAIN notice -> NotificationRow] /\ IsFiniteSet(DOMAIN notice)
      BY DEF NoticeInvariant, NoticeTypeOK
    <3>1. notice' = [n \in DOMAIN notice |->
             IF notice[n].office = o /\ notice[n].user = u THEN [notice[n] EXCEPT !.read = TRUE] ELSE notice[n]]
      BY <2>2 DEF MarkAllRead
    <3>2. \A n \in DOMAIN notice :
            LET row == [notice[n] EXCEPT !.read = TRUE]
            IN row \in NotificationRow /\ row.office = notice[n].office /\ row.user = notice[n].user /\ row.read
      BY <3>0 DEF NotificationRow
    <3>3. DOMAIN notice' = DOMAIN notice
      BY <3>1
    <3>4. \A n \in DOMAIN notice :
            /\ notice'[n] \in NotificationRow
            /\ notice'[n].office = notice[n].office /\ notice'[n].user = notice[n].user
            /\ notice[n].read => notice'[n].read
      BY <3>0, <3>1, <3>2
    <3>5. notice' \in [DOMAIN notice' -> NotificationRow]
      BY <3>1, <3>3, <3>4
    <3> QED
      BY <3>0, <3>3, <3>4, <3>5 DEF NotesGrow
  <2> QED
    BY <2>1, <2>2
<1>2. notifier' \in NotifierState
  BY <1>0 DEF NoticeInvariant, NoticeTypeOK
<1>3. (notifier.phase = "publish" => StoredFor(notifier.note, notifier.office, notifier.user))'
  BY <1>0, <1>1, StaysStored DEF NoticeInvariant, ToldTrue, StoredFor
<1> QED
  BY <1>0, <1>1, <1>2, <1>3, NotesKeep

\* The goroutine stores a note under a new id.
LEMMA CreateKeeps ==
  ASSUME NoticeInvariant, NEW n \in NoticeId, CreateNotification(n)
  PROVE NoticeInvariant'
<1>0. UNCHANGED <<bus, publishing, stream, toasts, failed>> /\ notifier.office \in Office /\ notifier.user \in Reader
  BY ShapeOfNotifier DEF CreateNotification, NoticeInvariant, NoticeTypeOK
<1>1. CASE notifier' = Waiting /\ UNCHANGED notice
  <2>1. NotesGrow
    BY <1>1 DEF NotesGrow, NoticeInvariant, NoticeTypeOK
  <2>2. notifier' \in NotifierState /\ notifier'.phase # "publish"
    BY <1>1 DEF Waiting, NotifierState
  <2> QED
    BY <1>0, <2>1, <2>2, NotesKeep
<1>2. CASE /\ notice' = [x \in DOMAIN notice \cup {n} |->
                IF x = n THEN NewNotification(notifier.office, notifier.user) ELSE notice[x]]
           /\ notifier' = [phase |-> "publish", office |-> notifier.office, user |-> notifier.user, note |-> n]
  <2>1. n \notin DOMAIN notice
    BY DEF CreateNotification
  <2>2. IsFiniteSet(DOMAIN notice \cup {n})
    BY FS_AddElement DEF NoticeInvariant, NoticeTypeOK
  <2>3. NotesGrow
    BY <1>0, <1>2, <2>1, <2>2
    DEF NotesGrow, NoticeInvariant, NoticeTypeOK, NotificationRow, NewNotification
  <2>4. notifier' \in NotifierState
    BY <1>0, <1>2 DEF NotifierState
  <2>5. StoredFor(notifier.note, notifier.office, notifier.user)'
    BY <1>2 DEF StoredFor, NewNotification
  <2> QED
    BY <1>0, <2>3, <2>4, <2>5, NotesKeep
<1> QED
  BY <1>1, <1>2 DEF CreateNotification

-----------------------------------------------------------------------------
(* What publishers do. *)

\* A publisher's next state is enough to keep what is true of publishers.
LEMMA PublisherKeeps ==
  ASSUME NoticeInvariant, NEW p \in Publisher, NEW q \in Publishing,
         publishing' = [publishing EXCEPT ![p] = q],
         UNCHANGED <<subscribers, closed, stream, notice, toasts, failed>>,
         notifier' \in NotifierState,
         notifier'.phase = "publish" => StoredFor(notifier'.note, notifier'.office, notifier'.user),
         queue' \in [Channel -> Seq(Event)], QueuesTrue',
         q.phase = "send" => q.event \in Event,
         q.phase # "send" => q.left = {},
         Told(q.event) /\ Told(q.next),
         \A s \in q.left \cap Stream : Listens(s, q.event.office)
  PROVE NoticeInvariant'
<1>0. publishing'[p] = q /\ \A o \in Publisher \ {p} : publishing'[o] = publishing[o]
  BY DEF NoticeInvariant, NoticeTypeOK
<1>1. NoticeTypeOK'
  <2>1. publishing' \in [Publisher -> Publishing]
    <3> HIDE DEF Publishing, Publisher
    <3> QED
      BY DEF NoticeInvariant, NoticeTypeOK
  <2> QED
    BY <2>1 DEF NoticeInvariant, NoticeTypeOK
<1>2. PublishersTrue'
  <2>1. ASSUME NEW o \in Publisher
        PROVE /\ publishing'[o].phase = "send" => publishing'[o].event \in Event
              /\ publishing'[o].phase # "send" => publishing'[o].left = {}
              /\ Told(publishing'[o].event) /\ Told(publishing'[o].next)
              /\ \A s \in publishing'[o].left \cap Stream : Listens(s, publishing'[o].event.office)
    BY <1>0 DEF NoticeInvariant, PublishersTrue
  <2>2. \A e : Told(e)' = Told(e)
    BY DEF Told, StoredFor
  <2>3. \A s, o : Listens(s, o)' = Listens(s, o)
    BY DEF Listens
  <2> QED
    BY <2>1, <2>2, <2>3 DEF PublishersTrue, Told, Listens, StoredFor
<1>3. SubscribersTrue' /\ ToldTrue' /\ ToastsTrue'
  BY DEF NoticeInvariant, SubscribersTrue, ToldTrue, ToastsTrue, StoredFor, Listens
<1> QED
  BY <1>1, <1>2, <1>3 DEF NoticeInvariant

\* One event, or two.
LEMMA EventsInTurn ==
  ASSUME NEW a, NEW b
  PROVE /\ Head(<<a>>) = a /\ Len(<<a>>) = 1
        /\ Head(<<a, b>>) = a /\ Len(<<a, b>>) = 2 /\ <<a, b>>[2] = b
OBVIOUS
\* What is in a channel after a send.
LEMMA AfterAppend ==
  ASSUME NEW S, NEW q \in Seq(S), NEW e \in S, NEW j \in 1..Len(Append(q, e))
  PROVE (j \in 1..Len(q) /\ Append(q, e)[j] = q[j]) \/ Append(q, e)[j] = e
OBVIOUS
\* The events of a publisher that takes the lock.
LEMMA SendingIsTrue ==
  ASSUME NoticeInvariant, NEW p \in Publisher, NEW e \in Event, NEW next \in Event \cup {NoEvent},
         Told(e), Told(next),
         publishing' = [publishing EXCEPT ![p] =
           [phase |-> "send", event |-> e, left |-> subscribers[e.office] \cup {Notifier}, next |-> next]],
         UNCHANGED <<bus, stream, notice, toasts, failed>>, notifier' \in NotifierState,
         notifier'.phase = "publish" => StoredFor(notifier'.note, notifier'.office, notifier'.user)
  PROVE NoticeInvariant'
<1> DEFINE q == [phase |-> "send", event |-> e, left |-> subscribers[e.office] \cup {Notifier}, next |-> next]
<1>1. e.office \in Office
  BY ShapeOfEvent
<1>2. subscribers[e.office] \subseteq Stream
  BY <1>1 DEF NoticeInvariant, NoticeTypeOK
<1>3. q \in Publishing
  BY <1>2 DEF Publishing, Channel
<1>4. q.phase = "send" /\ q.event = e /\ q.left = subscribers[e.office] \cup {Notifier} /\ q.next = next
  OBVIOUS
<1>5. publishing' = [publishing EXCEPT ![p] = q]
  OBVIOUS
<1> HIDE DEF q
<1>6. \A s \in q.left \cap Stream : Listens(s, e.office)
  BY <1>1, <1>4, NoticeAssumption DEF NoticeInvariant, SubscribersTrue
<1>7. QueuesTrue' /\ queue' \in [Channel -> Seq(Event)]
  BY DEF NoticeInvariant, NoticeTypeOK, QueuesTrue, bus, Told, StoredFor, Listens
<1>8. UNCHANGED <<subscribers, closed>>
  BY DEF bus
<1> QED
  BY <1>3, <1>4, <1>5, <1>6, <1>7, <1>8, PublisherKeeps

\* A lead is created, or a note is told of: the lock is taken.
LEMMA PublishKeeps ==
  ASSUME NoticeInvariant,
         Notify \/ \E p \in LeadPublisher, o \in Office, u \in Reader : CreateLeadPublishes(p, o, u)
  PROVE NoticeInvariant'
<1>1. ASSUME NEW p \in LeadPublisher, NEW o \in Office, NEW u \in Reader, CreateLeadPublishes(p, o, u)
      PROVE NoticeInvariant'
  <2> DEFINE e == [type |-> "lead-created", office |-> o]
             a == [type |-> "lead-responsible-assigned", office |-> o, user |-> u]
  <2>1. e \in Event /\ a \in Event /\ Told(e) /\ Told(a) /\ e.office = o
    BY DEF Event, Told
  <2>2. publishing' = [publishing EXCEPT ![p] =
           [phase |-> "send", event |-> e, left |-> subscribers[e.office] \cup {Notifier}, next |-> a]]
    <3>1. SendsTo(p, <<e, a>>)
      BY <1>1 DEF CreateLeadPublishes
    <3> HIDE DEF e, a
    <3> QED
      BY <3>1, EventsInTurn DEF SendsTo
  <2>3. UNCHANGED <<bus, stream, notifier, notice, toasts, failed>> /\ p \in Publisher
    BY <1>1 DEF CreateLeadPublishes, Publisher
  <2>4. notifier' \in NotifierState
    BY <2>3 DEF NoticeInvariant, NoticeTypeOK
  <2>5. notifier'.phase = "publish" => StoredFor(notifier'.note, notifier'.office, notifier'.user)
    BY <2>3 DEF NoticeInvariant, ToldTrue
  <2> HIDE DEF e, a
  <2> QED
    BY <2>1, <2>2, <2>3, <2>4, <2>5, SendingIsTrue
<1>2. CASE Notify
  <2> DEFINE e == [type |-> "notification", office |-> notifier.office, user |-> notifier.user, note |-> notifier.note]
  <2>0. /\ notifier.phase = "publish" /\ notifier' = Waiting /\ UNCHANGED <<bus, stream, notice, toasts, failed>>
        /\ notifier.office \in Office /\ notifier.user \in Reader /\ notifier.note \in NoticeId
    BY <1>2, ShapeOfNotifier DEF Notify, NoticeInvariant, NoticeTypeOK
  <2>1. e \in Event /\ Told(e) /\ Told(NoEvent)
    BY <2>0 DEF Event, Told, NoEvent, NoticeInvariant, ToldTrue
  <2>2. publishing' = [publishing EXCEPT ![Notifier] =
           [phase |-> "send", event |-> e, left |-> subscribers[e.office] \cup {Notifier}, next |-> NoEvent]]
    <3>1. SendsTo(Notifier, <<e>>)
      BY <1>2 DEF Notify
    <3> HIDE DEF e
    <3> QED
      BY <3>1, EventsInTurn DEF SendsTo, NoEvent
  <2>3. Waiting \in NotifierState /\ Waiting.phase # "publish"
    BY DEF Waiting, NotifierState
  <2> HIDE DEF e
  <2> QED
    BY <2>0, <2>1, <2>2, <2>3, SendingIsTrue DEF Publisher
<1> QED
  BY <1>1, <1>2

\* A send to one channel, and the end of a turn.
LEMMA SendKeeps ==
  ASSUME NoticeInvariant, NEW p \in Publisher, PublisherStep(p)
  PROVE NoticeInvariant'
<1> DEFINE q == publishing[p]
<1>0. /\ q \in Publishing /\ q.event \in Event \cup {NoEvent} /\ q.next \in Event \cup {NoEvent}
      /\ q.left \in SUBSET Channel /\ Told(q.event) /\ Told(q.next)
      /\ q.phase = "send" => q.event \in Event
  BY DEF NoticeInvariant, NoticeTypeOK, PublishersTrue, Publishing
<1>1. ASSUME UNCHANGED <<stream, notifier, notice, toasts, failed>>
      PROVE /\ notifier' \in NotifierState
            /\ notifier'.phase = "publish" => StoredFor(notifier'.note, notifier'.office, notifier'.user)
  BY <1>1 DEF NoticeInvariant, NoticeTypeOK, ToldTrue
<1>2. CASE Sent(p)
  <2>0. q.phase = "send" /\ q.left = {} /\ UNCHANGED <<bus, stream, notifier, notice, toasts, failed>>
    BY <1>2 DEF Sent
  <2>1. CASE q.next.type # "none"
    <3>1. q.next \in Event
      BY <1>0, <2>1 DEF NoEvent
    <3>2. publishing' = [publishing EXCEPT ![p] =
             [phase |-> "send", event |-> q.next, left |-> subscribers[q.next.office] \cup {Notifier},
              next |-> NoEvent]]
      BY <1>2, <2>1 DEF Sent, SendsTo, NoEvent
    <3>3. Told(NoEvent)
      BY DEF Told, NoEvent
    <3> QED
      BY <1>0, <1>1, <2>0, <3>1, <3>2, <3>3, SendingIsTrue
  <2>2. CASE q.next.type = "none"
    <3> DEFINE next == IF p = Notifier THEN Quiet ELSE [Quiet EXCEPT !.phase = "done"]
    <3>1. /\ next \in Publishing /\ next.phase \in {"none", "done"} /\ next.left = {}
          /\ next.event = NoEvent /\ next.next = NoEvent
      BY DEF Quiet, Publishing, NoEvent
    <3>2. publishing' = [publishing EXCEPT ![p] = next]
      BY <1>2, <2>2 DEF Sent
    <3>3. Told(NoEvent)
      BY DEF Told, NoEvent
    <3>4. QueuesTrue' /\ queue' \in [Channel -> Seq(Event)] /\ UNCHANGED <<subscribers, closed>>
      BY <2>0 DEF NoticeInvariant, NoticeTypeOK, QueuesTrue, bus, Told, StoredFor, Listens
    <3> HIDE DEF next
    <3> QED
      BY <1>1, <2>0, <3>1, <3>2, <3>3, <3>4, PublisherKeeps
  <2> QED
    BY <2>1, <2>2
<1>3. ASSUME NEW c \in Channel, Send(p, c) PROVE NoticeInvariant'
  <2> DEFINE next == [q EXCEPT !.left = @ \ {c}]
  <2>0. /\ q.phase = "send" /\ c \in q.left /\ UNCHANGED <<subscribers, closed, stream, notifier, notice, toasts, failed>>
        /\ queue' = IF Len(queue[c]) < BufferSize THEN [queue EXCEPT ![c] = Append(@, q.event)] ELSE queue
    BY <1>3 DEF Send, Turn
  <2>1. /\ next \in Publishing /\ next.phase = "send" /\ next.left = q.left \ {c}
        /\ next.event = q.event /\ next.next = q.next
    BY <1>0, <2>0 DEF Publishing
  <2>2. publishing' = [publishing EXCEPT ![p] = next]
    <3> HIDE DEF q
    <3>1. publishing' = [publishing EXCEPT ![p].left = @ \ {c}]
      BY <1>3 DEF Send
    <3>2. publishing \in [Publisher -> Publishing]
      BY DEF NoticeInvariant, NoticeTypeOK
    <3> QED
      BY <3>1, <3>2 DEF q
  <2>3. queue' \in [Channel -> Seq(Event)]
    BY <1>0, <2>0 DEF NoticeInvariant, NoticeTypeOK
  <2>4. QueuesTrue'
    <3>1. c \in Stream => Listens(c, q.event.office)
      BY <2>0 DEF NoticeInvariant, PublishersTrue
    <3>2. ASSUME NEW d \in Channel, NEW i \in 1..Len(queue'[d])
          PROVE (queue'[d][i] = q.event /\ d = c) \/ (i \in 1..Len(queue[d]) /\ queue'[d][i] = queue[d][i])
      <4>1. queue[d] \in Seq(Event) /\ queue[c] \in Seq(Event)
        BY DEF NoticeInvariant, NoticeTypeOK
      <4>2. q.event \in Event
        BY <1>0, <2>0
      <4>3. CASE d = c /\ Len(queue[c]) < BufferSize
        <5> DEFINE more == Append(queue[c], q.event)
        <5>1. queue'[d] = more
          BY <2>0, <4>3 DEF NoticeInvariant, NoticeTypeOK
        <5>2. i \in 1..Len(more)
          BY <3>2, <5>1
        <5>3. (i \in 1..Len(queue[c]) /\ more[i] = queue[c][i]) \/ more[i] = q.event
          BY <4>1, <4>2, <5>2, AfterAppend
        <5> HIDE DEF q, more
        <5> QED
          BY <4>3, <5>1, <5>3
      <4>4. CASE d # c \/ ~(Len(queue[c]) < BufferSize)
        <5>1. queue'[d] = queue[d]
          BY <2>0, <4>4 DEF NoticeInvariant, NoticeTypeOK
        <5> QED
          BY <3>2, <5>1
      <4> QED
        BY <4>3, <4>4
    <3>3. \A d \in Channel : \A i \in 1..Len(queue'[d]) : Told(queue'[d][i])
      BY <1>0, <3>2 DEF NoticeInvariant, QueuesTrue
    <3>4. ASSUME NEW s \in Stream, Listens(s, stream[s].office), NEW i \in 1..Len(queue'[s])
          PROVE queue'[s][i].office = stream[s].office
      BY <3>1, <3>2, <3>4 DEF NoticeInvariant, QueuesTrue, Listens, Channel
    <3>5. ASSUME NEW s \in Stream, stream[s].phase = "none" PROVE queue'[s] = <<>>
      <4>1. s # c
        BY <3>1, <3>5 DEF Listens
      <4> QED
        BY <2>0, <3>5, <4>1 DEF NoticeInvariant, NoticeTypeOK, QueuesTrue, Channel
    <3> QED
      BY <2>0, <3>3, <3>4, <3>5, SMTT(30) DEF QueuesTrue, Told, StoredFor, Listens
  <2>5. \A s \in next.left \cap Stream : Listens(s, next.event.office)
    BY <2>1 DEF NoticeInvariant, PublishersTrue
  <2> HIDE DEF next
  <2> QED
    BY <1>0, <1>1, <2>0, <2>1, <2>2, <2>3, <2>4, <2>5, PublisherKeeps
<1> QED
  BY <1>2, <1>3 DEF PublisherStep

-----------------------------------------------------------------------------
(* What the goroutine and the streams do.                                   *)

\* What is in a channel after an event was taken.
LEMMA AfterTail ==
  ASSUME NEW S, NEW q \in Seq(S), q # <<>>
  PROVE \A i \in 1..Len(Tail(q)) : i + 1 \in 1..Len(q) /\ Tail(q)[i] = q[i + 1]
OBVIOUS

\* The goroutine takes an event.
LEMMA ConsumeKeeps ==
  ASSUME NoticeInvariant, ConsumeResponsibleAssigned
  PROVE NoticeInvariant'
<1> DEFINE e == Head(queue[Notifier])
<1>0. /\ queue' = [queue EXCEPT ![Notifier] = Tail(@)]
      /\ notifier' = IF e.type = "lead-responsible-assigned"
                     THEN [phase |-> "insert", office |-> e.office, user |-> e.user] ELSE Waiting
      /\ UNCHANGED <<subscribers, closed, publishing, stream, notice, preference, toasts, failed>>
      /\ queue[Notifier] # <<>> /\ queue[Notifier] \in Seq(Event)
  BY DEF ConsumeResponsibleAssigned, NoticeInvariant, NoticeTypeOK, Channel
<1>1. e \in Event
  BY <1>0
<1>2. notifier' \in NotifierState /\ notifier'.phase # "publish"
  BY <1>0, <1>1, ShapeOfEvent DEF NotifierState, Waiting
<1>3. /\ queue' \in [Channel -> Seq(Event)]
      /\ \A c \in Channel \ {Notifier} : queue'[c] = queue[c]
      /\ \A i \in 1..Len(queue'[Notifier]) :
           i + 1 \in 1..Len(queue[Notifier]) /\ queue'[Notifier][i] = queue[Notifier][i + 1]
  <2>1. Tail(queue[Notifier]) \in Seq(Event)
    BY <1>0
  <2>2. queue'[Notifier] = Tail(queue[Notifier])
    BY <1>0 DEF NoticeInvariant, NoticeTypeOK, Channel
  <2>3. queue' \in [Channel -> Seq(Event)] /\ \A c \in Channel \ {Notifier} : queue'[c] = queue[c]
    BY <1>0, <2>1 DEF NoticeInvariant, NoticeTypeOK
  <2> QED
    BY <1>0, <2>2, <2>3
<1>4. QueuesTrue'
  <2>1. \A c \in Channel : \A i \in 1..Len(queue'[c]) : Told(queue'[c][i])
    <3> SUFFICES ASSUME NEW c \in Channel, NEW i \in 1..Len(queue'[c]) PROVE Told(queue'[c][i])
      OBVIOUS
    <3>1. CASE c = Notifier
      BY <1>3, <3>1 DEF NoticeInvariant, QueuesTrue
    <3>2. CASE c # Notifier
      BY <1>3, <3>2 DEF NoticeInvariant, QueuesTrue
    <3> QED
      BY <3>1, <3>2
  <2>2. \A s \in Stream : queue'[s] = queue[s]
    BY <1>3, NoticeAssumption DEF Channel
  <2> QED
    <3>1. stream' = stream /\ notice' = notice
      BY <1>0
    <3>2. ASSUME NEW s \in Stream PROVE (stream[s].phase = "none" => queue[s] = <<>>)'
      BY <2>2, <3>1, Zenon DEF NoticeInvariant, QueuesTrue
    <3>4. ASSUME NEW s \in Stream
          PROVE  (Listens(s, stream[s].office) => \A i \in 1..Len(queue[s]) : queue[s][i].office = stream[s].office)'
      <4>1. Listens(s, stream[s].office) =>
              \A i \in 1..Len(queue[s]) : queue[s][i].office = stream[s].office
        BY Zenon DEF NoticeInvariant, QueuesTrue
      <4> QED
        BY <2>2, <3>1, <4>1, Zenon DEF Listens
    <3>3. (\A c \in Channel : \A i \in 1..Len(queue[c]) : Told(queue[c][i]))'
      BY <2>1, <3>1, Zenon DEF Told, StoredFor
    <3> QED
      BY <3>2, <3>3, <3>4, Zenon DEF QueuesTrue
<1>5. PublishersTrue' /\ SubscribersTrue' /\ ToldTrue' /\ ToastsTrue'
  BY <1>0, <1>2, SMTT(30)
  DEF NoticeInvariant, PublishersTrue, SubscribersTrue, ToldTrue, ToastsTrue, Told, StoredFor, Listens
<1>6. NoticeTypeOK'
  BY <1>0, <1>2, <1>3 DEF NoticeInvariant, NoticeTypeOK
<1> QED
  BY <1>4, <1>5, <1>6 DEF NoticeInvariant

\* A stream's next state is enough to keep what is true of it.
LEMMA StreamKeeps ==
  ASSUME NoticeInvariant, NEW s \in Stream, NEW q \in StreamState, stream[s].phase \in {"open", "toast", "leave"},
         stream' = [stream EXCEPT ![s] = q],
         UNCHANGED <<publishing, notifier, notice>>,
         failed \subseteq failed',
         q.phase # "none", q.office = stream[s].office, q.user = stream[s].user,
         q.phase = "toast" => StoredFor(q.note, q.office, q.user),
         \/ q.phase \in {"open", "toast", "leave"} /\ UNCHANGED <<subscribers, closed>>
         \/ Cleanup(s) /\ q.phase = "left",
         toasts' \in [Stream -> SUBSET [note : NoticeId, count : Nat]],
         \A o \in Stream \ {s} : toasts'[o] = toasts[o],
         \A t \in toasts'[s] : \/ t \in toasts[s]
                               \/ /\ StoredFor(t.note, q.office, q.user)
                                  /\ t.count = 0 => notice[t.note].read \/ t.note \in failed',
         queue' \in [Channel -> Seq(Event)],
         \A c \in Channel \ {s} : queue'[c] = queue[c],
         \A i \in 1..Len(queue'[s]) : \E j \in 1..Len(queue[s]) : queue'[s][i] = queue[s][j]
  PROVE NoticeInvariant'
<1>0. stream'[s] = q /\ \A o \in Stream \ {s} : stream'[o] = stream[o]
  BY DEF NoticeInvariant, NoticeTypeOK
<1>1. NoticeTypeOK'
  <2>1. stream' \in [Stream -> StreamState]
    <3> HIDE DEF StreamState
    <3> QED
      BY DEF NoticeInvariant, NoticeTypeOK
  <2>2. subscribers' \in [Office -> SUBSET Stream] /\ closed' \subseteq Stream
    BY DEF NoticeInvariant, NoticeTypeOK, Cleanup
  <2> QED
    BY <2>1, <2>2 DEF NoticeInvariant, NoticeTypeOK
<1>2. QueuesTrue'
  <2>1. \A c \in Channel : \A i \in 1..Len(queue'[c]) : Told(queue'[c][i])
    <3> SUFFICES ASSUME NEW c \in Channel, NEW i \in 1..Len(queue'[c]) PROVE Told(queue'[c][i])
      OBVIOUS
    <3>1. CASE c = s
      BY <3>1 DEF NoticeInvariant, QueuesTrue, Channel
    <3>2. CASE c # s
      BY <3>2 DEF NoticeInvariant, QueuesTrue
    <3> QED
      BY <3>1, <3>2
  <2>2. ASSUME NEW o \in Stream, Listens(o, stream[o].office)', NEW i \in 1..Len(queue'[o])
        PROVE queue'[o][i].office = stream'[o].office
    <3>1. CASE o = s
      <4>1. Listens(s, stream[s].office)
        BY DEF Listens
      <4> QED
        BY <1>0, <2>2, <3>1, <4>1 DEF NoticeInvariant, QueuesTrue
    <3>2. CASE o # s
      BY <1>0, <2>2, <3>2 DEF NoticeInvariant, QueuesTrue, Listens, Channel
    <3> QED
      BY <3>1, <3>2
  <2>3. ASSUME NEW o \in Stream, stream'[o].phase = "none" PROVE queue'[o] = <<>>
    BY <1>0, <2>3 DEF NoticeInvariant, QueuesTrue, Channel
  <2> QED
    BY <2>1, <2>2, <2>3 DEF QueuesTrue, Told, StoredFor
<1>3. ASSUME q.phase \in {"open", "toast", "leave"}, UNCHANGED <<subscribers, closed>>
      PROVE PublishersTrue' /\ SubscribersTrue'
  <2>1. \A o \in Stream, f \in Office \cup {stream[s].office} : Listens(o, f) => Listens(o, f)'
    BY <1>0, <1>3 DEF Listens
  <2>2. PublishersTrue'
    <3>1. \A p \in Publisher : \A o \in publishing[p].left \cap Stream : Listens(o, publishing[p].event.office)'
      BY <1>0, <1>3 DEF NoticeInvariant, PublishersTrue, Listens
    <3> QED
      BY <3>1 DEF NoticeInvariant, PublishersTrue, Told, StoredFor, Listens
  <2>3. SubscribersTrue'
    BY <1>0, <1>3, <2>1 DEF NoticeInvariant, NoticeTypeOK, SubscribersTrue
  <2> QED
    BY <2>2, <2>3
<1>4. ASSUME Cleanup(s), q.phase = "left" PROVE PublishersTrue' /\ SubscribersTrue'
  <2>0. /\ \A p \in Publisher : publishing[p].phase # "send"
        /\ subscribers' = [o \in Office |-> subscribers[o] \ {s}] /\ closed' = closed \cup {s}
    BY <1>4 DEF Cleanup, Locked, Publisher
  <2>1. PublishersTrue'
    <3>1. \A p \in Publisher : publishing[p].left = {}
      BY <2>0 DEF NoticeInvariant, PublishersTrue
    <3> QED
      BY <3>1 DEF NoticeInvariant, PublishersTrue, Told, StoredFor
  <2>2. SubscribersTrue'
    <3>1. \A o \in Office : \A x \in subscribers'[o] : Listens(x, o)'
      BY <1>0, <2>0 DEF NoticeInvariant, NoticeTypeOK, SubscribersTrue, Listens
    <3>2. \A x \in closed' : stream'[x].phase = "left"
      BY <1>0, <1>4, <2>0 DEF NoticeInvariant, NoticeTypeOK, SubscribersTrue
    <3> QED
      BY <3>1, <3>2 DEF SubscribersTrue
  <2> QED
    BY <2>1, <2>2
<1>5. ToldTrue'
  BY <1>0 DEF NoticeInvariant, ToldTrue, StoredFor
<1>6. ToastsTrue'
  <2> SUFFICES ASSUME NEW o \in Stream, NEW t \in toasts'[o]
               PROVE /\ stream'[o].phase # "none" /\ StoredFor(t.note, stream'[o].office, stream'[o].user)
                     /\ t.count = 0 => notice[t.note].read \/ t.note \in failed'
    BY DEF ToastsTrue, StoredFor
  <2>1. CASE o = s
    BY <1>0, <2>1 DEF NoticeInvariant, ToastsTrue
  <2>2. CASE o # s
    BY <1>0, <2>2 DEF NoticeInvariant, ToastsTrue
  <2> QED
    BY <2>1, <2>2
<1> QED
  BY <1>1, <1>2, <1>3, <1>4, <1>5, <1>6 DEF NoticeInvariant

\* A page opens its stream.
LEMMA OpenKeeps ==
  ASSUME NoticeInvariant, NEW s \in Stream, NEW o \in Office, NEW u \in Reader, OpenStream(s, o, u)
  PROVE NoticeInvariant'
<1> DEFINE q == [phase |-> "open", office |-> o, user |-> u]
<1>0. /\ stream[s].phase = "none" /\ stream' = [stream EXCEPT ![s] = q]
      /\ subscribers' = [subscribers EXCEPT ![o] = @ \cup {s}]
      /\ UNCHANGED <<queue, closed, publishing, notifier, notice, preference, toasts, failed>>
  BY DEF OpenStream, Subscribe
<1>1. q \in StreamState /\ q.phase = "open" /\ q.office = o
  BY DEF StreamState
<1> HIDE DEF q
<1>2. stream'[s] = q /\ \A x \in Stream \ {s} : stream'[x] = stream[x]
  BY <1>0 DEF NoticeInvariant, NoticeTypeOK
<1>3. NoticeTypeOK'
  <2>1. stream' \in [Stream -> StreamState]
    BY <1>0, <1>1 DEF NoticeInvariant, NoticeTypeOK
  <2>2. subscribers' \in [Office -> SUBSET Stream]
    BY <1>0 DEF NoticeInvariant, NoticeTypeOK
  <2> QED
    BY <1>0, <2>1, <2>2 DEF NoticeInvariant, NoticeTypeOK
<1>4. QueuesTrue'
  <2>1. ASSUME NEW x \in Stream, Listens(x, stream[x].office)', NEW i \in 1..Len(queue[x])
        PROVE queue[x][i].office = stream'[x].office
    <3>1. x # s
      BY <1>0, <2>1 DEF NoticeInvariant, QueuesTrue
    <3> QED
      BY <1>2, <2>1, <3>1 DEF NoticeInvariant, QueuesTrue, Listens
  <2>2. \A x \in Stream : stream'[x].phase = "none" => queue[x] = <<>>
    BY <1>1, <1>2 DEF NoticeInvariant, QueuesTrue
  <2> QED
    BY <1>0, <2>1, <2>2 DEF NoticeInvariant, QueuesTrue, Told, StoredFor
<1>5. \A x \in Stream : \A f : Listens(x, f) => x # s /\ Listens(x, f)'
  BY <1>0, <1>2 DEF Listens
<1>6. PublishersTrue'
  <2>1. \A p \in Publisher : \A x \in publishing[p].left \cap Stream : Listens(x, publishing[p].event.office)'
    BY <1>0, <1>2 DEF NoticeInvariant, PublishersTrue, Listens
  <2> QED
    BY <1>0, <2>1 DEF NoticeInvariant, PublishersTrue, Told, StoredFor, Listens
<1>7. SubscribersTrue'
  <2>1. \A f \in Office : \A x \in subscribers'[f] : Listens(x, f)'
    BY <1>0, <1>1, <1>2 DEF NoticeInvariant, NoticeTypeOK, SubscribersTrue, Listens
  <2>2. \A x \in closed : stream'[x].phase = "left"
    BY <1>0, <1>2 DEF NoticeInvariant, NoticeTypeOK, SubscribersTrue
  <2> QED
    BY <1>0, <2>1, <2>2 DEF SubscribersTrue
<1>8. ToldTrue' /\ ToastsTrue'
  BY <1>0, <1>1, <1>2 DEF NoticeInvariant, ToldTrue, ToastsTrue, StoredFor
<1> QED
  BY <1>3, <1>4, <1>6, <1>7, <1>8 DEF NoticeInvariant

\* A stream takes an event, shows a toast, is left and closes.
LEMMA StreamStepsKeep ==
  ASSUME NoticeInvariant, NEW s \in Stream, StreamStep(s) \/ LeavePage(s)
  PROVE NoticeInvariant'
<1> DEFINE w == stream[s]
<1>0. w \in StreamState /\ queue[s] \in Seq(Event) /\ toasts[s] \subseteq [note : NoticeId, count : Nat]
  BY DEF NoticeInvariant, NoticeTypeOK, Channel
<1>1. /\ w.phase = "toast" => w.note \in NoticeId /\ StoredFor(w.note, w.office, w.user)
      /\ w.phase # "none" => w.office \in Office /\ w.user \in Reader
  BY <1>0, ShapeOfStream DEF NoticeInvariant, ToldTrue
<1>2. CASE StreamNotifications(s)
  <2> DEFINE e == Head(queue[s])
  <2>0. /\ w.phase = "open" /\ queue[s] # <<>> /\ queue' = [queue EXCEPT ![s] = Tail(@)]
        /\ stream' = IF e.type = "notification" /\ e.user = w.user
                     THEN [stream EXCEPT ![s] =
                             [phase |-> "toast", office |-> @.office, user |-> @.user, note |-> e.note]]
                     ELSE stream
        /\ UNCHANGED <<subscribers, closed, publishing, notifier, notice, preference, toasts, failed>>
    BY <1>2 DEF StreamNotifications
  <2>1. e \in Event /\ e = queue[s][1] /\ 1 \in 1..Len(queue[s])
    BY <1>0, <2>0
  <2>2. Told(e) /\ e.office = w.office
    <3>1. Listens(s, w.office)
      BY <2>0 DEF Listens
    <3> QED
      BY <2>1, <3>1 DEF NoticeInvariant, QueuesTrue, Channel
  <2>3. /\ queue' \in [Channel -> Seq(Event)] /\ \A c \in Channel \ {s} : queue'[c] = queue[c]
        /\ \A i \in 1..Len(queue'[s]) : \E j \in 1..Len(queue[s]) : queue'[s][i] = queue[s][j]
    <3>1. Tail(queue[s]) \in Seq(Event)
      BY <1>0, <2>0
    <3>2. queue'[s] = Tail(queue[s])
      BY <2>0 DEF NoticeInvariant, NoticeTypeOK, Channel
    <3>3. queue' \in [Channel -> Seq(Event)] /\ \A c \in Channel \ {s} : queue'[c] = queue[c]
      BY <2>0, <3>1 DEF NoticeInvariant, NoticeTypeOK
    <3>4. \A i \in 1..Len(queue'[s]) : i + 1 \in 1..Len(queue[s]) /\ queue'[s][i] = queue[s][i + 1]
      BY <1>0, <2>0, <3>2, AfterTail
    <3> QED
      BY <3>3, <3>4
  <2>4. toasts' \in [Stream -> SUBSET [note : NoticeId, count : Nat]]
    BY <2>0 DEF NoticeInvariant, NoticeTypeOK
  <2>5. CASE e.type = "notification" /\ e.user = w.user
    <3> DEFINE q == [phase |-> "toast", office |-> w.office, user |-> w.user, note |-> e.note]
    <3>1. /\ q \in StreamState /\ q.phase = "toast" /\ q.office = w.office /\ q.user = w.user
          /\ StoredFor(q.note, q.office, q.user)
      BY <1>1, <2>0, <2>1, <2>2, <2>5, ShapeOfEvent DEF StreamState, Told
    <3>2. stream' = [stream EXCEPT ![s] = q]
      BY <2>0, <2>5
    <3> HIDE DEF q
    <3> QED
      BY <2>0, <2>3, <2>4, <3>1, <3>2, StreamKeeps
  <2>6. CASE ~(e.type = "notification" /\ e.user = w.user)
    <3>1. stream' = [stream EXCEPT ![s] = w]
      BY <2>0, <2>6 DEF NoticeInvariant, NoticeTypeOK
    <3>2. PICK q \in StreamState : q = w
      BY <1>0
    <3>3. /\ stream' = [stream EXCEPT ![s] = q] /\ q.phase = "open"
          /\ q.office = stream[s].office /\ q.user = stream[s].user /\ stream[s].phase = "open"
      BY <2>0, <3>1, <3>2
    <3> QED
      BY <2>0, <2>3, <2>4, <3>3, StreamKeeps
  <2> QED
    BY <2>5, <2>6
<1>3. CASE EmitToast(s)
  <2> DEFINE q == [phase |-> "open", office |-> w.office, user |-> w.user]
             notRead == {n \in DOMAIN notice : notice[n].office = w.office /\ notice[n].user = w.user /\ ~notice[n].read}
  <2>0. w.phase = "toast" /\ stream' = [stream EXCEPT ![s] = q] /\ UNCHANGED <<bus, publishing, notifier, notice>>
    BY <1>3 DEF EmitToast
  <2>1. q \in StreamState /\ q.phase = "open" /\ q.office = w.office /\ q.user = w.user
    BY <1>1, <2>0 DEF StreamState
  <2>2. PICK count \in Nat :
          /\ toasts' = [toasts EXCEPT ![s] = @ \cup {[note |-> w.note, count |-> count]}]
          /\ failed \subseteq failed'
          /\ count = 0 => notice[w.note].read \/ w.note \in failed'
    <3>1. IsFiniteSet(notRead)
      BY FS_Subset DEF NoticeInvariant, NoticeTypeOK
    <3>2. Cardinality(notRead) \in Nat /\ (Cardinality(notRead) = 0 => w.note \notin notRead)
      BY <3>1, FS_CardinalityType, FS_EmptySet
    <3>3. Cardinality(notRead) = 0 => notice[w.note].read
      BY <1>1, <2>0, <3>2 DEF StoredFor
    <3>4. CASE /\ toasts' = [toasts EXCEPT ![s] = @ \cup {[note |-> w.note, count |-> CountUnread(w.office, w.user)]}]
               /\ UNCHANGED failed
      <4>1. CountUnread(w.office, w.user) = Cardinality(notRead)
        BY DEF CountUnread
      <4> HIDE DEF notRead
      <4> QED
        BY <3>2, <3>3, <3>4, <4>1
    <3>5. CASE /\ toasts' = [toasts EXCEPT ![s] = @ \cup {[note |-> w.note, count |-> 0]}]
               /\ failed' = failed \cup {w.note}
      BY <3>5
    <3> QED
      BY <1>3, <3>4, <3>5 DEF EmitToast
  <2> DEFINE toast == [note |-> w.note, count |-> count]
  <2>3. toast \in [note : NoticeId, count : Nat] /\ toast.note = w.note /\ toast.count = count
    BY <1>1, <2>0
  <2>4. toasts' = [toasts EXCEPT ![s] = @ \cup {toast}]
    BY <2>2
  <2> HIDE DEF toast, q, notRead
  <2>5. /\ toasts' \in [Stream -> SUBSET [note : NoticeId, count : Nat]]
        /\ \A o \in Stream \ {s} : toasts'[o] = toasts[o]
        /\ toasts'[s] = toasts[s] \cup {toast}
    BY <2>3, <2>4 DEF NoticeInvariant, NoticeTypeOK
  <2>6. \A t \in toasts'[s] : \/ t \in toasts[s]
                              \/ /\ StoredFor(t.note, q.office, q.user)
                                 /\ t.count = 0 => notice[t.note].read \/ t.note \in failed'
    BY <1>1, <2>0, <2>1, <2>2, <2>3, <2>5
  <2>7. UNCHANGED <<subscribers, closed>> /\ queue' = queue /\ queue \in [Channel -> Seq(Event)]
    BY <2>0 DEF bus, NoticeInvariant, NoticeTypeOK
  <2> QED
    BY <2>0, <2>1, <2>2, <2>5, <2>6, <2>7, StreamKeeps
<1>4. CASE LeavePage(s)
  <2> DEFINE q == [phase |-> "leave", office |-> w.office, user |-> w.user]
  <2>0. w.phase = "open" /\ UNCHANGED <<bus, publishing, notifier, notice, toasts, failed>>
    BY <1>4 DEF LeavePage
  <2>1. q \in StreamState /\ q.phase = "leave" /\ q.office = w.office /\ q.user = w.user
    BY <1>1, <2>0 DEF StreamState
  <2>2. q = [w EXCEPT !.phase = "leave"]
    BY <1>0, <2>0 DEF StreamState
  <2>3. stream' = [stream EXCEPT ![s] = q]
    <3> HIDE DEF q
    <3>1. stream' = [stream EXCEPT ![s] = [@ EXCEPT !.phase = "leave"]]
      BY <1>4 DEF LeavePage
    <3> QED
      BY <2>2, <3>1
  <2> HIDE DEF q
  <2>4. /\ UNCHANGED <<subscribers, closed>> /\ queue' = queue /\ queue \in [Channel -> Seq(Event)]
        /\ toasts' \in [Stream -> SUBSET [note : NoticeId, count : Nat]]
    BY <2>0 DEF bus, NoticeInvariant, NoticeTypeOK
  <2> QED
    BY <2>0, <2>1, <2>3, <2>4, StreamKeeps
<1>5. CASE CloseStream(s)
  <2> DEFINE q == [phase |-> "left", office |-> w.office, user |-> w.user]
  <2>0. w.phase = "leave" /\ Cleanup(s) /\ UNCHANGED <<publishing, notifier, notice, preference, toasts, failed>>
    BY <1>5 DEF CloseStream
  <2>1. q \in StreamState /\ q.phase = "left" /\ q.office = w.office /\ q.user = w.user
    BY <1>1, <2>0 DEF StreamState
  <2>2. q = [w EXCEPT !.phase = "left"]
    BY <1>0, <2>0 DEF StreamState
  <2>3. stream' = [stream EXCEPT ![s] = q]
    <3> HIDE DEF q
    <3>1. stream' = [stream EXCEPT ![s] = [@ EXCEPT !.phase = "left"]]
      BY <1>5 DEF CloseStream
    <3> QED
      BY <2>2, <3>1
  <2> HIDE DEF q
  <2>4. /\ queue' = [queue EXCEPT ![s] = <<>>]
        /\ toasts' \in [Stream -> SUBSET [note : NoticeId, count : Nat]]
    BY <2>0 DEF Cleanup, NoticeInvariant, NoticeTypeOK
  <2>5. /\ queue' \in [Channel -> Seq(Event)] /\ \A c \in Channel \ {s} : queue'[c] = queue[c]
        /\ queue'[s] = <<>>
    BY <2>4 DEF NoticeInvariant, NoticeTypeOK, Channel
  <2>6. \A i \in 1..Len(queue'[s]) : FALSE
    BY <2>5
  <2> QED
    BY <2>0, <2>1, <2>3, <2>4, <2>5, <2>6, StreamKeeps
<1> QED
  BY <1>2, <1>3, <1>4, <1>5 DEF StreamStep

\* Every step keeps the invariant.
LEMMA NoticesInductive == NoticeInvariant /\ [NoticeNext]_noticeVars => NoticeInvariant'
<1> SUFFICES ASSUME NoticeInvariant, [NoticeNext]_noticeVars PROVE NoticeInvariant'
  OBVIOUS
<1>1. CASE UNCHANGED noticeVars
  BY <1>1, SMTT(30) DEF noticeVars, bus, NoticeInvariant, NoticeTypeOK, QueuesTrue, PublishersTrue, SubscribersTrue, ToldTrue,
              ToastsTrue, Told, StoredFor, Listens
<1>2. ASSUME NEW u \in Reader, NEW e \in BOOLEAN, SetPreference(u, e) PROVE NoticeInvariant'
  BY <1>2, SMTT(30) DEF SetPreference, bus, NoticeInvariant, NoticeTypeOK, QueuesTrue, PublishersTrue, SubscribersTrue, ToldTrue,
              ToastsTrue, Told, StoredFor, Listens
<1>3. CASE NotifierStep
  BY <1>3, ConsumeKeeps, PublishKeeps, CreateKeeps DEF NotifierStep
<1>4. ASSUME NEW p \in Publisher, PublisherStep(p) PROVE NoticeInvariant'
  BY <1>4, SendKeeps
<1>5. ASSUME NEW o \in Office, NEW u \in Reader,
             \/ \E p \in LeadPublisher : CreateLeadPublishes(p, o, u)
             \/ \E s \in Stream : OpenStream(s, o, u)
             \/ MarkAllRead(o, u)
      PROVE NoticeInvariant'
  BY <1>5, PublishKeeps, OpenKeeps, ReadingKeeps
<1>6. ASSUME NEW s \in Stream, StreamStep(s) \/ LeavePage(s) PROVE NoticeInvariant'
  BY <1>6, StreamStepsKeep
<1>7. ASSUME NEW n \in NoticeId, MarkRead(n) PROVE NoticeInvariant'
  BY <1>7, ReadingKeeps
<1> QED
  BY <1>1, <1>2, <1>3, <1>4, <1>5, <1>6, <1>7 DEF NoticeNext, Publisher

\* No publisher is left with a channel that was closed, and a page is shown
\* the notifications of its user and office only, each stored before it is
\* shown and counted in its badge (memory_bus.go:21-66, notify.go:49-62,
\* notification handler.go:97-133).
THEOREM StreamsStayTrue == NoticeSpec => []StreamsAreTrue
<1>1. NoticeInit => NoticeInvariant
  <2> SUFFICES ASSUME NoticeInit PROVE NoticeInvariant
    OBVIOUS
  <2>1. IsFiniteSet(DOMAIN notice) /\ notice \in [DOMAIN notice -> NotificationRow]
    <3>1. DOMAIN notice = {}
      BY DEF NoticeInit
    <3>2. IsFiniteSet({})
      BY FS_EmptySet
    <3> QED
      BY <3>1, <3>2 DEF NoticeInit
  <2>2. publishing \in [Publisher -> Publishing]
    BY DEF NoticeInit, Quiet, Publishing, Publisher, NoEvent
  <2>3. notifier \in NotifierState /\ stream \in [Stream -> StreamState]
    BY DEF NoticeInit, Waiting, NotifierState, StreamState
  <2>4. NoticeTypeOK
    BY <2>1, <2>2, <2>3 DEF NoticeInit, NoticeTypeOK
  <2>5. QueuesTrue
    BY DEF NoticeInit, QueuesTrue, Channel, Listens
  <2>6. PublishersTrue
    BY DEF NoticeInit, PublishersTrue, Quiet, Told, Publisher
  <2>7. SubscribersTrue /\ ToldTrue /\ ToastsTrue
    BY DEF NoticeInit, SubscribersTrue, ToldTrue, ToastsTrue, Waiting
  <2> QED
    BY <2>4, <2>5, <2>6, <2>7 DEF NoticeInvariant
<1>2. NoticeInvariant => StreamsAreTrue
  <2> SUFFICES ASSUME NoticeInvariant PROVE StreamsAreTrue
    OBVIOUS
  <2>1. \A p \in LeadPublisher \cup {Notifier} : publishing[p].left \cap closed = {}
    BY DEF NoticeInvariant, NoticeTypeOK, PublishersTrue, SubscribersTrue, Publisher, Listens
  <2>2. \A o \in Office : subscribers[o] \cap closed = {}
    BY DEF NoticeInvariant, SubscribersTrue, Listens
  <2>3. \A s \in Stream : \A t \in toasts[s] :
          /\ t.note \in DOMAIN notice
          /\ notice[t.note].office = stream[s].office /\ notice[t.note].user = stream[s].user
          /\ t.count = 0 => notice[t.note].read \/ t.note \in failed
    BY DEF NoticeInvariant, ToastsTrue, StoredFor
  <2> QED
    BY <2>1, <2>2, <2>3 DEF StreamsAreTrue, NoticeInvariant
<1> QED
  BY <1>1, <1>2, NoticesInductive, PTL DEF NoticeSpec

-----------------------------------------------------------------------------
(***************************************************************************)
(* The pages of the lists.                                                 *)
(***************************************************************************)
HIDE NoticeAssumption
USE PagingAssumption

\* What a page carries as its size and how many rows it has.
Sized(list, size) ==
  CASE list = "notices" -> size \in 1..MaxSize
    [] list = "logs" -> size \in Nat \ {0}
    [] list = "audit" -> size \in 1..MaxSize
    [] OTHER -> size = 0
PerPage(list, size) == IF list \in AdminListing \cup {"files"} THEN DefaultSize ELSE size
Opened(list, size) ==
  CASE list = "notices" -> Clamped(size) [] list = "logs" -> OrDefault(size) [] OTHER -> size

\* The page after k rows of n, L rows each.
PageAfter(v, n, k, L) ==
  /\ v.rows = <<k + 1, Least(k + L, n)>>
  /\ v.prev = (k > 0) /\ v.next = (k + L < n)
  /\ v.label = <<>> \/ (k < n => v.label = v.rows)

LEMMA TimesNext ==
  ASSUME NEW p \in Nat, NEW L \in Nat
  PROVE  p * L \in Nat /\ (p + 1) * L = p * L + L /\ (p > 0 /\ L > 0 => p * L > 0) /\ 0 * L = 0
OBVIOUS

\* There is another page of files when the pages so far do not hold them all.
LEMMA TotalPagesCover ==
  ASSUME NEW n \in Nat, NEW L \in Nat \ {0}, NEW p \in Nat
  PROVE  (p + 1 < TotalPages(n, L)) <=> (p * L + L < n)
<1> DEFINE q == (n + L - 1) \div L
<1>1. q \in Int /\ L * q <= n + L - 1 /\ n + L - 1 < L * q + L
  OBVIOUS
<1>2. L * q = q * L
  BY <1>1
<1> HIDE DEF q
<1>3. ASSUME p + 1 < q PROVE p * L + L < n
  <2>1. p + 2 <= q
    BY <1>1, <1>3
  <2>2. (p + 2) * L <= q * L
    BY <1>1, <2>1
  <2>3. (p + 2) * L = p * L + L + L
    BY TimesNext
  <2> QED
    BY <1>1, <1>2, <2>2, <2>3, TimesNext
<1>4. ASSUME p * L + L < n PROVE p + 1 < q
  <2>1. SUFFICES ASSUME q <= p + 1 PROVE FALSE
    BY <1>1
  <2>2. q * L <= (p + 1) * L
    BY <1>1, <2>1
  <2> QED
    BY <1>1, <1>2, <1>4, <2>2, TimesNext
<1>5. TotalPages(n, L) = IF q < 1 THEN 1 ELSE q
  BY DEF TotalPages, q
<1> QED
  BY <1>1, <1>3, <1>4, <1>5

LEMMA SizesAre ==
  ASSUME NEW size \in Nat
  PROVE  /\ OrDefault(size) \in Nat \ {0} /\ OrDefault(OrDefault(size)) = OrDefault(size)
         /\ Clamped(size) \in 1..MaxSize /\ Clamped(Clamped(size)) = Clamped(size)
         /\ size \in Nat \ {0} => OrDefault(size) = size
         /\ size \in 1..MaxSize => Clamped(size) = size
         /\ OrDefault(0) = DefaultSize /\ Clamped(DefaultSize) = DefaultSize
BY DEF OrDefault, Clamped, Least

-----------------------------------------------------------------------------
(* What each list shows.                                                    *)

LEMMA DrawnIs ==
  ASSUME NEW list, NEW n \in Nat, NEW p \in Nat, NEW at \in Nat, at = p + 1 \/ (at = 0 /\ p = 0),
         NEW out, out = Found(n, at, 0), NEW v, v = Drawn(list, n, out),
         NEW k, k = p * DefaultSize
  PROVE  /\ PageAfter(v, n, k, DefaultSize)
         /\ v.list = list /\ v.size = 0
         /\ v.at = p + 1
<1>1. k \in Nat /\ k = p * DefaultSize
  BY TimesNext
<1>2. Page(at) = p + 1 /\ OrDefault(0) = DefaultSize
  BY DEF Page, OrDefault
<1>3. out = [rows |-> <<k + 1, Least(k + DefaultSize, n)>>, page |-> p + 1, limit |-> DefaultSize]
  BY <1>1, <1>2 DEF Found, Read
<1>4. (p + 1) * DefaultSize = k + DefaultSize /\ (p > 0) = (k > 0) /\ (p + 1 - 1) * DefaultSize = k
  BY <1>1, TimesNext
<1>5. /\ out.rows = <<k + 1, Least(k + DefaultSize, n)>> /\ out.page = p + 1
      /\ (out.page - 1) * out.limit = k /\ out.page * out.limit = k + DefaultSize
  BY <1>3, <1>4
<1>6. v = [list |-> list, at |-> p + 1, size |-> 0, rows |-> <<k + 1, Least(k + DefaultSize, n)>>,
           prev |-> p + 1 > 1, next |-> k + DefaultSize < n, label |-> <<k + 1, Least(k + DefaultSize, n)>>]
  BY <1>5 DEF Drawn
<1>7. PageAfter(v, n, k, DefaultSize)
  BY <1>4, <1>6 DEF PageAfter
<1> QED
  BY <1>1, <1>6, <1>7

LEMMA FilesIs ==
  ASSUME NEW n \in Nat, NEW p \in Nat, NEW at \in Nat, at = p + 1 \/ (at = 0 /\ p = 0),
         NEW v, v = BuildListView(n, at),
         NEW k, k = p * DefaultSize
  PROVE  /\ PageAfter(v, n, k, DefaultSize)
         /\ v.list = "files" /\ v.size = 0 /\ v.at = p + 1
<1>1. k \in Nat /\ k = p * DefaultSize
  BY TimesNext
<1>2. Page(at) = p + 1 /\ Clamped(DefaultSize) = DefaultSize
  BY SizesAre DEF Page
<1>3. (p + 1 < TotalPages(n, DefaultSize)) = (k + DefaultSize < n) /\ (p > 0) = (k > 0)
  BY <1>1, TotalPagesCover, TimesNext
<1>4. v = [list |-> "files", at |-> p + 1, size |-> 0, rows |-> <<k + 1, Least(k + DefaultSize, n)>>,
           prev |-> p + 1 > 1, next |-> k + DefaultSize < n, label |-> <<>>]
  BY <1>1, <1>2, <1>3 DEF BuildListView, ListFiles, Read
<1>5. PageAfter(v, n, k, DefaultSize)
  BY <1>3, <1>4 DEF PageAfter
<1> QED
  BY <1>1, <1>4, <1>5

LEMMA AuditIs ==
  ASSUME NEW n \in Nat, NEW p \in Nat, NEW size \in 1..MaxSize,
         NEW v, v = BuildListData(n, p + 1, size),
         NEW k, k = p * size
  PROVE  /\ PageAfter(v, n, k, size)
         /\ v.list = "audit" /\ v.size = size
         /\ v.at = p + 1
<1>1. k \in Nat /\ k = p * size
  BY TimesNext
<1>2. Page(p + 1) = p + 1 /\ Clamped(size) = size
  BY SizesAre DEF Page
<1>3. (p + 1) * size = k + size /\ (p > 0) = (k > 0) /\ (p + 1 - 1) * size = k
  BY <1>1, TimesNext
<1>4. ListAuditLogs(n, p + 1, size) = <<k + 1, Least(k + size, n)>>
  <2>1. (Page(p + 1) - 1) * Clamped(size) = k
    BY <1>2, <1>3
  <2> QED
    BY <1>2, <2>1 DEF ListAuditLogs, Read
<1>5. /\ v.list = "audit" /\ v.at = p + 1 /\ v.size = size /\ v.rows = <<k + 1, Least(k + size, n)>>
      /\ v.prev = (p + 1 > 1) /\ v.next = (k + size < n) /\ v.label = <<k + 1, Least(k + size, n)>>
  <2>1. /\ v.list = "audit" /\ v.at = p + 1 /\ v.size = size /\ v.rows = ListAuditLogs(n, p + 1, size)
        /\ v.prev = (p + 1 > 1) /\ v.next = ((p + 1) * size < n)
        /\ v.label = <<(p + 1 - 1) * size + 1, Least((p + 1) * size, n)>>
    BY DEF BuildListData
  <2> QED
    BY <1>3, <1>4, <2>1, Zenon
<1>6. (p + 1 > 1) = (k > 0)
  <2>1. (p > 0) = (k > 0)
    BY <1>3
  <2> QED
    BY <2>1
<1>7. PageAfter(v, n, k, size)
  BY <1>5, <1>6, Zenon DEF PageAfter
<1> QED
  BY <1>5, <1>7, Zenon

\* One row more than a page says whether there is another one.
LEMMA OffsetIs ==
  ASSUME NEW list, NEW n \in Nat, NEW k \in Nat, NEW L \in Nat \ {0}, NEW v, v = OffsetView(list, Read(n, k, L + 1), k, L)
  PROVE  v = [list |-> list, at |-> k, size |-> L, rows |-> <<k + 1, Least(k + L, n)>>,
              prev |-> k > 0, next |-> k + L < n, label |-> <<>>]
<1>1. Read(n, k, L + 1) = <<k + 1, Least(k + L + 1, n)>>
  BY DEF Read
<1>2. Least(Least(k + L + 1, n), k + L) = Least(k + L, n)
  BY DEF Least
<1>3. (Many(<<k + 1, Least(k + L + 1, n)>>) > L) = (k + L < n)
  BY DEF Many, Least
<1> QED
  BY <1>1, <1>2, <1>3 DEF OffsetView

LEMMA NoticesIs ==
  ASSUME NEW n \in Nat, NEW k \in Nat, NEW size \in Nat, NEW L, L = Clamped(size),
         NEW v, v = RenderNotices(n, k, size)
  PROVE  /\ PageAfter(v, n, k, L)
         /\ v.list = "notices" /\ v.size = L
         /\ v.at = k
<1>1. L \in Nat \ {0}
  BY SizesAre
<1>2. v = OffsetView("notices", Read(n, k, L + 1), k, L)
  BY DEF RenderNotices, FindByUserID
<1>3. v = [list |-> "notices", at |-> k, size |-> L, rows |-> <<k + 1, Least(k + L, n)>>,
           prev |-> k > 0, next |-> k + L < n, label |-> <<>>]
  BY <1>1, <1>2, OffsetIs
<1> QED
  BY <1>3 DEF PageAfter

LEMMA LogsIs ==
  ASSUME NEW n \in Nat, NEW k \in Nat, NEW size \in Nat, NEW L, L = OrDefault(size),
         NEW v, v = RenderLogs(n, k, size)
  PROVE  /\ PageAfter(v, n, k, L)
         /\ v.list = "logs" /\ v.size = L
         /\ v.at = k
<1>1. L \in Nat \ {0}
  BY SizesAre
<1>2. PICK w : w = OffsetView("logs", Read(n, k, L + 1), k, L)
  OBVIOUS
<1>3. w = [list |-> "logs", at |-> k, size |-> L, rows |-> <<k + 1, Least(k + L, n)>>,
           prev |-> k > 0, next |-> k + L < n, label |-> <<>>]
  BY <1>1, <1>2, OffsetIs
<1>4. v = [w EXCEPT !.label = <<k + 1, k + Many(w.rows)>>]
  BY <1>2 DEF RenderLogs, FindByAutomationID
<1>5. /\ v.list = "logs" /\ v.at = k /\ v.size = L /\ v.rows = <<k + 1, Least(k + L, n)>> /\ v.prev = (k > 0)
      /\ v.next = (k + L < n) /\ v.label = <<k + 1, k + Many(<<k + 1, Least(k + L, n)>>)>>
  BY <1>3, <1>4
<1>6. k < n => k + Many(<<k + 1, Least(k + L, n)>>) = Least(k + L, n)
  BY <1>1 DEF Many, Least
<1> QED
  BY <1>5, <1>6 DEF PageAfter

\* A page of any list, by its number or its offset.
ShownAs(list, n, at, size, p, s, L, v) ==
  /\ s = Opened(list, size) /\ L = PerPage(list, s) /\ v = Show(list, n, at, size)
  /\ list = "audit" => size \in 1..MaxSize
  /\ list \in AdminListing \cup {"files"} => size = 0
  /\ ByOffset(list) => at = p * L
  /\ ~ByOffset(list) => at = p + 1 \/ (list # "audit" /\ at = 0 /\ p = 0)
LEMMA ShowIs ==
  ASSUME NEW list \in Listing, NEW n \in Nat, NEW at \in Nat, NEW size \in Nat, NEW p \in Nat, NEW s, NEW L, NEW v
  PROVE  ShownAs(list, n, at, size, p, s, L, v) =>
           /\ v.list = list /\ v.size = s /\ Sized(list, s) /\ L \in Nat \ {0}
           /\ v.at = IF ByOffset(list) THEN p * L ELSE p + 1
           /\ PageAfter(v, n, p * L, L)
<1>0. SUFFICES ASSUME ShownAs(list, n, at, size, p, s, L, v)
               PROVE  /\ v.list = list /\ v.size = s /\ Sized(list, s) /\ L \in Nat \ {0}
                      /\ v.at = IF ByOffset(list) THEN p * L ELSE p + 1
                      /\ PageAfter(v, n, p * L, L)
  OBVIOUS
<1>1. CASE list \in AdminListing
  <2>1. v = Drawn(list, n, Found(n, at, 0)) /\ L = DefaultSize /\ s = 0
    BY <1>0, <1>1 DEF ShownAs, PerPage, Opened, AdminListing, Show, RenderTenants, RenderSpecialists, RenderDocuments,
      RenderMcps, FindTenants, FindSpecialists, FindDocuments, FindMcps
  <2>2. at = p + 1 \/ (at = 0 /\ p = 0)
    BY <1>0, <1>1 DEF ShownAs, ByOffset, AdminListing
  <2>3. PICK k : k = p * DefaultSize
    OBVIOUS
  <2>4. PICK out : out = Found(n, at, 0)
    OBVIOUS
  <2>5. v = Drawn(list, n, out)
    BY <2>1, <2>4, Zenon
  <2>6. PageAfter(v, n, k, DefaultSize) /\ v.list = list /\ v.size = 0 /\ v.at = p + 1
    BY <2>2, <2>3, <2>4, <2>5, DrawnIs
  <2> QED
    BY <1>1, <2>1, <2>3, <2>6 DEF AdminListing, ByOffset, Sized
<1>2. CASE list = "files"
  <2>1. v = BuildListView(n, at) /\ L = DefaultSize /\ s = 0 /\ (at = p + 1 \/ (at = 0 /\ p = 0))
    BY <1>0, <1>2 DEF ShownAs, PerPage, Opened, ByOffset, Show, AdminListing
  <2>2. PICK k : k = p * DefaultSize
    OBVIOUS
  <2>3. PageAfter(v, n, k, DefaultSize) /\ v.list = list /\ v.size = 0 /\ v.at = p + 1
    BY <1>2, <2>1, <2>2, FilesIs
  <2> QED
    BY <1>2, <2>1, <2>2, <2>3 DEF ByOffset, Sized
<1>3. CASE list = "audit"
  <2>1. v = BuildListData(n, p + 1, size) /\ L = size /\ s = size /\ size \in 1..MaxSize
    BY <1>0, <1>3 DEF ShownAs, PerPage, Opened, ByOffset, Show, AdminListing
  <2>2. PICK k : k = p * size
    OBVIOUS
  <2>3. PageAfter(v, n, k, size) /\ v.list = list /\ v.size = size /\ v.at = p + 1
    BY <1>3, <2>1, <2>2, AuditIs
  <2> QED
    BY <1>3, <2>1, <2>2, <2>3 DEF ByOffset, Sized
<1>4. CASE list = "notices"
  <2>1. v = RenderNotices(n, p * L, size) /\ L = Clamped(size) /\ s = L /\ L \in 1..MaxSize
    BY <1>0, <1>4, SizesAre DEF ShownAs, PerPage, Opened, ByOffset, Show, AdminListing
  <2>2. PICK k \in Nat : k = p * L
    BY <2>1, TimesNext
  <2>3. PageAfter(v, n, k, L) /\ v.list = list /\ v.size = L /\ v.at = k
    <3>1. v = RenderNotices(n, k, size)
      BY <2>1, <2>2, Zenon
    <3>2. L = Clamped(size)
      BY <2>1
    <3> QED
      BY <1>4, <3>1, <3>2, NoticesIs
  <2> QED
    BY <1>4, <2>1, <2>2, <2>3 DEF ByOffset, Sized
<1>5. CASE list = "logs"
  <2>1. v = RenderLogs(n, p * L, size) /\ L = OrDefault(size) /\ s = L /\ L \in Nat \ {0}
    BY <1>0, <1>5, SizesAre DEF ShownAs, PerPage, Opened, ByOffset, Show, AdminListing
  <2>2. PICK k \in Nat : k = p * L
    BY <2>1, TimesNext
  <2>3. PageAfter(v, n, k, L) /\ v.list = list /\ v.size = L /\ v.at = k
    <3>1. v = RenderLogs(n, k, size)
      BY <2>1, <2>2, Zenon
    <3>2. L = OrDefault(size)
      BY <2>1
    <3> QED
      BY <1>5, <3>1, <3>2, LogsIs
  <2> QED
    BY <1>5, <2>1, <2>2, <2>3 DEF ByOffset, Sized
<1> QED
  BY <1>1, <1>2, <1>3, <1>4, <1>5 DEF Listing

-----------------------------------------------------------------------------
(* The inductive invariant.                                                 *)

\* The page after p others, k rows of L each page, as it was when b rows had
\* been added: all rows down to its end were seen, and while none is added the
\* pages from the first to this one are as they would be read again.
Stands(p, b, k, L) ==
  /\ L = PerPage(view.list, view.size) /\ L \in Nat \ {0} /\ k = p * L /\ k \in Nat
  /\ view.list \in Listing /\ Sized(view.list, view.size)
  /\ view.at = IF ByOffset(view.list) THEN k ELSE p + 1
  /\ PageAfter(view, total + b, k, L) /\ (p > 0 => k < total + b)
  /\ \A r \in 1..(Least(k + L, total + b) - b) : r \in seen
  /\ Len(trail) = p + 1
  /\ added = 0 => \A i \in 1..(p + 1) : trail[i] = <<(i - 1) * L + 1, Least((i - 1) * L + L, total)>>

PagingTyped ==
  /\ total \in Nat /\ total \in RowTotals \cup {0} /\ added \in 0..MaxAdded
  /\ trail \in Seq(Nat \X Nat) /\ seen \subseteq (1 - MaxAdded)..total
PagingInvariant ==
  /\ PagingTyped
  /\ view = NoView => added = 0 /\ total = 0 /\ trail = <<>> /\ seen = {}
  /\ view # NoView => \E p \in Nat, b \in 0..added : \E k, L : Stands(p, b, k, L)

LEMMA SizedStays ==
  ASSUME NEW list \in Listing, NEW size, Sized(list, size)
  PROVE  /\ Opened(list, size) = size /\ size \in Nat
         /\ list = "audit" => size \in 1..MaxSize
         /\ list \in AdminListing \cup {"files"} => size = 0
         /\ ByOffset(list) => PerPage(list, size) = size
BY SizesAre DEF Sized, Opened, Listing, AdminListing, ByOffset, PerPage

LEMMA InitPaging == PagingInit => PagingInvariant
BY DEF PagingInit, PagingInvariant, PagingTyped

\* What a page adds to what was seen.
LEMMA SeenGoesOn ==
  ASSUME PagingTyped, NEW n, n = total + added, NEW k \in Nat, NEW L \in Nat \ {0}, NEW c \in Int, k <= c + added,
         \A r \in 1..c : r \in seen,
         NEW read, read = <<k + 1, Least(k + L, n)>>, seen' = seen \cup Ids(read)
  PROVE  /\ \A r \in 1..(Least(k + L, n) - added) : r \in seen'
         /\ seen' \subseteq (1 - MaxAdded)..total /\ read \in Nat \X Nat
<1>1. total \in Nat /\ added \in Nat /\ added <= MaxAdded /\ seen \subseteq (1 - MaxAdded)..total
  BY DEF PagingTyped
<1>2. PICK hi \in Nat : hi = Least(k + L, n) /\ hi <= n
  BY <1>1 DEF Least
<1>3. read[1] = k + 1 /\ read[2] = hi /\ read \in Nat \X Nat
  BY <1>2
<1>4. seen' = seen \cup {r - added : r \in (k + 1)..hi}
  BY <1>3 DEF Ids
<1>5. ASSUME NEW r \in 1..(hi - added) PROVE r \in seen'
  <2>1. CASE r <= c
    BY <1>1, <1>2, <1>4, <2>1
  <2>2. CASE ~(r <= c)
    <3>1. r + added \in (k + 1)..hi /\ r = (r + added) - added
      BY <1>1, <1>2, <2>2
    <3> QED
      BY <1>4, <3>1
  <2> QED
    BY <2>1, <2>2
<1>6. \A r \in (k + 1)..hi : r - added \in (1 - MaxAdded)..total
  BY <1>1, <1>2
<1> QED
  BY <1>1, <1>2, <1>3, <1>4, <1>5, <1>6

LEMMA NoViewIs == NoView.list \notin Listing
BY DEF NoView, Listing, AdminListing

LEMMA OpenKeepsPages ==
  ASSUME PagingInvariant, NEW o \in Opening, NEW n \in RowTotals, OpenList(o, n)
  PROVE  PagingInvariant'
<1>1. /\ view = NoView /\ total' = n /\ added' = added /\ trail' = <<view'.rows>> /\ n \in Nat
      /\ added = 0 /\ total = 0 /\ seen = {}
  BY DEF OpenList, PagingInvariant
<1>2. PICK v : v = Show(o.list, n, o.at, o.size) /\ view' = v /\ seen' = seen \cup Ids(v.rows)
  BY DEF OpenList, Shows
<1>3. /\ o.list \in Listing /\ o.at \in Nat /\ o.size \in Nat
      /\ ByOffset(o.list) => o.at = 0
      /\ ~ByOffset(o.list) => o.at \in {0, 1}
      /\ o.list = "audit" => o.at = 1 /\ o.size \in 1..MaxSize
      /\ o.list \in AdminListing \cup {"files"} => o.size = 0
  BY OpeningAssumption
<1>4. PICK s : s = Opened(o.list, o.size)
  OBVIOUS
<1>5. PICK L : L = PerPage(o.list, s)
  OBVIOUS
<1>6. L \in Nat \ {0}
  <2>1. ByOffset(o.list) => L \in Nat \ {0}
    BY <1>3, <1>4, <1>5, SizesAre DEF ByOffset, PerPage, Opened, AdminListing
  <2> QED
    BY <1>3, <1>4, <1>5, <2>1 DEF ByOffset, PerPage, Opened, Listing
<1>7. ShownAs(o.list, n, o.at, o.size, 0, s, L, v)
  BY <1>2, <1>3, <1>4, <1>5, <1>6, TimesNext DEF ShownAs
<1>8. /\ v.list = o.list /\ v.size = s /\ Sized(o.list, s)
      /\ v.at = IF ByOffset(o.list) THEN 0 * L ELSE 0 + 1
      /\ PageAfter(v, n, 0 * L, L)
  BY <1>1, <1>3, <1>7, ShowIs
<1>9. 0 * L = 0
  BY <1>6
<1>10. v.rows = <<0 + 1, Least(0 + L, n)>>
  BY <1>8, <1>9 DEF PageAfter
<1>11. v.rows = <<1, Least(L, n)>> /\ v.rows \in Nat \X Nat /\ Least(L, n) \in Nat /\ Least(L, n) <= n
  BY <1>1, <1>6, <1>10 DEF Least
<1>12. seen' = 1..Least(L, n)
  <2>1. seen' = {r - 0 : r \in 1..Least(L, n)}
    BY <1>1, <1>2, <1>11 DEF Ids
  <2> QED
    BY <1>11, <2>1
<1>13. trail' \in Seq(Nat \X Nat) /\ Len(trail') = 1 /\ trail'[1] = v.rows
  BY <1>1, <1>2, <1>11
<1>14. PagingTyped'
  BY <1>1, <1>11, <1>12, <1>13 DEF PagingTyped
<1>15. view' # NoView
  BY <1>2, <1>3, <1>8, NoViewIs
<1>16. Stands(0, 0, 0, L)'
  <2>1. L = PerPage(v.list, v.size) /\ 0 = 0 * L
    BY <1>5, <1>8, <1>9
  <2>2. v.at = IF ByOffset(v.list) THEN 0 ELSE 0 + 1
    BY <1>8, <1>9
  <2>3. PageAfter(v, n + 0, 0, L)
    BY <1>1, <1>8, <1>9
  <2>4. \A r \in 1..(Least(0 + L, n + 0) - 0) : r \in seen'
    BY <1>1, <1>6, <1>11, <1>12
  <2>5. \A i \in 1..(0 + 1) : trail'[i] = <<(i - 1) * L + 1, Least((i - 1) * L + L, n)>>
    BY <1>6, <1>9, <1>10, <1>13
  <2>6. v.list \in Listing /\ Sized(v.list, v.size) /\ Len(trail') = 0 + 1 /\ 0 \in Nat /\ ~(0 > 0)
    BY <1>3, <1>8, <1>13
  <2>7. view' = v /\ total' = n
    BY <1>1, <1>2
  <2> QED
    BY <1>6, <2>1, <2>2, <2>3, <2>4, <2>5, <2>6, <2>7, Zenon DEF Stands
<1>17. 0 \in 0..added'
  BY <1>1
<1> QED
  BY <1>14, <1>15, <1>16, <1>17 DEF PagingInvariant

\* The new page's rows are put on the trail, those before it stay.
LEMMA TrailGrows ==
  ASSUME NEW t \in Seq(Nat \X Nat), NEW r \in Nat \X Nat, NEW q \in Nat, Len(t) = q
  PROVE  /\ Append(t, r) \in Seq(Nat \X Nat) /\ Len(Append(t, r)) = q + 1 /\ Append(t, r)[q + 1] = r
         /\ \A i \in 1..q : Append(t, r)[i] = t[i]
OBVIOUS

LEMMA TrailShrinks ==
  ASSUME NEW t \in Seq(Nat \X Nat), NEW q \in Nat \ {0}, Len(t) = q + 1
  PROVE  /\ SubSeq(t, 1, q) \in Seq(Nat \X Nat) /\ Len(SubSeq(t, 1, q)) = q
         /\ \A i \in 1..q : SubSeq(t, 1, q)[i] = t[i]
OBVIOUS

LEMMA NextKeepsPages ==
  ASSUME PagingInvariant, NextPage PROVE PagingInvariant'
<1>0. view # NoView
  BY DEF NextPage, NoView
<1>1. PICK p \in Nat, b \in 0..added : \E k, L : Stands(p, b, k, L)
  BY <1>0 DEF PagingInvariant
<1>2. PICK k, L : Stands(p, b, k, L)
  BY <1>1
<1>3. PICK list \in Listing : list = view.list
  BY <1>2 DEF Stands
<1>4. PICK size \in Nat : size = view.size /\ Sized(list, size)
  BY <1>2, <1>3, SizedStays DEF Stands
<1>5. PagingTyped /\ total \in Nat /\ added \in Nat /\ b \in Nat /\ b <= added
  BY DEF PagingInvariant, PagingTyped
<1>6. L = PerPage(list, size) /\ L \in Nat \ {0} /\ k \in Nat
  BY <1>2, <1>3, <1>4 DEF Stands
<1>61. k = p * L
  BY <1>2 DEF Stands
<1>62. view.at = IF ByOffset(list) THEN k ELSE p + 1
  BY <1>2, <1>3 DEF Stands
<1>63. PageAfter(view, total + b, k, L)
  BY <1>2 DEF Stands
<1>64. \A r \in 1..(Least(k + L, total + b) - b) : r \in seen
  BY <1>2 DEF Stands
<1>65. PICK q \in Nat : q = p + 1 /\ Len(trail) = q
  BY <1>2 DEF Stands
<1>66. added = 0 => \A i \in 1..q : trail[i] = <<(i - 1) * L + 1, Least((i - 1) * L + L, total)>>
  BY <1>2, <1>65 DEF Stands
<1>7. k + L < total + b /\ Least(k + L, total + b) = k + L
  BY <1>5, <1>6, <1>63 DEF PageAfter, NextPage, Least
<1>8. PICK n \in Nat : n = total + added /\ k + L < n
  BY <1>5, <1>6, <1>7
<1>9. PICK at : at = IF ByOffset(list) THEN view.at + size ELSE view.at + 1
  OBVIOUS
<1>10. PICK v : v = Show(list, n, at, size) /\ view' = v /\ seen' = seen \cup Ids(v.rows)
  BY <1>3, <1>4, <1>8, <1>9, Zenon DEF NextPage, Shows
<1>11. trail' = Append(trail, v.rows) /\ total' = total /\ added' = added
  BY <1>10 DEF NextPage
<1>12. PICK m \in Nat : m = k + L
  BY <1>6
<1>121. m = q * L
  BY <1>6, <1>61, <1>65, <1>12, TimesNext
<1>13. at \in Nat /\ ShownAs(list, n, at, size, q, size, L, v)
  <2>1. ByOffset(list) => at = m
    BY <1>4, <1>6, <1>62, <1>9, <1>12, SizedStays
  <2>2. ~ByOffset(list) => at = q + 1
    BY <1>62, <1>65, <1>9
  <2>3. size = Opened(list, size) /\ (list = "audit" => size \in 1..MaxSize)
        /\ (list \in AdminListing \cup {"files"} => size = 0)
    BY <1>4, SizedStays
  <2>4. at \in Nat
    BY <2>1, <2>2
  <2>5. ByOffset(list) => at = q * L
    BY <2>1, <1>121
  <2> QED
    BY <1>6, <1>10, <2>2, <2>3, <2>4, <2>5, Zenon DEF ShownAs
<1>14. /\ v.list = list /\ v.size = size
       /\ v.at = IF ByOffset(list) THEN m ELSE q + 1
       /\ PageAfter(v, n, m, L)
  <2>1. /\ v.list = list /\ v.size = size
        /\ v.at = IF ByOffset(list) THEN q * L ELSE q + 1
        /\ PageAfter(v, n, q * L, L)
    BY <1>13, ShowIs
  <2> QED
    BY <1>121, <2>1, Zenon
<1>15. v.rows = <<m + 1, Least(m + L, n)>>
  BY <1>14 DEF PageAfter
<1>16. PICK c \in Int : c = k + L - b
  BY <1>5, <1>6
<1>17. m <= c + added /\ \A r \in 1..c : r \in seen
  BY <1>5, <1>6, <1>64, <1>7, <1>12, <1>16
<1>18. /\ \A r \in 1..(Least(m + L, n) - added) : r \in seen'
       /\ seen' \subseteq (1 - MaxAdded)..total /\ v.rows \in Nat \X Nat
  <2>1. n = total + added /\ m \in Nat /\ L \in Nat \ {0}
    BY <1>8, <1>12, <1>6
  <2>2. PICK read : read = v.rows
    OBVIOUS
  <2>3. read = <<m + 1, Least(m + L, n)>> /\ seen' = seen \cup Ids(read)
    BY <1>10, <1>15, <2>2
  <2>4. /\ \A r \in 1..(Least(m + L, n) - added) : r \in seen'
        /\ seen' \subseteq (1 - MaxAdded)..total /\ read \in Nat \X Nat
    BY <1>5, <1>17, <2>1, <2>3, SeenGoesOn
  <2> QED
    BY <2>2, <2>4, Zenon
<1>19. /\ trail' \in Seq(Nat \X Nat) /\ Len(trail') = q + 1 /\ trail'[q + 1] = v.rows
       /\ \A i \in 1..q : trail'[i] = trail[i]
  <2>1. PICK t \in Seq(Nat \X Nat) : t = trail
    BY <1>5 DEF PagingTyped
  <2>2. PICK read \in Nat \X Nat : read = v.rows
    BY <1>18
  <2>5. Len(t) = q
    BY <1>65, <2>1
  <2>3. /\ Append(t, read) \in Seq(Nat \X Nat) /\ Len(Append(t, read)) = q + 1 /\ Append(t, read)[q + 1] = read
        /\ \A i \in 1..q : Append(t, read)[i] = t[i]
    BY <2>5, TrailGrows, SMTT(30)
  <2>4. trail' = Append(t, read) /\ t = trail
    BY <1>11, <2>1, <2>2
  <2> QED
    BY <2>2, <2>3, <2>4, Zenon
<1>20. PagingTyped'
  BY <1>5, <1>11, <1>18, <1>19 DEF PagingTyped
<1>21. view' # NoView
  BY <1>10, <1>14, NoViewIs
<1>22. added = 0 => \A i \in 1..(q + 1) : trail'[i] = <<(i - 1) * L + 1, Least((i - 1) * L + L, total)>>
  <2>1. SUFFICES ASSUME added = 0, NEW i \in 1..(q + 1)
                 PROVE  trail'[i] = <<(i - 1) * L + 1, Least((i - 1) * L + L, total)>>
    OBVIOUS
  <2>2. CASE i = q + 1
    <3>1. i - 1 = q
      BY <2>2
    <3>2. (i - 1) * L = m
      BY <3>1, <1>121
    <3>3. n = total
      BY <1>5, <1>8, <2>1
    <3> QED
      BY <1>15, <1>19, <2>2, <3>2, <3>3, Zenon
  <2>3. CASE i # q + 1
    <3>1. i \in 1..q
      BY <2>3
    <3> QED
      BY <1>66, <1>19, <2>1, <3>1, Zenon
  <2> QED
    BY <2>2, <2>3
<1>23. PICK ad \in Nat : ad = added
  BY <1>5
<1>24. Stands(q, ad, m, L)'
  <2>1. L = PerPage(v.list, v.size) /\ v.list \in Listing /\ Sized(v.list, v.size)
    BY <1>4, <1>6, <1>14
  <2>2. v.at = IF ByOffset(v.list) THEN m ELSE q + 1
    BY <1>14
  <2>3. m < n /\ n = total + ad
    BY <1>8, <1>12, <1>23
  <2>4. view' = v /\ total' = total /\ added' = added
    BY <1>10, <1>11
  <2> QED
    BY <1>6, <1>12, <1>121, <1>14, <1>18, <1>19, <1>22, <1>23, <2>1, <2>2, <2>3, <2>4, Zenon DEF Stands
<1>25. ad \in 0..added'
  BY <1>5, <1>11, <1>23
<1> QED
  BY <1>20, <1>21, <1>24, <1>25 DEF PagingInvariant

LEMMA PrevKeepsPages ==
  ASSUME PagingInvariant, PrevPage PROVE PagingInvariant'
<1>0. view # NoView
  BY DEF PrevPage, NoView
<1>1. PICK p0 \in Nat, b \in 0..added : \E k, L : Stands(p0, b, k, L)
  BY <1>0 DEF PagingInvariant
<1>2. PICK k, L : Stands(p0, b, k, L)
  BY <1>1
<1>3. PICK list \in Listing : list = view.list
  BY <1>2 DEF Stands
<1>4. PICK size \in Nat : size = view.size /\ Sized(list, size)
  BY <1>2, <1>3, SizedStays DEF Stands
<1>5. PagingTyped /\ total \in Nat /\ added \in Nat /\ b \in Nat /\ b <= added
  BY DEF PagingInvariant, PagingTyped
<1>6. L = PerPage(list, size) /\ L \in Nat \ {0} /\ k \in Nat
  BY <1>2, <1>3, <1>4 DEF Stands
<1>7. PICK q \in Nat : q = p0 /\ q > 0 /\ Len(trail) = q + 1
  BY <1>2 DEF Stands, PrevPage
<1>8. PICK p \in Nat : q = p + 1
  BY <1>7
<1>9. k = q * L
  BY <1>2, <1>7 DEF Stands
<1>10. view.at = IF ByOffset(list) THEN k ELSE q + 1
  BY <1>2, <1>3, <1>7 DEF Stands
<1>11. k < total + b
  BY <1>2, <1>7 DEF Stands
<1>12. \A r \in 1..(Least(k + L, total + b) - b) : r \in seen
  BY <1>2 DEF Stands
<1>13. added = 0 => \A i \in 1..(q + 1) : trail[i] = <<(i - 1) * L + 1, Least((i - 1) * L + L, total)>>
  BY <1>2, <1>7 DEF Stands
<1>14. PICK m \in Nat : m = p * L /\ k = m + L
  BY <1>6, <1>8, <1>9, TimesNext
<1>15. PICK n \in Nat : n = total + added /\ k < n
  BY <1>5, <1>6, <1>11
<1>16. PICK at : at = IF ByOffset(list) THEN PrevOffset ELSE view.at - 1
  OBVIOUS
<1>17. PICK v : v = Show(list, n, at, size) /\ view' = v /\ seen' = seen \cup Ids(v.rows)
  BY <1>3, <1>4, <1>15, <1>16, Zenon DEF PrevPage, Shows
<1>18. trail' = SubSeq(trail, 1, q) /\ total' = total /\ added' = added
  BY <1>7 DEF PrevPage
<1>19. at \in Nat /\ ShownAs(list, n, at, size, p, size, L, v)
  <2>1. ByOffset(list) => at = m
    <3>1. SUFFICES ASSUME ByOffset(list) PROVE at = m
      OBVIOUS
    <3>2. size = L /\ view.at = k /\ view.size = size /\ at = PrevOffset
      BY <1>4, <1>6, <1>10, <1>16, <3>1, SizedStays
    <3> QED
      BY <1>6, <1>14, <3>2 DEF PrevOffset
  <2>2. ~ByOffset(list) => at = p + 1
    BY <1>8, <1>10, <1>16
  <2>3. size = Opened(list, size) /\ (list = "audit" => size \in 1..MaxSize)
        /\ (list \in AdminListing \cup {"files"} => size = 0)
    BY <1>4, SizedStays
  <2>4. at \in Nat
    BY <2>1, <2>2
  <2>5. ByOffset(list) => at = p * L
    BY <2>1, <1>14
  <2> QED
    BY <1>6, <1>17, <2>2, <2>3, <2>4, <2>5, Zenon DEF ShownAs
<1>20. /\ v.list = list /\ v.size = size
       /\ v.at = IF ByOffset(list) THEN m ELSE p + 1
       /\ PageAfter(v, n, m, L)
  <2>1. /\ v.list = list /\ v.size = size
        /\ v.at = IF ByOffset(list) THEN p * L ELSE p + 1
        /\ PageAfter(v, n, p * L, L)
    BY <1>19, ShowIs
  <2> QED
    BY <1>14, <2>1, Zenon
<1>21. v.rows = <<m + 1, Least(m + L, n)>>
  BY <1>20 DEF PageAfter
<1>22. PICK c \in Int : c = Least(k + L, total + b) - b
  BY <1>5, <1>6 DEF Least
<1>23. m <= c + added
  BY <1>5, <1>6, <1>11, <1>14, <1>22 DEF Least
<1>24. /\ \A r \in 1..(Least(m + L, n) - added) : r \in seen'
       /\ seen' \subseteq (1 - MaxAdded)..total /\ v.rows \in Nat \X Nat
  <2>1. n = total + added /\ m \in Nat /\ L \in Nat \ {0}
    BY <1>15, <1>14, <1>6
  <2>2. PICK read : read = v.rows
    OBVIOUS
  <2>3. read = <<m + 1, Least(m + L, n)>> /\ seen' = seen \cup Ids(read)
    BY <1>17, <1>21, <2>2
  <2>4. \A r \in 1..c : r \in seen
    BY <1>12, <1>22, Zenon
  <2>5. /\ \A r \in 1..(Least(m + L, n) - added) : r \in seen'
        /\ seen' \subseteq (1 - MaxAdded)..total /\ read \in Nat \X Nat
    BY <1>5, <1>23, <2>1, <2>3, <2>4, SeenGoesOn
  <2> QED
    BY <2>2, <2>5, Zenon
<1>25. /\ trail' \in Seq(Nat \X Nat) /\ Len(trail') = q
       /\ \A i \in 1..q : trail'[i] = trail[i]
  <2>1. PICK t \in Seq(Nat \X Nat) : t = trail
    BY <1>5 DEF PagingTyped
  <2>3. q \in Nat \ {0} /\ Len(t) = q + 1
    BY <1>7, <2>1
  <2>2. /\ SubSeq(t, 1, q) \in Seq(Nat \X Nat) /\ Len(SubSeq(t, 1, q)) = q
        /\ \A i \in 1..q : SubSeq(t, 1, q)[i] = t[i]
    BY <2>3, TrailShrinks, SMTT(30)
  <2> QED
    BY <1>18, <2>1, <2>2, Zenon
<1>26. PagingTyped'
  BY <1>5, <1>18, <1>24, <1>25 DEF PagingTyped
<1>27. view' # NoView
  BY <1>17, <1>20, NoViewIs
<1>28. added = 0 => \A i \in 1..(p + 1) : trail'[i] = <<(i - 1) * L + 1, Least((i - 1) * L + L, total)>>
  <2>1. SUFFICES ASSUME added = 0, NEW i \in 1..q
                 PROVE  trail'[i] = <<(i - 1) * L + 1, Least((i - 1) * L + L, total)>>
    BY <1>8
  <2>2. i \in 1..(q + 1)
    OBVIOUS
  <2> QED
    BY <1>13, <1>25, <2>1, <2>2, Zenon
<1>29. PICK ad \in Nat : ad = added
  BY <1>5
<1>30. Stands(p, ad, m, L)'
  <2>1. L = PerPage(v.list, v.size) /\ v.list \in Listing /\ Sized(v.list, v.size)
    BY <1>4, <1>6, <1>20
  <2>2. v.at = IF ByOffset(v.list) THEN m ELSE p + 1
    BY <1>20
  <2>3. m < n /\ n = total + ad
    BY <1>6, <1>14, <1>15, <1>29
  <2>4. view' = v /\ total' = total /\ added' = added
    BY <1>17, <1>18
  <2>5. Len(trail') = p + 1
    BY <1>8, <1>25
  <2> QED
    BY <1>6, <1>14, <1>20, <1>24, <1>28, <1>29, <2>1, <2>2, <2>3, <2>4, <2>5, Zenon DEF Stands
<1>31. ad \in 0..added'
  BY <1>5, <1>18, <1>29
<1> QED
  BY <1>26, <1>27, <1>30, <1>31 DEF PagingInvariant

LEMMA AddKeepsPages ==
  ASSUME PagingInvariant, RowAdded PROVE PagingInvariant'
<1>1. /\ view # NoView /\ added < MaxAdded /\ added' = added + 1
      /\ total' = total /\ view' = view /\ trail' = trail /\ seen' = seen
  BY DEF RowAdded
<1>2. PagingTyped /\ added \in Nat
  BY DEF PagingInvariant, PagingTyped
<1>3. PagingTyped'
  BY <1>1, <1>2 DEF PagingTyped
<1>4. PICK p \in Nat, b \in 0..added : \E k, L : Stands(p, b, k, L)
  BY <1>1 DEF PagingInvariant
<1>5. PICK k, L : Stands(p, b, k, L)
  BY <1>4
<1>6. added' # 0 /\ b \in 0..added'
  BY <1>1, <1>2
<1>7. Stands(p, b, k, L)'
  BY <1>1, <1>5, <1>6, Zenon DEF Stands
<1>8. \E x, y : Stands(p, b, x, y)'
  BY <1>7
<1> QED
  BY <1>1, <1>3, <1>6, <1>8 DEF PagingInvariant

LEMMA StillPages ==
  ASSUME PagingInvariant, UNCHANGED pagingVars PROVE PagingInvariant'
<1>1. total' = total /\ added' = added /\ view' = view /\ trail' = trail /\ seen' = seen
  BY DEF pagingVars
<1>2. PagingTyped'
  BY <1>1, Zenon DEF PagingInvariant, PagingTyped
<1>3. ASSUME view # NoView PROVE \E p \in Nat, b \in 0..added' : \E k, L : Stands(p, b, k, L)'
  <2>1. PICK p \in Nat, b \in 0..added : \E k, L : Stands(p, b, k, L)
    BY <1>3 DEF PagingInvariant
  <2>2. PICK k, L : Stands(p, b, k, L)
    BY <2>1
  <2>3. Stands(p, b, k, L)'
    BY <1>1, <2>2, Zenon DEF Stands
  <2> QED
    BY <1>1, <2>3
<1> QED
  BY <1>1, <1>2, <1>3 DEF PagingInvariant

LEMMA PagesSoundNow ==
  ASSUME PagingInvariant PROVE PagesCoverTheList
<1>1. PagingTyped
  BY DEF PagingInvariant
<1>2. PagingTypeOK
  <2>1. view = NoView => view.list = "none" /\ view.at \in Nat /\ view.size \in Nat
    BY DEF NoView
  <2>2. ASSUME view # NoView PROVE view.list \in Listing /\ view.at \in Nat /\ view.size \in Nat
    <3>1. PICK p \in Nat, b \in 0..added : \E k, L : Stands(p, b, k, L)
      BY <2>2 DEF PagingInvariant
    <3>2. PICK k, L : Stands(p, b, k, L)
      BY <3>1
    <3>3. view.list \in Listing /\ Sized(view.list, view.size) /\ view.at = (IF ByOffset(view.list) THEN k ELSE p + 1)
          /\ k \in Nat
      BY <3>2 DEF Stands
    <3> QED
      BY <3>3, SizedStays
  <2>3. \A i \in 1..Len(trail) : trail[i] \in Nat \X Nat
    BY <1>1 DEF PagingTyped
  <2> QED
    BY <1>1, <2>1, <2>2, <2>3 DEF PagingTypeOK, PagingTyped
<1>3. ASSUME view # NoView
      PROVE  /\ ~view.next => 1..total \subseteq seen
             /\ added = 0 =>
                 /\ view.rows = trail[Len(trail)] /\ trail[1][1] = 1
                 /\ \A i \in 1..(Len(trail) - 1) : trail[i + 1][1] = trail[i][2] + 1 /\ Many(trail[i + 1]) > 0
                 /\ view.next = (view.rows[2] < total)
                 /\ view.label # <<>> /\ total > 0 => view.label = view.rows
  <2>1. PICK p \in Nat, b \in 0..added : \E k, L : Stands(p, b, k, L)
    BY <1>3 DEF PagingInvariant
  <2>2. PICK k, L : Stands(p, b, k, L)
    BY <2>1
  <2>3. total \in Nat /\ added \in Nat /\ b \in Nat
    BY <1>1 DEF PagingTyped
  <2>4. L \in Nat \ {0} /\ k \in Nat /\ (p > 0 => k < total + b) /\ PageAfter(view, total + b, k, L)
    BY <2>2 DEF Stands
  <2>5. k = p * L
    BY <2>2 DEF Stands
  <2>6. ASSUME ~view.next PROVE 1..total \subseteq seen
    <3>1. Least(k + L, total + b) = total + b
      BY <2>3, <2>4, <2>6 DEF PageAfter, Least
    <3>2. \A r \in 1..(Least(k + L, total + b) - b) : r \in seen
      BY <2>2 DEF Stands
    <3> QED
      BY <2>3, <3>1, <3>2
  <2>7. ASSUME added = 0
        PROVE  /\ view.rows = trail[Len(trail)] /\ trail[1][1] = 1
               /\ \A i \in 1..(Len(trail) - 1) : trail[i + 1][1] = trail[i][2] + 1 /\ Many(trail[i + 1]) > 0
               /\ view.next = (view.rows[2] < total)
               /\ view.label # <<>> /\ total > 0 => view.label = view.rows
    <3>1. b = 0 /\ total + b = total
      BY <2>3, <2>7
    <3>2. PICK q \in Nat : q = p + 1 /\ Len(trail) = q
      BY <2>2 DEF Stands
    <3>3. \A i \in 1..q : trail[i] = <<(i - 1) * L + 1, Least((i - 1) * L + L, total)>>
      BY <2>2, <2>7, <3>2 DEF Stands
    <3>4. /\ view.rows = <<k + 1, Least(k + L, total)>> /\ view.next = (k + L < total)
          /\ view.label = <<>> \/ (k < total => view.label = view.rows)
      BY <2>4, <3>1 DEF PageAfter
    <3>5. (q - 1) * L = k /\ q \in 1..q
      BY <2>5, <3>2
    <3>6. view.rows = trail[Len(trail)]
      BY <3>2, <3>3, <3>4, <3>5, Zenon
    <3>7. trail[1][1] = 1
      <4>1. 1 \in 1..q /\ (1 - 1) * L = 0
        BY <2>4, <3>2
      <4>2. trail[1] = <<0 + 1, Least(0 + L, total)>>
        BY <3>3, <4>1
      <4> QED
        BY <4>2
    <3>8. ASSUME NEW i \in 1..(q - 1) PROVE trail[i + 1][1] = trail[i][2] + 1 /\ Many(trail[i + 1]) > 0
      <4>1. PICK j \in Nat : j = i - 1 /\ j + 1 <= p /\ i = j + 1
        BY <3>2
      <4>2. PICK a \in Nat : a = j * L /\ (j + 1) * L = a + L
        BY <2>4, TimesNext
      <4>3. a + L <= k
        <5>1. (j + 1) * L <= p * L
          BY <2>4, <4>1
        <5> QED
          BY <2>5, <4>2, <5>1
      <4>4. trail[i] = <<a + 1, Least(a + L, total)>>
        <5>1. i \in 1..q /\ (i - 1) * L = a
          BY <4>1, <4>2
        <5> QED
          BY <3>3, <5>1, Zenon
      <4>5. trail[i + 1] = <<(a + L) + 1, Least((a + L) + L, total)>>
        <5>1. i + 1 \in 1..q /\ (i + 1) - 1 = j + 1
          BY <4>1, <3>2
        <5>2. ((i + 1) - 1) * L = a + L
          BY <4>2, <5>1
        <5> QED
          BY <3>3, <5>1, <5>2, Zenon
      <4>6. k < total
        BY <2>4, <3>1, <4>1
      <4> QED
        BY <2>3, <2>4, <4>3, <4>4, <4>5, <4>6 DEF Least, Many
    <3>9. view.next = (view.rows[2] < total)
      BY <2>3, <2>4, <3>4 DEF Least
    <3>10. view.label # <<>> /\ total > 0 => view.label = view.rows
      <4>1. total > 0 => k < total
        <5>1. p = 0 => k = 0
          BY <2>4, <2>5
        <5> QED
          BY <2>4, <3>1, <5>1
      <4> QED
        BY <3>4, <4>1
    <3> QED
      BY <3>2, <3>6, <3>7, <3>8, <3>9, <3>10
  <2> QED
    BY <2>6, <2>7
<1> QED
  BY <1>2, <1>3 DEF PagesCoverTheList

\* Whoever follows the links of a list from its first page sees every row
\* that was there when it was opened, whatever rows are added meanwhile, each
\* once and in order when none is (PagesCoverTheList), for lists, sizes and
\* pages of any length.
THEOREM PagesStayCovered == PagingSpec => []PagesCoverTheList
<1>1. PagingInvariant /\ [PagingNext]_pagingVars => PagingInvariant'
  BY OpenKeepsPages, NextKeepsPages, PrevKeepsPages, AddKeepsPages, StillPages DEF PagingNext
<1> QED
  BY <1>1, InitPaging, PagesSoundNow, PTL DEF PagingSpec

-----------------------------------------------------------------------------
(***************************************************************************)
(* The audit trail.                                                        *)
(***************************************************************************)
HIDE PagingAssumption
USE AuditAssumption

\* What a change in flight says of the row it found and the row it saves.
Deeds == {"tenant.created", "tenant.updated"} \cup DOMAIN StatusTold
Edit ==
  [phase : {"found", "publish"}, actor : Administrator, firm : Lawfirm, action : Deeds,
   before : FirmRow \cup {Absent}, copy : FirmRow]
EditIsDue(q) ==
  /\ q.action = "tenant.created" => q.before = Absent /\ q.phase = "publish" /\ q.copy.status = "active"
  /\ q.action # "tenant.created" => q.before \in FirmRow
  /\ q.action = "tenant.updated" =>
       /\ q.copy.status = q.before.status
       /\ q.phase = "publish" => q.copy.title # q.before.title
  /\ q.action \in DOMAIN StatusTold \ {"tenant.created"} =>
       q.copy.title = q.before.title /\ q.copy.status = StatusTold[q.action]

LoginEntry ==
  [actor : Administrator, action : {"login.failure", "login.success", "logout"}, firm : {Absent}, diff : {<<>>}]
Difference == [{"title"} -> [antes : Title \cup {Absent}, depois : Title]]
ChangeEntry == [actor : Administrator, action : Deeds, firm : Lawfirm, diff : Difference]
Entry == LoginEntry \cup ChangeEntry

TrailTyped ==
  /\ lawfirm \in [Lawfirm -> FirmRow \cup {Absent}]
  /\ entries \in Seq(Entry) /\ Len(entries) <= MaxEntries
  /\ DOMAIN editor = Editor
  /\ \A e \in Editor : editor[e] = NoEdit \/ (editor[e] \in Edit /\ EditIsDue(editor[e]))
  /\ login \in [Administrator -> {"out", "in", "publish"}]
  /\ unlogged \subseteq Lawfirm \cup Administrator /\ raced \subseteq Lawfirm

\* i is the last of S.
IsLast(i, S) == i \in S /\ \A j \in S : j <= i
TitleEntries(t) == {i \in About(t) : TellsTitle(i)}
StatusEntries(t) == {i \in About(t) : entries[i].action \in DOMAIN StatusTold}
TitleTold(t, n) ==
  \E i \in 1..Len(entries) : IsLast(i, TitleEntries(t)) /\ entries[i].diff.title.depois = n
StatusToldIs(t, s) ==
  \E i \in 1..Len(entries) : IsLast(i, StatusEntries(t)) /\ StatusTold[entries[i].action] = s

\* Who has an entry of a firm due.
IsDue(e, t) == editor[e].phase = "publish" /\ editor[e].firm = t
Absents ==
  \A t \in Lawfirm : lawfirm[t] = Absent => About(t) = {} /\ \A e \in Editor : editor[e].firm # t
\* With nothing due the trail tells the row; with one entry due it tells what
\* that change found, and the row is as the change left it.
TellsRow(t, row) == TitleTold(t, row.title) /\ StatusToldIs(t, row.status)
TellsEdit(t, row, q) ==
  /\ row.title = q.copy.title /\ row.status = q.copy.status
  /\ q.action = "tenant.created" => About(t) = {}
  /\ q.action # "tenant.created" => TellsRow(t, q.before)
OnlyDue(e, t) == IsDue(e, t) /\ \A d \in Editor : IsDue(d, t) => d = e
Tells(t) ==
  \A row \in FirmRow : row = lawfirm[t] =>
    /\ (\A e \in Editor : ~IsDue(e, t)) => TellsRow(t, row)
    /\ \A e \in Editor, q \in Edit : q = editor[e] /\ OnlyDue(e, t) => TellsEdit(t, row, q)
\* A change of name begins with what the entry before it ended with.
TitlesBefore(t, i) == {j \in TitleEntries(t) : j < i}
Linked(t) ==
  \A i \in About(t) : entries[i].action = "tenant.updated" =>
    \E j \in 1..Len(entries) :
      IsLast(j, TitlesBefore(t, i)) /\ entries[i].diff.title.antes = entries[j].diff.title.depois
AllTell == \A t \in Lawfirm \ (unlogged \cup raced) : lawfirm[t] # Absent => Tells(t) /\ Linked(t)

\* Whoever may change a firm was told to have logged in.
ToldIn(a, n) == \E j \in 1..n : entries[j].action = "login.success" /\ entries[j].actor = a
ActorsIn ==
  \A a \in Administrator \ unlogged :
    login[a] = "in" \/ (\E e \in Editor : editor[e].actor = a) => ToldIn(a, Len(entries))
EntriesAfterLogin ==
  \A i \in 1..Len(entries) :
    entries[i].firm # Absent /\ entries[i].actor \notin unlogged => ToldIn(entries[i].actor, i - 1)

TrailInvariant == TrailTyped /\ Absents /\ AllTell /\ ActorsIn /\ EntriesAfterLogin

-----------------------------------------------------------------------------
(* Entries.                                                                 *)

LEMMA DeedsAre ==
  /\ Deeds = {"tenant.created", "tenant.updated", "tenant.blocked", "tenant.unblocked", "tenant.deactivated"}
  /\ DOMAIN StatusTold = Deeds \ {"tenant.updated"}
  /\ StatusTold["tenant.created"] = "active" /\ StatusTold["tenant.unblocked"] = "active"
  /\ StatusTold["tenant.blocked"] = "blocked" /\ StatusTold["tenant.deactivated"] = "inactive"
BY DEF Deeds, StatusTold

\* An entry of an account that exists is written or given up.
LEMMA PublishShape ==
  ASSUME NEW subject, NEW in, in.actor \in Administrator, Publish(subject, in)
  PROVE  /\ Len(entries) < MaxEntries
         /\ \/ entries' = Append(entries, in) /\ unlogged' = unlogged
            \/ unlogged' = unlogged \cup {subject} /\ entries' = entries
<1>1. in.actor # Absent
  OBVIOUS
<1>2. AuditLogs(in) = {Append(entries, in)}
  BY <1>1 DEF AuditLogs, NewAuditLog
<1> QED
  BY <1>2 DEF Publish

\* The difference of two snapshots that have the status in common.
LEMMA DifferenceIs ==
  ASSUME NEW before \in FirmRow, NEW after \in FirmRow, before.status = after.status
  PROVE  /\ before.title # after.title =>
              BuildDiff(SnapshotTenant(before), SnapshotTenant(after)) =
                [c \in {"title"} |-> [antes |-> before.title, depois |-> after.title]]
         /\ (DOMAIN BuildDiff(SnapshotTenant(before), SnapshotTenant(after)) = {}) = (before.title = after.title)
<1> DEFINE b == SnapshotTenant(before)
           f == SnapshotTenant(after)
           changed == {k \in DOMAIN f : ~IsDiffIgnored(k) /\ b[k] # f[k]}
<1>1. DOMAIN f = {"title", "status"} /\ \A k \in {"title", "status"} : b[k] = before[k] /\ f[k] = after[k]
  BY DEF SnapshotTenant
<1>2. changed = IF before.title = after.title THEN {} ELSE {"title"}
  BY <1>1 DEF IsDiffIgnored, FirmRow
<1>3. BuildDiff(b, f) = [c \in changed |-> [antes |-> b[c], depois |-> f[c]]]
  BY DEF BuildDiff
<1>4. DOMAIN BuildDiff(b, f) = changed
  BY <1>3
<1> HIDE DEF b, f, changed
<1>5. ASSUME before.title # after.title
      PROVE  BuildDiff(b, f) = [c \in {"title"} |-> [antes |-> before.title, depois |-> after.title]]
  BY <1>1, <1>2, <1>3, <1>5
<1> QED
  BY <1>2, <1>4, <1>5 DEF b, f

\* Where an entry goes.
LEMMA AfterWriting ==
  ASSUME entries \in Seq(Entry), NEW x \in Entry, entries' = Append(entries, x)
  PROVE  /\ entries' \in Seq(Entry) /\ Len(entries) \in Nat /\ Len(entries') = Len(entries) + 1
         /\ entries'[Len(entries) + 1] = x
         /\ \A i \in 1..Len(entries) : entries'[i] = entries[i]
OBVIOUS

\* What is told of a firm does not change while nothing is written of it.
LEMMA NothingWritten ==
  ASSUME entries' = entries, NEW t, NEW n
  PROVE  /\ About(t)' = About(t) /\ TitleTold(t, n)' = TitleTold(t, n) /\ StatusToldIs(t, n)' = StatusToldIs(t, n)
         /\ Linked(t)' = Linked(t)
BY DEF About, TitleTold, StatusToldIs, Linked, TitlesBefore, TitleEntries, StatusEntries, TellsTitle

LEMMA WrittenOfAnother ==
  ASSUME entries \in Seq(Entry), NEW x \in Entry, entries' = Append(entries, x), NEW t, x.firm # t, NEW n
  PROVE  /\ About(t)' = About(t)
         /\ TitleEntries(t)' = TitleEntries(t) /\ StatusEntries(t)' = StatusEntries(t)
         /\ TitleTold(t, n) => TitleTold(t, n)'
         /\ StatusToldIs(t, n) => StatusToldIs(t, n)'
         /\ Linked(t) => Linked(t)'
<1>0. PICK N : N = Len(entries)
  OBVIOUS
<1>1. N \in Nat /\ Len(entries') = N + 1 /\ entries'[N + 1] = x /\ \A i \in 1..N : entries'[i] = entries[i]
  BY <1>0, AfterWriting
<1>2. About(t)' = About(t) /\ About(t) \subseteq 1..N
  BY <1>0, <1>1 DEF About
<1>3. \A i \in About(t) : TellsTitle(i)' = TellsTitle(i) /\ entries'[i] = entries[i]
  BY <1>1, <1>2 DEF TellsTitle
<1>4. TitleEntries(t)' = TitleEntries(t) /\ StatusEntries(t)' = StatusEntries(t)
  BY <1>2, <1>3 DEF TitleEntries, StatusEntries
<1>5. \A i \in 1..N : i \in 1..(N + 1)
  BY <1>1
<1>6. ASSUME TitleTold(t, n) PROVE TitleTold(t, n)'
  BY <1>0, <1>1, <1>4, <1>5, <1>6 DEF TitleTold
<1>7. ASSUME StatusToldIs(t, n) PROVE StatusToldIs(t, n)'
  BY <1>0, <1>1, <1>4, <1>5, <1>7 DEF StatusToldIs
<1>8. ASSUME Linked(t) PROVE Linked(t)'
  <2>1. \A i : TitlesBefore(t, i)' = TitlesBefore(t, i)
    BY <1>4 DEF TitlesBefore
  <2>2. SUFFICES ASSUME NEW i \in About(t), entries[i].action = "tenant.updated"
                 PROVE  \E j \in 1..(N + 1) : IsLast(j, TitlesBefore(t, i)) /\
                          entries'[i].diff.title.antes = entries'[j].diff.title.depois
    BY <1>1, <1>2, <1>3, <2>1 DEF Linked
  <2>3. PICK j \in 1..N : IsLast(j, TitlesBefore(t, i)) /\ entries[i].diff.title.antes = entries[j].diff.title.depois
    BY <1>0, <1>8, <2>2 DEF Linked
  <2>4. entries'[i] = entries[i] /\ entries'[j] = entries[j]
    BY <1>1, <1>3, <2>3
  <2> QED
    BY <1>5, <2>3, <2>4
<1> QED
  BY <1>2, <1>4, <1>6, <1>7, <1>8

\* What is told of the firm an entry is written of.
LEMMA WrittenOfIt ==
  ASSUME entries \in Seq(Entry), NEW x \in ChangeEntry, entries' = Append(entries, x), NEW t, x.firm = t, NEW n
  PROVE  /\ x.action \in {"tenant.created", "tenant.updated"} => TitleTold(t, x.diff.title.depois)'
         /\ x.action # "tenant.updated" => StatusToldIs(t, StatusTold[x.action])'
         /\ x.action \notin {"tenant.created", "tenant.updated"} /\ TitleTold(t, n) => TitleTold(t, n)'
         /\ x.action = "tenant.updated" /\ StatusToldIs(t, n) => StatusToldIs(t, n)'
         /\ Linked(t) /\ (x.action = "tenant.updated" => TitleTold(t, x.diff.title.antes)) => Linked(t)'
<1>0. PICK N : N = Len(entries)
  OBVIOUS
<1>1. N \in Nat /\ Len(entries') = N + 1 /\ entries'[N + 1] = x /\ \A i \in 1..N : entries'[i] = entries[i]
  <2>1. x \in Entry
    BY DEF Entry
  <2> QED
    BY <1>0, <2>1, AfterWriting
<1>2. About(t)' = About(t) \cup {N + 1} /\ About(t) \subseteq 1..N
  BY <1>0, <1>1 DEF About
<1>3. \A i \in About(t) : TellsTitle(i)' = TellsTitle(i) /\ entries'[i] = entries[i]
  BY <1>1, <1>2 DEF TellsTitle
<1>4. TellsTitle(N + 1)' <=> x.action \in {"tenant.created", "tenant.updated"}
  <2>1. DOMAIN x.diff = {"title"}
    BY DEF ChangeEntry, Difference
  <2>2. entries'[N + 1] = x
    BY <1>1
  <2>3. "title" \in DOMAIN (entries'[N + 1]).diff
    BY <2>1, <2>2
  <2> QED
    BY <2>2, <2>3, Zenon DEF TellsTitle
<1>5. /\ x.action \in {"tenant.created", "tenant.updated"} => TitleEntries(t)' = TitleEntries(t) \cup {N + 1}
      /\ x.action \notin {"tenant.created", "tenant.updated"} => TitleEntries(t)' = TitleEntries(t)
      /\ TitleEntries(t) \subseteq 1..N
  <2>1. TitleEntries(t)' = {i \in About(t)' : TellsTitle(i)'}
    BY DEF TitleEntries
  <2>2. TitleEntries(t)' = TitleEntries(t) \cup {i \in {N + 1} : TellsTitle(i)'}
    BY <1>2, <1>3, <2>1 DEF TitleEntries
  <2>3. TitleEntries(t) \subseteq 1..N
    BY <1>2 DEF TitleEntries
  <2> QED
    BY <1>4, <2>2, <2>3
<1>6. (x.action \in DOMAIN StatusTold) = (x.action # "tenant.updated")
  BY DeedsAre DEF ChangeEntry
<1>7. /\ x.action # "tenant.updated" => StatusEntries(t)' = StatusEntries(t) \cup {N + 1}
      /\ x.action = "tenant.updated" => StatusEntries(t)' = StatusEntries(t)
      /\ StatusEntries(t) \subseteq 1..N
  BY <1>1, <1>2, <1>3, <1>6 DEF StatusEntries
<1>8. /\ N + 1 \in 1..(N + 1) /\ \A i \in 1..N : i \in 1..(N + 1) /\ i <= N + 1 /\ i < N + 1
  BY <1>1
<1>9. ASSUME x.action \in {"tenant.created", "tenant.updated"} PROVE TitleTold(t, x.diff.title.depois)'
  <2>1. IsLast(N + 1, TitleEntries(t)')
    BY <1>1, <1>5, <1>8, <1>9 DEF IsLast
  <2> QED
    BY <1>1, <1>8, <2>1 DEF TitleTold
<1>10. ASSUME x.action # "tenant.updated" PROVE StatusToldIs(t, StatusTold[x.action])'
  <2>1. IsLast(N + 1, StatusEntries(t)')
    BY <1>1, <1>7, <1>8, <1>10 DEF IsLast
  <2> QED
    BY <1>1, <1>8, <2>1 DEF StatusToldIs
<1>11. ASSUME x.action \notin {"tenant.created", "tenant.updated"}, TitleTold(t, n) PROVE TitleTold(t, n)'
  BY <1>0, <1>1, <1>5, <1>8, <1>11 DEF TitleTold
<1>12. ASSUME x.action = "tenant.updated", StatusToldIs(t, n) PROVE StatusToldIs(t, n)'
  BY <1>0, <1>1, <1>7, <1>8, <1>12 DEF StatusToldIs
<1>13. ASSUME Linked(t), x.action = "tenant.updated" => TitleTold(t, x.diff.title.antes) PROVE Linked(t)'
  <2>1. \A i \in About(t) : TitlesBefore(t, i)' = TitlesBefore(t, i)
    BY <1>2, <1>5, <1>8 DEF TitlesBefore
  <2>2. x.action = "tenant.updated" => TitlesBefore(t, N + 1)' = TitleEntries(t)
    BY <1>1, <1>5, <1>8 DEF TitlesBefore
  <2>3. ASSUME NEW i \in About(t), entries[i].action = "tenant.updated"
        PROVE  \E j \in 1..(N + 1) : IsLast(j, TitlesBefore(t, i)') /\
                 entries'[i].diff.title.antes = entries'[j].diff.title.depois
    <3>1. PICK j \in 1..N : IsLast(j, TitlesBefore(t, i)) /\ entries[i].diff.title.antes = entries[j].diff.title.depois
      BY <1>0, <1>13, <2>3 DEF Linked
    <3>2. entries'[i] = entries[i] /\ entries'[j] = entries[j]
      BY <1>1, <1>3, <3>1
    <3> QED
      BY <1>8, <2>1, <3>1, <3>2
  <2>4. ASSUME x.action = "tenant.updated"
        PROVE  \E j \in 1..(N + 1) : IsLast(j, TitlesBefore(t, N + 1)') /\
                 entries'[N + 1].diff.title.antes = entries'[j].diff.title.depois
    <3>1. PICK j \in 1..N : IsLast(j, TitleEntries(t)) /\ entries[j].diff.title.depois = x.diff.title.antes
      BY <1>0, <1>13, <2>4 DEF TitleTold
    <3>2. entries'[N + 1] = x /\ entries'[j] = entries[j]
      BY <1>1, <3>1
    <3> QED
      BY <1>8, <2>2, <2>4, <3>1, <3>2
  <2>5. \A i \in About(t)' : entries'[i].action = "tenant.updated" =>
          \E j \in 1..(N + 1) : IsLast(j, TitlesBefore(t, i)') /\
            entries'[i].diff.title.antes = entries'[j].diff.title.depois
    <3>1. SUFFICES ASSUME NEW i \in About(t) \cup {N + 1}, entries'[i].action = "tenant.updated"
                   PROVE  \E j \in 1..(N + 1) : IsLast(j, TitlesBefore(t, i)') /\
                            entries'[i].diff.title.antes = entries'[j].diff.title.depois
      BY <1>2
    <3>2. CASE i \in About(t)
      BY <1>3, <2>3, <3>1, <3>2
    <3>3. CASE i = N + 1
      <4>1. x.action = "tenant.updated"
        BY <1>1, <3>1, <3>3
      <4> QED
        BY <2>4, <3>3, <4>1
    <3> QED
      BY <3>1, <3>2, <3>3
  <2> QED
    BY <1>1, <2>5 DEF Linked
<1> QED
  BY <1>9, <1>10, <1>11, <1>12, <1>13

-----------------------------------------------------------------------------
(* The steps.                                                               *)

LEMMA NoEditIs == NoEdit.phase = "none" /\ NoEdit.firm = Absent /\ NoEdit.actor = Absent
BY DEF NoEdit

\* Edits are told apart from no edit.
LEMMA EditsAre ==
  ASSUME TrailTyped, NEW e \in Editor, editor[e].phase \in {"found", "publish"}
  PROVE  editor[e] \in Edit /\ EditIsDue(editor[e])
BY NoEditIs DEF TrailTyped

LEMMA InitTrail == AuditInit => TrailInvariant
<1> SUFFICES ASSUME AuditInit PROVE TrailInvariant
  OBVIOUS
<1> USE DEF AuditInit
<1>1. TrailTyped
  BY DEF TrailTyped, Entry
<1>2. \A t \in Lawfirm : About(t) = {}
  BY DEF About
<1>3. Absents
  BY <1>2 DEF Absents, NoEdit
<1>4. AllTell
  BY DEF AllTell
<1>5. ActorsIn
  BY DEF ActorsIn, NoEdit
<1>6. EntriesAfterLogin
  BY DEF EntriesAfterLogin
<1> QED
  BY <1>1, <1>3, <1>4, <1>5, <1>6 DEF TrailInvariant

\* What a login or a logout writes.
LEMMA LoginWrites ==
  ASSUME TrailTyped, NEW a \in Administrator, NEW word \in {"login.failure", "login.success", "logout"},
         Publish(a, [actor |-> a, action |-> word, firm |-> Absent, diff |-> <<>>])
  PROVE  \/ \E x \in LoginEntry : x.actor = a /\ x.action = word /\ entries' = Append(entries, x) /\ unlogged' = unlogged
                                  /\ Len(entries) < MaxEntries
         \/ unlogged' = unlogged \cup {a} /\ entries' = entries
<1> DEFINE x == [actor |-> a, action |-> word, firm |-> Absent, diff |-> <<>>]
<1>1. x \in LoginEntry /\ x.actor = a /\ x.action = word
  BY DEF LoginEntry
<1> HIDE DEF x
<1>2. Publish(a, x)
  BY DEF x
<1> QED
  BY <1>1, <1>2, PublishShape

\* What a change writes.
DueEntry(q) ==
  [actor |-> q.actor, action |-> q.action, firm |-> q.firm,
   diff |-> IF q.action = "tenant.updated" THEN BuildDiff(SnapshotTenant(q.before), SnapshotTenant(q.copy))
            ELSE [c \in {"title"} |-> [antes |-> Absent, depois |-> q.copy[c]]]]
LEMMA DueEntryIs ==
  ASSUME NEW q \in Edit, EditIsDue(q), q.phase = "publish"
  PROVE  /\ DueEntry(q) \in ChangeEntry /\ DueEntry(q).actor = q.actor /\ DueEntry(q).action = q.action
         /\ DueEntry(q).firm = q.firm /\ DueEntry(q).diff.title.depois = q.copy.title
         /\ q.action = "tenant.updated" => DueEntry(q).diff.title.antes = q.before.title
<1> DEFINE told(m, n) == [c \in {"title"} |-> [antes |-> m, depois |-> n]]
<1>0. /\ q.actor \in Administrator /\ q.action \in Deeds /\ q.firm \in Lawfirm /\ q.copy \in FirmRow
      /\ q.copy["title"] = q.copy.title /\ q.copy.title \in Title
  BY DEF Edit, FirmRow
<1>1. ASSUME NEW m \in Title \cup {Absent}, NEW n \in Title
      PROVE  told(m, n) \in Difference /\ told(m, n).title.antes = m /\ told(m, n).title.depois = n
  BY DEF Difference
<1>2. CASE q.action = "tenant.updated"
  <2>1. q.before \in FirmRow /\ q.before.title \in Title /\ q.copy.status = q.before.status /\ q.copy.title # q.before.title
    BY <1>2 DEF EditIsDue, FirmRow
  <2>2. BuildDiff(SnapshotTenant(q.before), SnapshotTenant(q.copy)) = told(q.before.title, q.copy.title)
    BY <1>0, <2>1, DifferenceIs
  <2>3. DueEntry(q) = [actor |-> q.actor, action |-> q.action, firm |-> q.firm, diff |-> told(q.before.title, q.copy.title)]
    BY <1>2, <2>2 DEF DueEntry
  <2> HIDE DEF told
  <2> QED
    BY <1>0, <1>1, <2>1, <2>3 DEF ChangeEntry
<1>3. CASE q.action # "tenant.updated"
  <2>1. DueEntry(q) = [actor |-> q.actor, action |-> q.action, firm |-> q.firm, diff |-> told(Absent, q.copy.title)]
    BY <1>0, <1>3 DEF DueEntry
  <2> HIDE DEF told
  <2> QED
    BY <1>0, <1>1, <1>3, <2>1 DEF ChangeEntry
<1> QED
  BY <1>2, <1>3

LEMMA ChangeWrites ==
  ASSUME TrailTyped, NEW e \in Editor, PublishChange(e), NEW q, q = editor[e]
  PROVE  /\ q \in Edit /\ EditIsDue(q) /\ q.phase = "publish" /\ DueEntry(q) \in ChangeEntry
         /\ \/ entries' = Append(entries, DueEntry(q)) /\ unlogged' = unlogged /\ Len(entries) < MaxEntries
            \/ unlogged' = unlogged \cup {q.firm} /\ entries' = entries
         /\ raced' = IF \E d \in Editor \ {e} : IsDue(d, q.firm) THEN raced \cup {q.firm} ELSE raced
         /\ editor' = [editor EXCEPT ![e] = NoEdit] /\ lawfirm' = lawfirm /\ login' = login
<1>1. q.phase = "publish" /\ q \in Edit /\ EditIsDue(q)
  BY EditsAre DEF PublishChange
<1>2. Publish(q.firm, DueEntry(q))
  BY Zenon DEF PublishChange, DueEntry
<1>3. DueEntry(q) \in ChangeEntry /\ DueEntry(q).actor \in Administrator
  BY <1>1, DueEntryIs DEF ChangeEntry
<1>4. \/ entries' = Append(entries, DueEntry(q)) /\ unlogged' = unlogged /\ Len(entries) < MaxEntries
      \/ unlogged' = unlogged \cup {q.firm} /\ entries' = entries
  BY <1>2, <1>3, PublishShape
<1> QED
  BY <1>1, <1>3, <1>4 DEF PublishChange, IsDue

\* A change that finds a firm says what it does with it.
LEMMA FoundIs ==
  ASSUME TrailTyped, NEW e \in Editor, NEW a \in Administrator, NEW t \in Lawfirm, lawfirm[t] # Absent,
         UpdateLawfirm(e, a, t) \/ ChangeStatus(e, a, t)
  PROVE  \E q \in Edit :
           /\ EditIsDue(q) /\ q.phase = "found" /\ q.actor = a /\ q.firm = t
           /\ login[a] = "in" /\ editor[e] = NoEdit /\ editor' = [editor EXCEPT ![e] = q]
           /\ UNCHANGED <<lawfirm, entries, login, unlogged, raced>>
<1>1. PICK row \in FirmRow : row = lawfirm[t]
  BY DEF TrailTyped
<1> DEFINE edit(w, to) == [phase |-> "found", actor |-> a, firm |-> t, action |-> w, before |-> row, copy |-> to]
<1>2. ASSUME NEW w \in Deeds, NEW to \in FirmRow, EditIsDue(edit(w, to)), FindAndEdit(e, a, t, w, to)
      PROVE  \E q \in Edit :
               /\ EditIsDue(q) /\ q.phase = "found" /\ q.actor = a /\ q.firm = t
               /\ login[a] = "in" /\ editor[e] = NoEdit /\ editor' = [editor EXCEPT ![e] = q]
               /\ UNCHANGED <<lawfirm, entries, login, unlogged, raced>>
  <2>1. edit(w, to) \in Edit
    BY <1>2 DEF Edit
  <2>2. editor' = [editor EXCEPT ![e] = edit(w, to)]
    BY <1>1, <1>2 DEF FindAndEdit
  <2> QED
    BY <1>2, <2>1, <2>2 DEF FindAndEdit
<1>3. ASSUME NEW n \in Title, NEW s \in {"unset", "set"}
      PROVE  LET to == [row EXCEPT !.title = n, !.start = s]
             IN to \in FirmRow /\ to.status = row.status
  BY DEF FirmRow
<1>4. ASSUME NEW s \in Status
      PROVE  LET to == [row EXCEPT !.status = s]
             IN to \in FirmRow /\ to.title = row.title /\ to.status = s
  BY DEF FirmRow
<1>5. ASSUME UpdateLawfirm(e, a, t)
      PROVE  \E w \in Deeds, to \in FirmRow : EditIsDue(edit(w, to)) /\ FindAndEdit(e, a, t, w, to)
  <2>1. PICK n \in Title, s \in {"unset", "set"} :
          FindAndEdit(e, a, t, "tenant.updated", [row EXCEPT !.title = n, !.start = s])
    BY <1>1, <1>5 DEF UpdateLawfirm
  <2>2. EditIsDue(edit("tenant.updated", [row EXCEPT !.title = n, !.start = s]))
    BY <1>3, DeedsAre DEF EditIsDue
  <2> QED
    BY <1>3, <2>1, <2>2, DeedsAre
<1>6. ASSUME ChangeStatus(e, a, t)
      PROVE  \E w \in Deeds, to \in FirmRow : EditIsDue(edit(w, to)) /\ FindAndEdit(e, a, t, w, to)
  <2>1. PICK w \in {"tenant.blocked", "tenant.unblocked", "tenant.deactivated"} :
          FindAndEdit(e, a, t, w, [row EXCEPT !.status = StatusTold[w]])
    BY <1>1, <1>6, DeedsAre DEF ChangeStatus
  <2>2. StatusTold[w] \in Status
    BY DeedsAre DEF Status
  <2>3. EditIsDue(edit(w, [row EXCEPT !.status = StatusTold[w]]))
    BY <1>4, <2>2, DeedsAre DEF EditIsDue
  <2> QED
    BY <1>4, <2>1, <2>2, <2>3, DeedsAre
<1> QED
  BY <1>2, <1>5, <1>6

\* A creation, as an edit.
LEMMA CreatedIs ==
  ASSUME TrailTyped, NEW e \in Editor, NEW a \in Administrator, NEW t \in Lawfirm, NEW n \in Title,
         CreateLawfirm(e, a, t, n)
  PROVE  \E q \in Edit :
           /\ EditIsDue(q) /\ q.phase = "publish" /\ q.actor = a /\ q.firm = t /\ q.action = "tenant.created"
           /\ login[a] = "in" /\ lawfirm[t] = Absent /\ editor[e] = NoEdit
           /\ editor' = [editor EXCEPT ![e] = q] /\ lawfirm' = [lawfirm EXCEPT ![t] = q.copy]
           /\ UNCHANGED <<entries, login, unlogged, raced>>
<1> DEFINE row == [title |-> n, status |-> "active", start |-> "unset"]
           q == [phase |-> "publish", actor |-> a, firm |-> t, action |-> "tenant.created", before |-> Absent, copy |-> row]
<1>1. row \in FirmRow /\ row.status = "active"
  BY DEF FirmRow, Status
<1>2. editor' = [editor EXCEPT ![e] = q] /\ lawfirm' = [lawfirm EXCEPT ![t] = row]
  BY DEF CreateLawfirm
<1> HIDE DEF row
<1>3. q \in Edit /\ EditIsDue(q)
  BY <1>1, DeedsAre DEF Edit, EditIsDue
<1> QED
  BY <1>2, <1>3 DEF CreateLawfirm

\* A save, with the edit it leaves.
LEMMA SavedIs ==
  ASSUME TrailTyped, NEW e \in Editor, SaveLawfirm(e), NEW q, q = editor[e]
  PROVE  /\ q \in Edit /\ EditIsDue(q) /\ q.phase = "found" /\ q.action # "tenant.created"
         /\ lawfirm' = [lawfirm EXCEPT ![q.firm] = q.copy]
         /\ raced' = IF lawfirm[q.firm] = q.before THEN raced ELSE raced \cup {q.firm}
         /\ \/ /\ q.copy.title = q.before.title /\ q.copy.status = q.before.status
               /\ editor' = [editor EXCEPT ![e] = NoEdit]
            \/ \E p \in Edit :
                 /\ EditIsDue(p) /\ p.phase = "publish" /\ p.actor = q.actor /\ p.firm = q.firm
                 /\ p.action = q.action /\ p.before = q.before /\ p.copy = q.copy
                 /\ editor' = [editor EXCEPT ![e] = p]
         /\ UNCHANGED <<entries, login, unlogged>>
<1>1. q.phase = "found" /\ q \in Edit /\ EditIsDue(q) /\ q.action # "tenant.created"
  BY EditsAre DEF SaveLawfirm, EditIsDue
<1>2. PICK p : p = [q EXCEPT !.phase = "publish"]
  OBVIOUS
<1>3. /\ p \in Edit /\ p.phase = "publish" /\ p.actor = q.actor /\ p.firm = q.firm
      /\ p.action = q.action /\ p.before = q.before /\ p.copy = q.copy
  BY <1>1, <1>2 DEF Edit
<1>4. q.before \in FirmRow /\ q.copy \in FirmRow
  BY <1>1 DEF EditIsDue, Edit
<1>5. CASE q.action = "tenant.updated" /\ q.copy.title = q.before.title
  <2>1. q.copy.status = q.before.status
    BY <1>1, <1>5 DEF EditIsDue
  <2>2. DOMAIN BuildDiff(SnapshotTenant(q.before), SnapshotTenant(q.copy)) = {}
    BY <1>4, <1>5, <2>1, DifferenceIs
  <2>3. editor' = [editor EXCEPT ![e] = NoEdit]
    BY <1>5, <2>2, Zenon DEF SaveLawfirm
  <2> QED
    BY <1>1, <1>5, <2>1, <2>3, Zenon DEF SaveLawfirm
<1>6. CASE ~(q.action = "tenant.updated" /\ q.copy.title = q.before.title)
  <2>1. q.action = "tenant.updated" => DOMAIN BuildDiff(SnapshotTenant(q.before), SnapshotTenant(q.copy)) # {}
    <3>1. SUFFICES ASSUME q.action = "tenant.updated" PROVE DOMAIN BuildDiff(SnapshotTenant(q.before), SnapshotTenant(q.copy)) # {}
      OBVIOUS
    <3>2. q.copy.status = q.before.status /\ q.copy.title # q.before.title
      BY <1>1, <1>6, <3>1 DEF EditIsDue
    <3> QED
      BY <1>4, <3>2, DifferenceIs
  <2>2. editor' = [editor EXCEPT ![e] = p]
    BY <1>2, <2>1, Zenon DEF SaveLawfirm
  <2>3. EditIsDue(p)
    BY <1>1, <1>3, <1>6 DEF EditIsDue
  <2> QED
    BY <1>1, <1>3, <2>2, <2>3, Zenon DEF SaveLawfirm
<1> QED
  BY <1>5, <1>6

\* The steps, by what they do.
LoginStep(a) == AdminLogin(a) \/ PublishLoginFailure(a) \/ PublishAuthEvent(a) \/ AdminLogout(a)
CreateStep(e, q) ==
  /\ q \in Edit /\ EditIsDue(q) /\ q.phase = "publish" /\ q.action = "tenant.created"
  /\ login[q.actor] = "in" /\ lawfirm[q.firm] = Absent /\ editor[e] = NoEdit
  /\ editor' = [editor EXCEPT ![e] = q] /\ lawfirm' = [lawfirm EXCEPT ![q.firm] = q.copy]
  /\ UNCHANGED <<entries, login, unlogged, raced>>
FindStep(e, q) ==
  /\ q \in Edit /\ EditIsDue(q) /\ q.phase = "found" /\ lawfirm[q.firm] # Absent
  /\ login[q.actor] = "in" /\ editor[e] = NoEdit /\ editor' = [editor EXCEPT ![e] = q]
  /\ UNCHANGED <<lawfirm, entries, login, unlogged, raced>>

LEMMA StepsAre ==
  ASSUME TrailTyped, AuditNext
  PROVE  \/ \E a \in Administrator : LoginStep(a)
         \/ \E e \in Editor, q \in Edit : CreateStep(e, q) \/ FindStep(e, q)
         \/ \E e \in Editor : SaveLawfirm(e) \/ PublishChange(e)
<1>1. CASE \E a \in Administrator : LoginStep(a)
  BY <1>1
<1>2. ASSUME NEW e \in Editor, NEW a \in Administrator, NEW t \in Lawfirm, NEW n \in Title, CreateLawfirm(e, a, t, n)
      PROVE  \E q \in Edit : CreateStep(e, q)
  BY <1>2, CreatedIs DEF CreateStep
<1>3. ASSUME NEW e \in Editor, NEW a \in Administrator, NEW t \in Lawfirm, lawfirm[t] # Absent,
             UpdateLawfirm(e, a, t) \/ ChangeStatus(e, a, t)
      PROVE  \E q \in Edit : FindStep(e, q)
  BY <1>3, FoundIs DEF FindStep
<1> QED
  BY <1>1, <1>2, <1>3 DEF AuditNext, LoginStep

\* What a login step does to what is told.
LEMMA LoginStepIs ==
  ASSUME TrailTyped, NEW a \in Administrator, LoginStep(a)
  PROVE  /\ UNCHANGED <<lawfirm, editor, raced>>
         /\ login' \in [Administrator -> {"out", "in", "publish"}]
         /\ \A b \in Administrator : login'[b] = "in" =>
              login[b] = "in" \/ (b = a /\ (b \in unlogged' \/ \E x \in LoginEntry :
                                     x.actor = a /\ x.action = "login.success" /\ entries' = Append(entries, x)))
         /\ \/ entries' = entries /\ unlogged' = unlogged
            \/ \E x \in LoginEntry : x.actor = a /\ entries' = Append(entries, x) /\ unlogged' = unlogged
                                     /\ Len(entries) < MaxEntries
            \/ unlogged' = unlogged \cup {a} /\ entries' = entries
<1> USE DEF TrailTyped
<1>1. CASE AdminLogin(a)
  BY <1>1 DEF AdminLogin
<1>2. CASE PublishLoginFailure(a)
  <2>1. login' = login /\ UNCHANGED <<lawfirm, editor, raced>>
    BY <1>2 DEF PublishLoginFailure
  <2>2. \/ \E x \in LoginEntry : x.actor = a /\ entries' = Append(entries, x) /\ unlogged' = unlogged
                                     /\ Len(entries) < MaxEntries
        \/ unlogged' = unlogged \cup {a} /\ entries' = entries
    <3>1. Publish(a, [actor |-> a, action |-> "login.failure", firm |-> Absent, diff |-> <<>>])
      BY <1>2 DEF PublishLoginFailure
    <3>2. "login.failure" \in {"login.failure", "login.success", "logout"}
      OBVIOUS
    <3>3. TrailTyped
      BY Zenon
    <3> HIDE DEF TrailTyped
    <3>4. \/ \E x \in LoginEntry : x.actor = a /\ x.action = "login.failure" /\ entries' = Append(entries, x)
                                  /\ unlogged' = unlogged /\ Len(entries) < MaxEntries
          \/ unlogged' = unlogged \cup {a} /\ entries' = entries
      BY <3>1, <3>2, <3>3, LoginWrites, Zenon
    <3> QED
      BY <3>4
  <2> QED
    BY <2>1, <2>2
<1>3. CASE PublishAuthEvent(a)
  <2>1. login' = [login EXCEPT ![a] = "in"] /\ UNCHANGED <<lawfirm, editor, raced>>
    BY <1>3 DEF PublishAuthEvent
  <2>2. \/ \E x \in LoginEntry : x.actor = a /\ x.action = "login.success" /\ entries' = Append(entries, x) /\ unlogged' = unlogged
                                     /\ Len(entries) < MaxEntries
        \/ unlogged' = unlogged \cup {a} /\ entries' = entries
    <3>1. Publish(a, [actor |-> a, action |-> "login.success", firm |-> Absent, diff |-> <<>>])
      BY <1>3 DEF PublishAuthEvent
    <3>2. "login.success" \in {"login.failure", "login.success", "logout"}
      OBVIOUS
    <3>3. TrailTyped
      BY Zenon
    <3> HIDE DEF TrailTyped
    <3>4. \/ \E x \in LoginEntry : x.actor = a /\ x.action = "login.success" /\ entries' = Append(entries, x)
                                  /\ unlogged' = unlogged /\ Len(entries) < MaxEntries
          \/ unlogged' = unlogged \cup {a} /\ entries' = entries
      BY <3>1, <3>2, <3>3, LoginWrites, Zenon
    <3> QED
      BY <3>4
  <2>3. login' \in [Administrator -> {"out", "in", "publish"}] /\ \A b \in Administrator \ {a} : login'[b] = login[b]
    BY <2>1
  <2> QED
    BY <2>1, <2>2, <2>3
<1>4. CASE AdminLogout(a)
  <2>1. login' = [login EXCEPT ![a] = "out"] /\ UNCHANGED <<lawfirm, editor, raced>>
    BY <1>4 DEF AdminLogout
  <2>2. \/ \E x \in LoginEntry : x.actor = a /\ entries' = Append(entries, x) /\ unlogged' = unlogged
                                     /\ Len(entries) < MaxEntries
        \/ unlogged' = unlogged \cup {a} /\ entries' = entries
    <3>1. Publish(a, [actor |-> a, action |-> "logout", firm |-> Absent, diff |-> <<>>])
      BY <1>4 DEF AdminLogout
    <3>2. "logout" \in {"login.failure", "login.success", "logout"}
      OBVIOUS
    <3>3. TrailTyped
      BY Zenon
    <3> HIDE DEF TrailTyped
    <3>4. \/ \E x \in LoginEntry : x.actor = a /\ x.action = "logout" /\ entries' = Append(entries, x)
                                  /\ unlogged' = unlogged /\ Len(entries) < MaxEntries
          \/ unlogged' = unlogged \cup {a} /\ entries' = entries
      BY <3>1, <3>2, <3>3, LoginWrites, Zenon
    <3> QED
      BY <3>4
  <2>3. login' \in [Administrator -> {"out", "in", "publish"}] /\ \A b \in Administrator : login'[b] = "in" => login[b] = "in"
    BY <2>1
  <2> QED
    BY <2>1, <2>2, <2>3
<1> QED
  BY <1>1, <1>2, <1>3, <1>4 DEF LoginStep

LEMMA TrailTypedNext == TrailTyped /\ [AuditNext]_auditVars => TrailTyped'
<1> SUFFICES ASSUME TrailTyped, [AuditNext]_auditVars PROVE TrailTyped'
  OBVIOUS
<1>0. entries \in Seq(Entry) /\ Len(entries) <= MaxEntries
  BY DEF TrailTyped
<1>1. ASSUME NEW x \in Entry, entries' = Append(entries, x), Len(entries) < MaxEntries
      PROVE  entries' \in Seq(Entry) /\ Len(entries') <= MaxEntries
  <2>1. entries' \in Seq(Entry) /\ Len(entries') = Len(entries) + 1 /\ Len(entries) \in Nat
    BY <1>0, <1>1, AfterWriting
  <2> QED
    BY <1>1, <2>1
<1>2. ASSUME NEW a \in Administrator, LoginStep(a) PROVE TrailTyped'
  <2>1. entries' \in Seq(Entry) /\ Len(entries') <= MaxEntries /\ unlogged' \subseteq unlogged \cup {a}
    BY <1>0, <1>1, <1>2, LoginStepIs DEF Entry
  <2> QED
    BY <1>2, <2>1, LoginStepIs DEF TrailTyped
<1>3. ASSUME NEW e \in Editor, NEW q \in Edit, CreateStep(e, q) PROVE TrailTyped'
  <2>1. q.firm \in Lawfirm /\ q.copy \in FirmRow
    BY DEF Edit
  <2> QED
    BY <1>3, <2>1 DEF TrailTyped, CreateStep
<1>4. ASSUME NEW e \in Editor, NEW q \in Edit, FindStep(e, q) PROVE TrailTyped'
  BY <1>4 DEF TrailTyped, FindStep
<1>5. ASSUME NEW e \in Editor, SaveLawfirm(e) PROVE TrailTyped'
  <2>1. PICK q : q = editor[e]
    OBVIOUS
  <2>2. /\ q \in Edit /\ lawfirm' = [lawfirm EXCEPT ![q.firm] = q.copy]
        /\ raced' = IF lawfirm[q.firm] = q.before THEN raced ELSE raced \cup {q.firm}
        /\ UNCHANGED <<entries, login, unlogged>>
    BY <1>5, <2>1, SavedIs
  <2>3. \E p : (p = NoEdit \/ (p \in Edit /\ EditIsDue(p))) /\ editor' = [editor EXCEPT ![e] = p]
    BY <1>5, <2>1, SavedIs
  <2>4. q.firm \in Lawfirm /\ q.copy \in FirmRow
    BY <2>2 DEF Edit
  <2>5. DOMAIN editor' = Editor /\ \A d \in Editor : editor'[d] = NoEdit \/ (editor'[d] \in Edit /\ EditIsDue(editor'[d]))
    BY <2>3 DEF TrailTyped
  <2> QED
    BY <2>2, <2>4, <2>5 DEF TrailTyped
<1>6. ASSUME NEW e \in Editor, PublishChange(e) PROVE TrailTyped'
  <2>1. PICK q : q = editor[e]
    OBVIOUS
  <2>2. /\ q \in Edit /\ DueEntry(q) \in ChangeEntry /\ lawfirm' = lawfirm /\ login' = login
        /\ \/ entries' = Append(entries, DueEntry(q)) /\ unlogged' = unlogged /\ Len(entries) < MaxEntries
           \/ unlogged' = unlogged \cup {q.firm} /\ entries' = entries
        /\ raced' \subseteq raced \cup {q.firm} /\ editor' = [editor EXCEPT ![e] = NoEdit]
    BY <1>6, <2>1, ChangeWrites, Zenon
  <2>3. q.firm \in Lawfirm
    BY <2>2 DEF Edit
  <2>4. entries' \in Seq(Entry) /\ Len(entries') <= MaxEntries
    BY <1>0, <1>1, <2>2 DEF Entry
  <2>5. DOMAIN editor' = Editor /\ \A d \in Editor : editor'[d] = NoEdit \/ (editor'[d] \in Edit /\ EditIsDue(editor'[d]))
    BY <2>2 DEF TrailTyped
  <2> QED
    BY <2>2, <2>3, <2>4, <2>5 DEF TrailTyped
<1>7. CASE UNCHANGED auditVars
  BY <1>7 DEF auditVars, TrailTyped
<1> QED
  BY <1>2, <1>3, <1>4, <1>5, <1>6, <1>7, StepsAre

\* A firm that is not there is neither told of nor edited.
LEMMA AbsentsNext == TrailTyped /\ Absents /\ [AuditNext]_auditVars => Absents'
<1> SUFFICES ASSUME TrailTyped, Absents, [AuditNext]_auditVars, NEW t \in Lawfirm, lawfirm'[t] = Absent
             PROVE  About(t)' = {} /\ \A e \in Editor : editor'[e].firm # t
  BY DEF Absents
<1>0. /\ entries \in Seq(Entry) /\ DOMAIN editor = Editor /\ DOMAIN lawfirm = Lawfirm
      /\ lawfirm[t] = Absent => About(t) = {} /\ \A e \in Editor : editor[e].firm # t
  BY DEF TrailTyped, Absents
<1>1. ASSUME NEW a \in Administrator, LoginStep(a) PROVE About(t)' = {} /\ \A e \in Editor : editor'[e].firm # t
  <2>1. entries' = entries \/ \E x \in LoginEntry : entries' = Append(entries, x)
    BY <1>1, LoginStepIs, Zenon
  <2>2. About(t)' = About(t)
    <3>1. ASSUME NEW x \in LoginEntry, entries' = Append(entries, x) PROVE About(t)' = About(t)
      <4>1. x \in Entry /\ x.firm # t
        BY DEF LoginEntry, Entry
      <4> QED
        BY <1>0, <3>1, <4>1, WrittenOfAnother
    <3> QED
      BY <2>1, <3>1, NothingWritten
  <2>3. lawfirm' = lawfirm /\ editor' = editor
    BY <1>1, LoginStepIs, Zenon
  <2> QED
    BY <1>0, <2>2, <2>3
<1>2. ASSUME NEW e \in Editor, NEW q \in Edit, CreateStep(e, q) PROVE About(t)' = {} /\ \A d \in Editor : editor'[d].firm # t
  <2>1. q.copy \in FirmRow /\ q.copy # Absent /\ q.firm \in Lawfirm
    BY DEF Edit
  <2>2. q.firm # t /\ lawfirm[t] = Absent
    BY <1>0, <1>2, <2>1 DEF CreateStep
  <2>3. About(t)' = About(t)
    BY <1>2, NothingWritten DEF CreateStep
  <2> QED
    BY <1>0, <1>2, <2>2, <2>3 DEF CreateStep
<1>3. ASSUME NEW e \in Editor, NEW q \in Edit, FindStep(e, q) PROVE About(t)' = {} /\ \A d \in Editor : editor'[d].firm # t
  <2>1. q.firm # t /\ lawfirm[t] = Absent
    BY <1>3 DEF FindStep
  <2>2. About(t)' = About(t)
    BY <1>3, NothingWritten DEF FindStep
  <2> QED
    BY <1>0, <1>3, <2>1, <2>2 DEF FindStep
<1>4. ASSUME NEW e \in Editor, SaveLawfirm(e) PROVE About(t)' = {} /\ \A d \in Editor : editor'[d].firm # t
  <2>1. PICK q : q = editor[e]
    OBVIOUS
  <2>2. q \in Edit /\ lawfirm' = [lawfirm EXCEPT ![q.firm] = q.copy] /\ entries' = entries
    BY <1>4, <2>1, SavedIs
  <2>3. \E p : (p.firm = Absent \/ p.firm = q.firm) /\ editor' = [editor EXCEPT ![e] = p]
    <3>1. NoEdit.firm = Absent
      BY DEF NoEdit
    <3>2. \/ editor' = [editor EXCEPT ![e] = NoEdit]
          \/ \E p \in Edit : p.firm = q.firm /\ editor' = [editor EXCEPT ![e] = p]
      BY <1>4, <2>1, SavedIs
    <3> QED
      BY <3>1, <3>2, Zenon
  <2>4. q.copy # Absent /\ q.firm \in Lawfirm
    BY <2>2 DEF Edit
  <2>5. q.firm # t /\ lawfirm[t] = Absent
    BY <1>0, <2>2, <2>4
  <2>6. About(t)' = About(t)
    BY <2>2, NothingWritten
  <2> QED
    BY <1>0, <2>3, <2>5, <2>6
<1>5. ASSUME NEW e \in Editor, PublishChange(e) PROVE About(t)' = {} /\ \A d \in Editor : editor'[d].firm # t
  <2>1. PICK q : q = editor[e]
    OBVIOUS
  <2>2. /\ DueEntry(q) \in ChangeEntry /\ lawfirm' = lawfirm /\ editor' = [editor EXCEPT ![e] = NoEdit]
        /\ entries' = Append(entries, DueEntry(q)) \/ entries' = entries
        /\ DueEntry(q).firm = q.firm
    <3>1. q \in Edit /\ EditIsDue(q) /\ q.phase = "publish"
      BY <1>5, <2>1, ChangeWrites, Zenon
    <3>2. DueEntry(q).firm = q.firm
      BY <3>1, DueEntryIs, Zenon
    <3> QED
      BY <1>5, <2>1, <3>2, ChangeWrites, Zenon
  <2>3. q.firm # t /\ lawfirm[t] = Absent
    BY <1>0, <2>1, <2>2
  <2>4. About(t)' = About(t)
    BY <1>0, <2>2, <2>3, WrittenOfAnother, NothingWritten DEF Entry
  <2> QED
    BY <1>0, <2>2, <2>3, <2>4 DEF NoEdit
<1>6. CASE UNCHANGED auditVars
  <2>1. entries' = entries /\ editor' = editor /\ lawfirm' = lawfirm
    BY <1>6 DEF auditVars
  <2> QED
    BY <1>0, <2>1, NothingWritten
<1> QED
  BY <1>1, <1>2, <1>3, <1>4, <1>5, <1>6, StepsAre

\* Whoever edits was told to have logged in.
LEMMA ActorsNext == TrailTyped /\ ActorsIn /\ [AuditNext]_auditVars => ActorsIn'
<1> SUFFICES ASSUME TrailTyped, ActorsIn, [AuditNext]_auditVars,
                    NEW a \in Administrator \ unlogged', login'[a] = "in" \/ \E e \in Editor : editor'[e].actor = a
             PROVE  ToldIn(a, Len(entries))'
  BY DEF ActorsIn
<1>0. entries \in Seq(Entry) /\ DOMAIN editor = Editor
  BY DEF TrailTyped
<1>1. ASSUME unlogged \subseteq unlogged', login[a] = "in" \/ \E e \in Editor : editor[e].actor = a,
             entries' = entries \/ \E x \in Entry : entries' = Append(entries, x)
      PROVE  ToldIn(a, Len(entries))'
  <2>1. ToldIn(a, Len(entries))
    BY <1>1 DEF ActorsIn
  <2>2. ASSUME NEW x \in Entry, entries' = Append(entries, x) PROVE ToldIn(a, Len(entries))'
    <3>1. Len(entries) \in Nat /\ Len(entries') = Len(entries) + 1 /\ \A i \in 1..Len(entries) : entries'[i] = entries[i]
      BY <1>0, <2>2, AfterWriting
    <3> QED
      BY <2>1, <3>1 DEF ToldIn
  <2> QED
    BY <1>1, <2>1, <2>2 DEF ToldIn
<1>2. ASSUME NEW b \in Administrator, LoginStep(b) PROVE ToldIn(a, Len(entries))'
  <2>1. editor' = editor /\ unlogged \subseteq unlogged' /\ (entries' = entries \/ \E x \in Entry : entries' = Append(entries, x))
    BY <1>2, LoginStepIs DEF Entry
  <2>2. ASSUME NEW x \in LoginEntry, x.actor = a, x.action = "login.success", entries' = Append(entries, x)
        PROVE  ToldIn(a, Len(entries))'
    <3>1. x \in Entry
      BY DEF Entry
    <3>2. Len(entries) \in Nat /\ Len(entries') = Len(entries) + 1 /\ entries'[Len(entries) + 1] = x
      BY <1>0, <2>2, <3>1, AfterWriting
    <3> QED
      BY <2>2, <3>2 DEF ToldIn
  <2>3. CASE login'[a] = "in" /\ login[a] # "in"
    <3>1. a = b /\ \E x \in LoginEntry : x.actor = b /\ x.action = "login.success" /\ entries' = Append(entries, x)
      BY <1>2, <2>3, LoginStepIs
    <3> QED
      BY <2>2, <3>1
  <2>4. CASE ~(login'[a] = "in" /\ login[a] # "in")
    BY <1>1, <2>1, <2>4
  <2> QED
    BY <2>3, <2>4
<1>3. ASSUME NEW e \in Editor, NEW q \in Edit, CreateStep(e, q) \/ FindStep(e, q) PROVE ToldIn(a, Len(entries))'
  <2>1. login[q.actor] = "in" /\ login' = login /\ editor' = [editor EXCEPT ![e] = q] /\ entries' = entries /\ unlogged' = unlogged
    BY <1>3 DEF CreateStep, FindStep
  <2>2. login[a] = "in" \/ \E d \in Editor : editor[d].actor = a
    BY <1>0, <2>1
  <2> QED
    BY <1>1, <2>1, <2>2
<1>4. ASSUME NEW e \in Editor, SaveLawfirm(e) PROVE ToldIn(a, Len(entries))'
  <2>1. PICK q : q = editor[e]
    OBVIOUS
  <2>2. entries' = entries /\ login' = login /\ unlogged' = unlogged
    BY <1>4, <2>1, SavedIs
  <2>3. \E p : (p.actor = Absent \/ p.actor = q.actor) /\ editor' = [editor EXCEPT ![e] = p]
    <3>1. NoEdit.actor = Absent
      BY DEF NoEdit
    <3>2. \/ editor' = [editor EXCEPT ![e] = NoEdit]
          \/ \E p \in Edit : p.actor = q.actor /\ editor' = [editor EXCEPT ![e] = p]
      BY <1>4, <2>1, SavedIs
    <3> QED
      BY <3>1, <3>2, Zenon
  <2>4. login[a] = "in" \/ \E d \in Editor : editor[d].actor = a
    BY <1>0, <2>1, <2>2, <2>3
  <2> QED
    BY <1>1, <2>2, <2>4
<1>5. ASSUME NEW e \in Editor, PublishChange(e) PROVE ToldIn(a, Len(entries))'
  <2>1. PICK q : q = editor[e]
    OBVIOUS
  <2>2. /\ DueEntry(q) \in ChangeEntry /\ login' = login /\ editor' = [editor EXCEPT ![e] = NoEdit]
        /\ entries' = Append(entries, DueEntry(q)) \/ entries' = entries
        /\ unlogged \subseteq unlogged'
    BY <1>5, <2>1, ChangeWrites
  <2>3. login[a] = "in" \/ \E d \in Editor : editor[d].actor = a
    BY <1>0, <2>2 DEF NoEdit
  <2> QED
    BY <1>1, <2>2, <2>3 DEF Entry
<1>6. CASE UNCHANGED auditVars
  BY <1>1, <1>6 DEF auditVars
<1> QED
  BY <1>2, <1>3, <1>4, <1>5, <1>6, StepsAre

\* No change is told of before its actor's login.
LEMMA AfterLoginNext ==
  TrailTyped /\ ActorsIn /\ EntriesAfterLogin /\ [AuditNext]_auditVars => EntriesAfterLogin'
<1> SUFFICES ASSUME TrailTyped, ActorsIn, EntriesAfterLogin, [AuditNext]_auditVars PROVE EntriesAfterLogin'
  OBVIOUS
<1>0. entries \in Seq(Entry)
  BY DEF TrailTyped
<1>1. ASSUME entries' = entries, unlogged \subseteq unlogged' PROVE EntriesAfterLogin'
  BY <1>1 DEF EntriesAfterLogin, ToldIn
<1>2. ASSUME NEW x \in Entry, entries' = Append(entries, x), unlogged' = unlogged,
             x.firm # Absent /\ x.actor \notin unlogged => ToldIn(x.actor, Len(entries))
      PROVE  EntriesAfterLogin'
  <2>0. PICK N : N = Len(entries)
    OBVIOUS
  <2>1. /\ N \in Nat /\ Len(entries') = N + 1 /\ entries'[N + 1] = x
        /\ \A i \in 1..N : entries'[i] = entries[i]
    BY <1>0, <1>2, <2>0, AfterWriting
  <2>2. SUFFICES ASSUME NEW i \in 1..(N + 1), entries'[i].firm # Absent, entries'[i].actor \notin unlogged
                 PROVE  \E j \in 1..(i - 1) : entries'[j].action = "login.success" /\ entries'[j].actor = entries'[i].actor
    BY <1>2, <2>1 DEF EntriesAfterLogin, ToldIn
  <2>3. CASE i = N + 1
    BY <1>2, <2>0, <2>1, <2>2, <2>3 DEF ToldIn
  <2>4. CASE i # N + 1
    <3>1. i \in 1..N /\ entries'[i] = entries[i]
      BY <2>1, <2>4
    <3>2. PICK j \in 1..(i - 1) : entries[j].action = "login.success" /\ entries[j].actor = entries[i].actor
      BY <2>0, <2>2, <3>1 DEF EntriesAfterLogin, ToldIn
    <3>3. entries'[j] = entries[j]
      BY <2>1, <3>1, <3>2
    <3> QED
      BY <3>1, <3>2, <3>3
  <2> QED
    BY <2>3, <2>4
<1>3. ASSUME NEW a \in Administrator, LoginStep(a) PROVE EntriesAfterLogin'
  <2>1. \/ entries' = entries /\ unlogged \subseteq unlogged'
        \/ \E x \in LoginEntry : entries' = Append(entries, x) /\ unlogged' = unlogged
    BY <1>3, LoginStepIs
  <2> QED
    BY <1>1, <1>2, <2>1 DEF LoginEntry, Entry
<1>4. ASSUME NEW e \in Editor, NEW q \in Edit, CreateStep(e, q) \/ FindStep(e, q) PROVE EntriesAfterLogin'
  BY <1>1, <1>4 DEF CreateStep, FindStep
<1>5. ASSUME NEW e \in Editor, SaveLawfirm(e) PROVE EntriesAfterLogin'
  BY <1>1, <1>5, SavedIs
<1>6. ASSUME NEW e \in Editor, PublishChange(e) PROVE EntriesAfterLogin'
  <2>1. PICK q : q = editor[e]
    OBVIOUS
  <2>2. /\ q \in Edit /\ EditIsDue(q) /\ q.phase = "publish" /\ DueEntry(q) \in ChangeEntry
        /\ \/ entries' = Append(entries, DueEntry(q)) /\ unlogged' = unlogged
           \/ unlogged' = unlogged \cup {q.firm} /\ entries' = entries
    BY <1>6, <2>1, ChangeWrites
  <2>3. DueEntry(q).actor = q.actor /\ q.actor \in Administrator
    BY <2>2, DueEntryIs DEF Edit
  <2>4. q.actor \notin unlogged => ToldIn(q.actor, Len(entries))
    BY <2>1, <2>3 DEF ActorsIn
  <2> QED
    BY <1>1, <1>2, <2>2, <2>3, <2>4 DEF Entry
<1>7. CASE UNCHANGED auditVars
  BY <1>1, <1>7 DEF auditVars
<1> QED
  BY <1>3, <1>4, <1>5, <1>6, <1>7, StepsAre

\* What is told of a firm stands while its row, its entries and what is due of
\* it stay.
LEMMA TellsOn ==
  ASSUME NEW t \in Lawfirm, Tells(t), lawfirm'[t] = lawfirm[t],
         \A d \in Editor : IsDue(d, t)' = IsDue(d, t) /\ (IsDue(d, t) => editor'[d] = editor[d]),
         About(t)' = About(t),
         \A n : (TitleTold(t, n) => TitleTold(t, n)') /\ (StatusToldIs(t, n) => StatusToldIs(t, n)')
  PROVE  Tells(t)'
<1>1. ASSUME NEW row, TellsRow(t, row) PROVE TellsRow(t, row)'
  BY <1>1, Zenon DEF TellsRow
<1>2. ASSUME NEW row, NEW q, TellsEdit(t, row, q) PROVE TellsEdit(t, row, q)'
  BY <1>1, <1>2, Zenon DEF TellsEdit
<1>3. SUFFICES ASSUME NEW row \in FirmRow, row = lawfirm'[t]
               PROVE  /\ (\A e \in Editor : ~IsDue(e, t)') => TellsRow(t, row)'
                      /\ \A e \in Editor, q \in Edit : q = editor'[e] /\ OnlyDue(e, t)' => TellsEdit(t, row, q)'
  BY DEF Tells
<1>4. \A e \in Editor : OnlyDue(e, t)' = OnlyDue(e, t)
  BY DEF OnlyDue
<1>5. ASSUME \A e \in Editor : ~IsDue(e, t)' PROVE TellsRow(t, row)'
  BY <1>1, <1>3, <1>5 DEF Tells
<1>6. ASSUME NEW e \in Editor, NEW q \in Edit, q = editor'[e], OnlyDue(e, t)' PROVE TellsEdit(t, row, q)'
  <2>1. OnlyDue(e, t) /\ q = editor[e]
    BY <1>4, <1>6 DEF OnlyDue
  <2>2. TellsEdit(t, row, q)
    BY <1>3, <2>1 DEF Tells
  <2> QED
    BY <1>2, <2>2
<1> QED
  BY <1>5, <1>6

\* Steps that write nothing of the firm and leave its row and what is due.
LEMMA AllTellApart ==
  ASSUME TrailTyped, AllTell, NEW t \in Lawfirm \ (unlogged' \cup raced'), lawfirm'[t] # Absent,
         unlogged \subseteq unlogged', raced \subseteq raced', lawfirm'[t] = lawfirm[t],
         \A d \in Editor : IsDue(d, t)' = IsDue(d, t) /\ (IsDue(d, t) => editor'[d] = editor[d]),
         entries' = entries \/ \E x \in Entry : x.firm # t /\ entries' = Append(entries, x)
  PROVE  Tells(t)' /\ Linked(t)'
<1>1. Tells(t) /\ Linked(t)
  BY DEF AllTell
<1>2. entries \in Seq(Entry)
  BY DEF TrailTyped
<1>3. /\ About(t)' = About(t) /\ (Linked(t) => Linked(t)')
      /\ \A n : (TitleTold(t, n) => TitleTold(t, n)') /\ (StatusToldIs(t, n) => StatusToldIs(t, n)')
  <2>1. CASE entries' = entries
    BY <2>1, NothingWritten
  <2>2. ASSUME NEW x \in Entry, x.firm # t, entries' = Append(entries, x)
        PROVE  /\ About(t)' = About(t) /\ (Linked(t) => Linked(t)')
               /\ \A n : (TitleTold(t, n) => TitleTold(t, n)') /\ (StatusToldIs(t, n) => StatusToldIs(t, n)')
    BY <1>2, <2>2, WrittenOfAnother
  <2> QED
    BY <2>1, <2>2
<1>4. Tells(t)'
  BY <1>1, <1>3, TellsOn
<1> QED
  BY <1>1, <1>3, <1>4

\* A save is of what the change found, or the firm is raced.
LEMMA AllTellSave ==
  ASSUME TrailTyped, AllTell, NEW e \in Editor, SaveLawfirm(e),
         NEW t \in Lawfirm \ (unlogged' \cup raced'), lawfirm'[t] # Absent
  PROVE  Tells(t)' /\ Linked(t)'
<1>0. PICK q : q = editor[e]
  OBVIOUS
<1>1. /\ q \in Edit /\ EditIsDue(q) /\ q.phase = "found" /\ q.action # "tenant.created"
      /\ lawfirm' = [lawfirm EXCEPT ![q.firm] = q.copy]
      /\ raced' = IF lawfirm[q.firm] = q.before THEN raced ELSE raced \cup {q.firm}
      /\ UNCHANGED <<entries, login, unlogged>>
  BY <1>0, SavedIs
<1>2. /\ DOMAIN editor = Editor /\ lawfirm \in [Lawfirm -> FirmRow \cup {Absent}]
      /\ q.firm \in Lawfirm /\ q.copy \in FirmRow /\ q.before \in FirmRow
  BY <1>1 DEF TrailTyped, Edit, EditIsDue
<1>3. \/ /\ q.copy.title = q.before.title /\ q.copy.status = q.before.status
         /\ editor' = [editor EXCEPT ![e] = NoEdit]
      \/ \E p \in Edit :
           /\ EditIsDue(p) /\ p.phase = "publish" /\ p.actor = q.actor /\ p.firm = q.firm
           /\ p.action = q.action /\ p.before = q.before /\ p.copy = q.copy
           /\ editor' = [editor EXCEPT ![e] = p]
  BY <1>0, SavedIs
<1>4. /\ \A d \in Editor \ {e} : editor'[d] = editor[d]
      /\ \A d \in Editor \ {e} : IsDue(d, t)' = IsDue(d, t)
  BY <1>2, <1>3 DEF IsDue
<1>5. ~IsDue(e, t)
  BY <1>0, <1>1 DEF IsDue
<1>6. CASE q.firm # t
  <2>1. lawfirm'[t] = lawfirm[t] /\ raced \subseteq raced'
    BY <1>1, <1>2, <1>6
  <2>2. ~IsDue(e, t)'
    <3>1. NoEdit.phase = "none"
      BY DEF NoEdit
    <3>2. \E p : editor' = [editor EXCEPT ![e] = p] /\ (p.phase = "none" \/ p.firm = q.firm)
      BY <1>3, <3>1
    <3>3. editor'[e].phase = "none" \/ editor'[e].firm = q.firm
      BY <1>2, <3>2
    <3> QED
      BY <1>6, <3>3 DEF IsDue
  <2>3. \A d \in Editor : IsDue(d, t)' = IsDue(d, t) /\ (IsDue(d, t) => editor'[d] = editor[d])
    BY <1>4, <1>5, <2>2 DEF IsDue
  <2> QED
    BY <1>1, <2>1, <2>3, AllTellApart
<1>7. CASE q.firm = t
  <2>1. lawfirm[t] = q.before /\ raced' = raced /\ lawfirm'[t] = q.copy
    BY <1>1, <1>2, <1>7
  <2>2. lawfirm[t] # Absent /\ Tells(t) /\ Linked(t)
    BY <1>1, <1>2, <2>1 DEF AllTell
  <2>3. Linked(t)' /\ About(t)' = About(t) /\ \A n : TitleTold(t, n)' = TitleTold(t, n) /\ StatusToldIs(t, n)' = StatusToldIs(t, n)
    BY <1>1, <2>2, NothingWritten
  <2>4. \A row : TellsRow(t, row)' = TellsRow(t, row)
    BY <2>3 DEF TellsRow
  <2>5. /\ (\A d \in Editor : ~IsDue(d, t)) => TellsRow(t, q.before)
        /\ \A d \in Editor, p \in Edit : p = editor[d] /\ OnlyDue(d, t) => TellsEdit(t, q.before, p)
    BY <1>2, <2>1, <2>2 DEF Tells
  <2>6. SUFFICES /\ (\A d \in Editor : ~IsDue(d, t)') => TellsRow(t, q.copy)'
                 /\ \A d \in Editor, p \in Edit : p = editor'[d] /\ OnlyDue(d, t)' => TellsEdit(t, q.copy, p)'
    BY <2>1, <2>3 DEF Tells
  <2>7. CASE q.copy.title = q.before.title /\ q.copy.status = q.before.status /\ editor' = [editor EXCEPT ![e] = NoEdit]
    <3>1. ~IsDue(e, t)'
      BY <1>2, <2>7 DEF IsDue, NoEdit
    <3>2. \A d \in Editor : (IsDue(d, t)' <=> IsDue(d, t)) /\ (OnlyDue(d, t)' <=> OnlyDue(d, t))
      <4>1. \A d \in Editor : IsDue(d, t)' <=> IsDue(d, t)
        BY <1>4, <1>5, <3>1
      <4> QED
        BY <4>1, Zenon DEF OnlyDue
    <3>3. (\A d \in Editor : ~IsDue(d, t)') => TellsRow(t, q.copy)'
      <4>1. TellsRow(t, q.before) => TellsRow(t, q.copy)
        BY <2>7 DEF TellsRow
      <4> QED
        BY <2>4, <2>5, <3>2, <4>1
    <3>4. ASSUME NEW d \in Editor, NEW p \in Edit, p = editor'[d], OnlyDue(d, t)' PROVE TellsEdit(t, q.copy, p)'
      <4>1. d # e /\ OnlyDue(d, t)
        BY <1>5, <3>2, <3>4 DEF OnlyDue
      <4>2. p = editor[d]
        BY <1>4, <3>4, <4>1
      <4>3. TellsEdit(t, q.before, p)
        BY <2>5, <4>1, <4>2
      <4> QED
        BY <2>3, <2>4, <2>7, <4>3 DEF TellsEdit
    <3> QED
      BY <3>3, <3>4
  <2>8. ASSUME NEW x \in Edit, x.phase = "publish", x.firm = q.firm, x.action = q.action,
               x.before = q.before, x.copy = q.copy, editor' = [editor EXCEPT ![e] = x]
        PROVE  /\ (\A d \in Editor : ~IsDue(d, t)') => TellsRow(t, q.copy)'
               /\ \A d \in Editor, p \in Edit : p = editor'[d] /\ OnlyDue(d, t)' => TellsEdit(t, q.copy, p)'
    <3>1. IsDue(e, t)' /\ editor'[e] = x
      BY <1>2, <1>7, <2>8 DEF IsDue
    <3>2. ASSUME NEW d \in Editor, NEW p \in Edit, p = editor'[d], OnlyDue(d, t)' PROVE TellsEdit(t, q.copy, p)'
      <4>1. d = e /\ p = x
        BY <3>1, <3>2 DEF OnlyDue
      <4>2. \A c \in Editor : ~IsDue(c, t)
        BY <1>4, <1>5, <3>2, <4>1 DEF OnlyDue
      <4>3. TellsRow(t, q.before)'
        BY <2>4, <2>5, <4>2
      <4> QED
        BY <1>1, <2>8, <4>1, <4>3 DEF TellsEdit
    <3> QED
      BY <3>1, <3>2
  <2> QED
    BY <1>3, <2>7, <2>8
<1> QED
  BY <1>6, <1>7

\* What is written of a firm tells its row, unless another entry is due or the
\* entry is given up.
LEMMA AllTellPublish ==
  ASSUME TrailTyped, AllTell, NEW e \in Editor, PublishChange(e),
         NEW t \in Lawfirm \ (unlogged' \cup raced'), lawfirm'[t] # Absent
  PROVE  Tells(t)' /\ Linked(t)'
<1>0. PICK q : q = editor[e]
  OBVIOUS
<1>1. /\ q \in Edit /\ EditIsDue(q) /\ q.phase = "publish" /\ DueEntry(q) \in ChangeEntry
      /\ \/ entries' = Append(entries, DueEntry(q)) /\ unlogged' = unlogged /\ Len(entries) < MaxEntries
         \/ unlogged' = unlogged \cup {q.firm} /\ entries' = entries
      /\ raced' = IF \E d \in Editor \ {e} : IsDue(d, q.firm) THEN raced \cup {q.firm} ELSE raced
      /\ editor' = [editor EXCEPT ![e] = NoEdit] /\ lawfirm' = lawfirm
  BY <1>0, ChangeWrites
<1>2. /\ DOMAIN editor = Editor /\ lawfirm \in [Lawfirm -> FirmRow \cup {Absent}] /\ entries \in Seq(Entry)
      /\ q.firm \in Lawfirm /\ q.copy \in FirmRow /\ q.action \in Deeds
  BY <1>1 DEF TrailTyped, Edit
<1>3. PICK x \in ChangeEntry : x = DueEntry(q)
  BY <1>1
<1>4. /\ x.firm = q.firm /\ x.action = q.action /\ x.diff.title.depois = q.copy.title /\ x \in Entry
      /\ q.action = "tenant.updated" => x.diff.title.antes = q.before.title
  BY <1>1, <1>3, DueEntryIs DEF Entry
<1>5. /\ \A d \in Editor \ {e} : editor'[d] = editor[d] /\ (IsDue(d, t)' <=> IsDue(d, t))
      /\ ~IsDue(e, t)'
  <2>1. NoEdit.phase = "none"
    BY DEF NoEdit
  <2>2. editor'[e] = NoEdit /\ \A d \in Editor \ {e} : editor'[d] = editor[d]
    BY <1>1, <1>2
  <2> QED
    BY <2>1, <2>2 DEF IsDue
<1>6. CASE q.firm # t
  <2>1. ~IsDue(e, t)
    BY <1>0, <1>6 DEF IsDue
  <2>2. \A d \in Editor : IsDue(d, t)' = IsDue(d, t) /\ (IsDue(d, t) => editor'[d] = editor[d])
    <3>1. \A d \in Editor : IsDue(d, t)' <=> IsDue(d, t)
      BY <1>5, <2>1
    <3>2. \A d \in Editor : IsDue(d, t) \in BOOLEAN /\ IsDue(d, t)' \in BOOLEAN
      BY DEF IsDue
    <3> QED
      BY <1>5, <2>1, <3>1, <3>2
  <2>3. unlogged \subseteq unlogged' /\ raced \subseteq raced' /\ lawfirm'[t] = lawfirm[t]
        /\ (entries' = entries \/ \E y \in Entry : y.firm # t /\ entries' = Append(entries, y))
    BY <1>1, <1>3, <1>4, <1>6
  <2> QED
    BY <2>2, <2>3, AllTellApart
<1>7. CASE q.firm = t
  <2>1. entries' = Append(entries, x) /\ unlogged' = unlogged /\ raced' = raced /\ \A d \in Editor \ {e} : ~IsDue(d, t)
    BY <1>1, <1>3, <1>7
  <2>2. PICK row \in FirmRow : row = lawfirm[t] /\ lawfirm'[t] = row
    BY <1>1, <1>2
  <2>3. OnlyDue(e, t)
    BY <1>0, <1>1, <1>7, <2>1 DEF OnlyDue, IsDue
  <2>4. Tells(t) /\ Linked(t)
    BY <1>1, <2>1, <2>2 DEF AllTell
  <2>5. TellsEdit(t, row, q)
    BY <1>0, <1>1, <2>2, <2>3, <2>4 DEF Tells
  <2>6. /\ q.action \in {"tenant.created", "tenant.updated"} => TitleTold(t, q.copy.title)'
        /\ q.action # "tenant.updated" => StatusToldIs(t, StatusTold[q.action])'
        /\ q.action \notin {"tenant.created", "tenant.updated"} /\ TitleTold(t, q.before.title) => TitleTold(t, q.before.title)'
        /\ q.action = "tenant.updated" /\ StatusToldIs(t, q.before.status) => StatusToldIs(t, q.before.status)'
        /\ (q.action = "tenant.updated" => TitleTold(t, q.before.title)) => Linked(t)'
    <3>1. ASSUME NEW n
          PROVE  /\ x.action \in {"tenant.created", "tenant.updated"} => TitleTold(t, x.diff.title.depois)'
                 /\ x.action # "tenant.updated" => StatusToldIs(t, StatusTold[x.action])'
                 /\ x.action \notin {"tenant.created", "tenant.updated"} /\ TitleTold(t, n) => TitleTold(t, n)'
                 /\ x.action = "tenant.updated" /\ StatusToldIs(t, n) => StatusToldIs(t, n)'
                 /\ Linked(t) /\ (x.action = "tenant.updated" => TitleTold(t, x.diff.title.antes)) => Linked(t)'
      BY <1>2, <1>4, <1>7, <2>1, WrittenOfIt
    <3> QED
      BY <1>4, <2>4, <3>1
  <2>7. Linked(t)' /\ TitleTold(t, q.copy.title)' /\ StatusToldIs(t, q.copy.status)'
    <3>1. CASE q.action = "tenant.created"
      BY <1>1, <2>6, <3>1, DeedsAre DEF EditIsDue
    <3>2. CASE q.action = "tenant.updated"
      <4>1. TitleTold(t, q.before.title) /\ StatusToldIs(t, q.before.status)
        BY <2>5, <3>2 DEF TellsEdit, TellsRow
      <4>2. q.copy.status = q.before.status
        BY <1>1, <3>2 DEF EditIsDue
      <4> QED
        BY <2>6, <3>2, <4>1, <4>2
    <3>3. CASE q.action \in Deeds \ {"tenant.created", "tenant.updated"}
      <4>1. TitleTold(t, q.before.title)
        BY <2>5, <3>3 DEF TellsEdit, TellsRow
      <4>2. q.copy.title = q.before.title /\ q.copy.status = StatusTold[q.action]
        BY <1>1, <3>3, DeedsAre DEF EditIsDue
      <4> QED
        BY <2>6, <3>3, <4>1, <4>2
    <3> QED
      BY <1>2, <3>1, <3>2, <3>3
  <2>8. TellsRow(t, row)'
    BY <2>5, <2>7 DEF TellsRow, TellsEdit
  <2>9. \A d \in Editor : ~OnlyDue(d, t)'
    BY <1>5, <2>1 DEF OnlyDue
  <2>10. Tells(t)'
    <3>1. SUFFICES ASSUME NEW r \in FirmRow, r = lawfirm'[t]
                   PROVE  /\ (\A d \in Editor : ~IsDue(d, t)') => TellsRow(t, r)'
                          /\ \A d \in Editor, p \in Edit : p = editor'[d] /\ OnlyDue(d, t)' => TellsEdit(t, r, p)'
      BY DEF Tells
    <3>2. r = row
      BY <2>2, <3>1
    <3> QED
      BY <2>8, <2>9, <3>2
  <2> QED
    BY <2>7, <2>10
<1> QED
  BY <1>6, <1>7

\* A firm is told of from its first row on.
LEMMA AllTellCreate ==
  ASSUME TrailTyped, Absents, AllTell, NEW e \in Editor, NEW q \in Edit, CreateStep(e, q),
         NEW t \in Lawfirm \ (unlogged' \cup raced'), lawfirm'[t] # Absent
  PROVE  Tells(t)' /\ Linked(t)'
<1>1. /\ DOMAIN editor = Editor /\ DOMAIN lawfirm = Lawfirm /\ q.firm \in Lawfirm /\ q.copy \in FirmRow
      /\ editor[e].phase = "none" /\ q.phase = "publish" /\ q.action = "tenant.created"
      /\ editor' = [editor EXCEPT ![e] = q] /\ lawfirm' = [lawfirm EXCEPT ![q.firm] = q.copy]
      /\ entries' = entries /\ unlogged' = unlogged /\ raced' = raced /\ lawfirm[q.firm] = Absent
  BY NoEditIs DEF TrailTyped, Edit, CreateStep
<1>2. editor'[e] = q /\ \A d \in Editor \ {e} : editor'[d] = editor[d]
  BY <1>1
<1>3. CASE q.firm # t
  <2>1. ~IsDue(e, t)' /\ ~IsDue(e, t)
    BY <1>1, <1>2, <1>3 DEF IsDue
  <2>2. \A d \in Editor : IsDue(d, t)' = IsDue(d, t) /\ (IsDue(d, t) => editor'[d] = editor[d])
    BY <1>2, <2>1 DEF IsDue
  <2>3. lawfirm'[t] = lawfirm[t]
    BY <1>1, <1>3
  <2> QED
    BY <1>1, <2>2, <2>3, AllTellApart
<1>4. CASE q.firm = t
  <2>1. About(t)' = {} /\ \A d \in Editor : editor[d].firm # t
    BY <1>1, <1>4, NothingWritten DEF Absents
  <2>2. Linked(t)'
    BY <2>1 DEF Linked
  <2>3. IsDue(e, t)' /\ \A d \in Editor \ {e} : ~IsDue(d, t)'
    BY <1>1, <1>2, <1>4, <2>1 DEF IsDue
  <2>4. SUFFICES ASSUME NEW row \in FirmRow, row = lawfirm'[t]
                 PROVE  \A d \in Editor, p \in Edit : p = editor'[d] /\ OnlyDue(d, t)' => TellsEdit(t, row, p)'
    BY <2>2, <2>3 DEF Tells
  <2>5. row = q.copy
    BY <1>1, <1>4, <2>4
  <2>6. TellsEdit(t, row, q)'
    BY <1>1, <2>1, <2>5 DEF TellsEdit
  <2>7. \A d \in Editor : OnlyDue(d, t)' => d = e
    BY <2>3 DEF OnlyDue
  <2> QED
    BY <1>2, <2>6, <2>7
<1> QED
  BY <1>3, <1>4

LEMMA AllTellNext == TrailTyped /\ Absents /\ AllTell /\ [AuditNext]_auditVars => AllTell'
<1> SUFFICES ASSUME TrailTyped, Absents, AllTell, [AuditNext]_auditVars,
                    NEW t \in Lawfirm \ (unlogged' \cup raced'), lawfirm'[t] # Absent
             PROVE  Tells(t)' /\ Linked(t)'
  BY DEF AllTell
<1>1. ASSUME NEW a \in Administrator, LoginStep(a) PROVE Tells(t)' /\ Linked(t)'
  <2>1. lawfirm' = lawfirm /\ editor' = editor /\ raced' = raced /\ unlogged \subseteq unlogged'
        /\ (entries' = entries \/ \E x \in LoginEntry : entries' = Append(entries, x))
    BY <1>1, LoginStepIs
  <2>2. \A x \in LoginEntry : x \in Entry /\ x.firm # t
    BY DEF LoginEntry, Entry
  <2>3. \A d \in Editor : IsDue(d, t)' = IsDue(d, t)
    BY <2>1 DEF IsDue
  <2> QED
    BY <2>1, <2>2, <2>3, AllTellApart
<1>2. ASSUME NEW e \in Editor, NEW q \in Edit, FindStep(e, q) PROVE Tells(t)' /\ Linked(t)'
  <2>1. /\ editor' = [editor EXCEPT ![e] = q] /\ q.phase = "found" /\ editor[e].phase = "none" /\ DOMAIN editor = Editor
        /\ UNCHANGED <<lawfirm, entries, login, unlogged, raced>>
    BY <1>2, NoEditIs DEF FindStep, TrailTyped
  <2>2. editor'[e] = q /\ \A d \in Editor \ {e} : editor'[d] = editor[d]
    BY <2>1
  <2>3. ~IsDue(e, t) /\ ~IsDue(e, t)'
    BY <2>1, <2>2 DEF IsDue
  <2>4. \A d \in Editor : IsDue(d, t)' = IsDue(d, t) /\ (IsDue(d, t) => editor'[d] = editor[d])
    BY <2>2, <2>3 DEF IsDue
  <2> QED
    BY <2>1, <2>4, AllTellApart
<1>3. CASE UNCHANGED auditVars
  <2>1. UNCHANGED <<lawfirm, entries, editor, login, unlogged, raced>>
    BY <1>3 DEF auditVars
  <2>2. \A d \in Editor : IsDue(d, t)' = IsDue(d, t)
    BY <2>1 DEF IsDue
  <2> QED
    BY <2>1, <2>2, AllTellApart
<1> QED
  BY <1>1, <1>2, <1>3, StepsAre, AllTellCreate, AllTellSave, AllTellPublish

LEMMA TrailNext == TrailInvariant /\ [AuditNext]_auditVars => TrailInvariant'
BY TrailTypedNext, AbsentsNext, AllTellNext, ActorsNext, AfterLoginNext DEF TrailInvariant

\* The last of a set of numbers is the one the trail is read from.
LEMMA LastIs ==
  ASSUME NEW S \in SUBSET Nat, NEW i, IsLast(i, S)
  PROVE  LastOf(S) = i
<1>1. \E k \in S : \A j \in S : j <= k
  BY DEF IsLast
<1>2. LastOf(S) \in S /\ \A j \in S : j <= LastOf(S)
  BY <1>1 DEF LastOf
<1>3. i \in Nat /\ LastOf(S) \in Nat /\ i <= LastOf(S) /\ LastOf(S) <= i
  BY <1>2 DEF IsLast
<1> QED
  BY <1>3

LEMMA TrailIsTold == TrailInvariant => TrailTellsState
<1> SUFFICES ASSUME TrailInvariant PROVE TrailTellsState
  OBVIOUS
<1> USE DEF TrailInvariant
<1>1. AuditTypeOK
  <2>1. \A e \in Editor : editor[e].phase \in {"none", "found", "publish"}
    BY NoEditIs DEF TrailTyped, Edit
  <2> QED
    BY <2>1 DEF TrailTyped, AuditTypeOK
<1>2. ASSUME NEW t \in Lawfirm \ (unlogged \cup raced), lawfirm[t] # Absent,
             \A e \in Editor : editor[e].phase = "publish" => editor[e].firm # t
      PROVE  /\ lawfirm[t].title = entries[LastOf({i \in About(t) : TellsTitle(i)})].diff.title.depois
             /\ lawfirm[t].status =
                  StatusTold[entries[LastOf({i \in About(t) : entries[i].action \in DOMAIN StatusTold})].action]
             /\ Chained(t)
  <2>1. PICK row \in FirmRow : row = lawfirm[t]
    BY <1>2 DEF TrailTyped
  <2>2. TitleTold(t, row.title) /\ StatusToldIs(t, row.status) /\ Linked(t)
    BY <1>2, <2>1 DEF AllTell, Tells, TellsRow, IsDue
  <2>3. TitleEntries(t) \in SUBSET Nat /\ StatusEntries(t) \in SUBSET Nat /\ \A i : TitlesBefore(t, i) \in SUBSET Nat
    BY DEF TitleEntries, StatusEntries, TitlesBefore, About
  <2>4. row.title = entries[LastOf(TitleEntries(t))].diff.title.depois
    BY <2>2, <2>3, LastIs DEF TitleTold
  <2>5. row.status = StatusTold[entries[LastOf(StatusEntries(t))].action]
    BY <2>2, <2>3, LastIs DEF StatusToldIs
  <2>6. Chained(t)
    <3>1. SUFFICES ASSUME NEW i \in About(t), entries[i].action = "tenant.updated"
                   PROVE  entries[i].diff["title"].antes =
                            entries[LastOf({j \in About(t) : j < i /\ TellsTitle(j)})].diff.title.depois
      BY DEF Chained
    <3>2. PICK j : IsLast(j, TitlesBefore(t, i)) /\ entries[i].diff.title.antes = entries[j].diff.title.depois
      BY <2>2, <3>1 DEF Linked
    <3>3. LastOf(TitlesBefore(t, i)) = j
      BY <2>3, <3>2, LastIs
    <3>4. TitlesBefore(t, i) = {k \in About(t) : k < i /\ TellsTitle(k)}
      BY DEF TitlesBefore, TitleEntries
    <3> QED
      BY <3>2, <3>3, <3>4
  <2> QED
    BY <2>1, <2>4, <2>5, <2>6, Zenon DEF TitleEntries, StatusEntries
<1>3. ASSUME NEW i \in 1..Len(entries), entries[i].firm # Absent, entries[i].actor \notin unlogged
      PROVE  \E j \in 1..(i - 1) : entries[j].action = "login.success" /\ entries[j].actor = entries[i].actor
  BY <1>3, Zenon DEF EntriesAfterLogin, ToldIn
<1> QED
  BY <1>1, <1>2, <1>3, Zenon DEF TrailTellsState

\* The trail alone tells what every firm has come to, and no change is told of
\* whose actor was not told to have logged in, with any number of
\* administrators, firms and changes in flight.
THEOREM TrailStaysTrue == AuditSpec => []TrailTellsState
<1>1. AuditInit => TrailInvariant
  BY InitTrail
<1>2. TrailInvariant /\ [AuditNext]_auditVars => TrailInvariant'
  BY TrailNext
<1>3. TrailInvariant => TrailTellsState
  BY TrailIsTold
<1> QED
  BY <1>1, <1>2, <1>3, PTL DEF AuditSpec
=============================================================================
