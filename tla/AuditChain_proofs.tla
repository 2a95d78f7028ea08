-------------------------- MODULE AuditChain_proofs --------------------------
(***************************************************************************)
(* Theorems about AuditChain, for any number of processes, texts and rows. *)
(***************************************************************************)
EXTENDS AuditChain, TLAPS

\* The digests are pairwise different, and each was computed from a previous
\* hash that was there before it.
DigestsInOrder ==
    /\ \A h \in DOMAIN digests : digests[h].prev_hash < h
    /\ \A h, k \in DOMAIN digests : digests[h] = digests[k] => h = k

\* Every hash that is stored or about to be was computed or is the first.
HashesKnown ==
    /\ \A k \in DOMAIN chain :
           chain[k].hash \in 0 .. Len(digests) /\ chain[k].prev_hash \in 0 .. Len(digests)
    /\ \A w \in linked : w.prev \in 0 .. Len(digests)

\* Until a row is changed, an append that is not late continues the chain.
InTimeContinues ==
    edits = 0 => \A w \in linked : ~ w.late => w.prev = LastHash

AuditInv ==
    /\ AuditTypeOK
    /\ DigestsInOrder
    /\ HashesKnown
    /\ InTimeContinues
    /\ AlarmsNeedARace
    /\ EditIsReported

\* What appending a row to a table does.
LEMMA TableFacts ==
    ASSUME NEW S, NEW s \in Seq(S)
    PROVE  /\ Len(s) \in Nat
           /\ DOMAIN s = 1 .. Len(s)
           /\ \A k \in DOMAIN s : s[k] \in S
           /\ s = << >> <=> Len(s) = 0
           /\ \A x \in S :
                  /\ Append(s, x) \in Seq(S)
                  /\ Append(s, x) # << >>
                  /\ Len(Append(s, x)) = Len(s) + 1
                  /\ DOMAIN Append(s, x) = (DOMAIN s) \cup {Len(s) + 1}
                  /\ \A k \in DOMAIN s : Append(s, x)[k] = s[k]
                  /\ Append(s, x)[Len(s) + 1] = x
  OBVIOUS

\* A function on 1 .. n is a sequence.
LEMMA FunctionIsSequence ==
    ASSUME NEW S, NEW n \in Nat, NEW f \in [1 .. n -> S]
    PROVE  f \in Seq(S)
  OBVIOUS

\* The fields of a row.
LEMMA RowFields ==
    /\ \A t, p, h : /\ Row(t, p, h).text = t
                    /\ Row(t, p, h).prev_hash = p
                    /\ Row(t, p, h).hash = h
    /\ \A t \in Texts, p \in Nat, h \in Nat :
           Row(t, p, h) \in [text : Texts, prev_hash : Hashes, hash : Hashes]
    /\ \A p, t : Digest(p, t).prev_hash = p /\ Digest(p, t).text = t
    /\ \A t \in Texts, p \in Nat : Digest(p, t) \in [prev_hash : Hashes, text : Texts]
  BY DEF Row, Digest, Hashes

\* The tables of a well typed state.
LEMMA Tables ==
    ASSUME AuditTypeOK
    PROVE  /\ Len(chain) \in Nat /\ DOMAIN chain = 1 .. Len(chain)
           /\ Len(digests) \in Nat /\ DOMAIN digests = 1 .. Len(digests)
           /\ \A k \in DOMAIN chain :
                  /\ k \in Nat
                  /\ chain[k] \in [text : Texts, prev_hash : Hashes, hash : Hashes]
                  /\ chain[k].text \in Texts /\ chain[k].prev_hash \in Nat /\ chain[k].hash \in Nat
                  /\ chain[k] = Row(chain[k].text, chain[k].prev_hash, chain[k].hash)
           /\ \A h \in DOMAIN digests : h \in Nat /\ digests[h].prev_hash \in Nat
           /\ chain = << >> <=> Len(chain) = 0
<1>1. /\ Len(chain) \in Nat /\ DOMAIN chain = 1 .. Len(chain)
      /\ \A k \in DOMAIN chain : chain[k] \in [text : Texts, prev_hash : Hashes, hash : Hashes]
      /\ chain = << >> <=> Len(chain) = 0
  BY TableFacts DEF AuditTypeOK
<1>2. /\ Len(digests) \in Nat /\ DOMAIN digests = 1 .. Len(digests)
      /\ \A h \in DOMAIN digests : digests[h] \in [prev_hash : Hashes, text : Texts]
  BY TableFacts DEF AuditTypeOK
<1>3. \A x \in [text : Texts, prev_hash : Hashes, hash : Hashes] :
          /\ x.text \in Texts /\ x.prev_hash \in Nat /\ x.hash \in Nat
          /\ x = Row(x.text, x.prev_hash, x.hash)
  BY DEF Hashes, Row
<1>4. \A x \in [prev_hash : Hashes, text : Texts] : x.prev_hash \in Nat
  BY DEF Hashes
<1> QED
  BY <1>1, <1>2, <1>3, <1>4

\* The last hash was computed or is the first.
LEMMA LastHashKnown ==
    ASSUME AuditTypeOK, HashesKnown
    PROVE  LastHash \in 0 .. Len(digests)
<1>1. CASE chain = << >>
  BY <1>1, Tables DEF LastHash, Genesis
<1>2. CASE chain # << >>
  <2>1. Len(chain) \in DOMAIN chain
    BY <1>2, Tables
  <2> QED
    BY <1>2, <2>1 DEF LastHash, HashesKnown
<1> QED
  BY <1>1, <1>2

\* What computing a hash does to the list of digests.
LEMMA HashedFacts ==
    ASSUME AuditTypeOK, DigestsInOrder, NEW prev \in 0 .. Len(digests), NEW text \in Texts,
           NEW h \in Nat, Hashed(Digest(prev, text), h)
    PROVE  /\ digests' \in Seq([prev_hash : Hashes, text : Texts])
           /\ DigestsInOrder'
           /\ Len(digests') \in Nat /\ Len(digests) <= Len(digests')
           /\ DOMAIN digests' = 1 .. Len(digests')
           /\ \A k \in DOMAIN digests : k \in DOMAIN digests' /\ digests'[k] = digests[k]
           /\ h \in DOMAIN digests' /\ digests'[h] = Digest(prev, text)
<1> DEFINE d == Digest(prev, text)
<1>0. prev \in Nat /\ digests \in Seq([prev_hash : Hashes, text : Texts])
  BY Tables DEF AuditTypeOK
<1>1. d \in [prev_hash : Hashes, text : Texts] /\ d.prev_hash = prev
  BY <1>0, RowFields
<1> HIDE DEF d
<1>2. CASE h \in DOMAIN digests /\ digests[h] = d /\ digests' = digests
  BY <1>0, <1>2, Tables DEF d, DigestsInOrder
<1>3. CASE /\ \A k \in DOMAIN digests : digests[k] # d
           /\ h = Len(digests) + 1
           /\ digests' = Append(digests, d)
  <2>1. /\ digests' \in Seq([prev_hash : Hashes, text : Texts])
        /\ Len(digests') = Len(digests) + 1
        /\ DOMAIN digests' = (DOMAIN digests) \cup {h}
        /\ \A k \in DOMAIN digests : digests'[k] = digests[k]
        /\ digests'[h] = d
    BY <1>0, <1>1, <1>3, TableFacts
  <2>2. Len(digests) \in Nat /\ DOMAIN digests = 1 .. Len(digests)
    BY Tables
  <2>3. d.prev_hash < h
    BY <1>1, <1>3, <2>2
  <2>5. DOMAIN digests' = 1 .. Len(digests') /\ Len(digests') \in Nat
    BY <2>1, <2>2, TableFacts
  <2>4. DigestsInOrder'
    BY <1>3, <2>1, <2>2, <2>3 DEF DigestsInOrder
  <2> QED
    <3>1. digests'[h] = Digest(prev, text) /\ h \in DOMAIN digests'
      BY <2>1 DEF d
    <3>2. Len(digests) <= Len(digests')
      BY <2>1, <2>2
    <3> QED
      BY <2>1, <2>4, <2>5, <3>1, <3>2
<1> QED
  BY <1>2, <1>3 DEF Hashed, d

\* An append adds a row in order, and the rows before it stay what they were.
LEMMA InsertStep ==
    ASSUME AuditInv, NEW w \in linked, Insert(w)
    PROVE  AuditInv'
<1>0. PICK n \in Nat : n = Len(chain) + 1
  BY Tables DEF AuditInv
<1>1. /\ w.by \in Processes /\ w.text \in Texts /\ w.prev \in Nat /\ w.late \in BOOLEAN
      /\ w.prev \in 0 .. Len(digests)
  BY DEF AuditInv, AuditTypeOK, HashesKnown, Hashes
<1>2. PICK h \in 1 .. Len(digests) + 1 :
          /\ Hashed(Digest(w.prev, w.text), h)
          /\ chain' = Append(chain, Row(w.text, w.prev, h))
  BY DEF Insert
<1>3. h \in Nat
  BY <1>2
<1>4. /\ digests' \in Seq([prev_hash : Hashes, text : Texts])
      /\ DigestsInOrder'
      /\ Len(digests') \in Nat /\ Len(digests) <= Len(digests')
      /\ DOMAIN digests' = 1 .. Len(digests')
      /\ \A k \in DOMAIN digests : k \in DOMAIN digests' /\ digests'[k] = digests[k]
      /\ h \in DOMAIN digests' /\ digests'[h] = Digest(w.prev, w.text)
  BY <1>1, <1>2, <1>3, HashedFacts DEF AuditInv
<1>5. /\ Len(chain) \in Nat /\ DOMAIN chain = 1 .. Len(chain)
      /\ Len(digests) \in Nat /\ DOMAIN digests = 1 .. Len(digests)
      /\ chain = << >> <=> Len(chain) = 0
      /\ \A k \in DOMAIN chain :
             k \in Nat /\ chain[k].prev_hash \in Nat /\ chain[k].hash \in 0 .. Len(digests)
             /\ chain[k].prev_hash \in 0 .. Len(digests)
  BY Tables DEF AuditInv, HashesKnown
<1>6. /\ chain' \in Seq([text : Texts, prev_hash : Hashes, hash : Hashes])
      /\ chain' # << >> /\ Len(chain') = n
      /\ DOMAIN chain' = (DOMAIN chain) \cup {n}
      /\ \A k \in DOMAIN chain : chain'[k] = chain[k]
      /\ chain'[n] = Row(w.text, w.prev, h)
  <2>1. Row(w.text, w.prev, h) \in [text : Texts, prev_hash : Hashes, hash : Hashes]
    BY <1>1, <1>3, RowFields
  <2>2. chain \in Seq([text : Texts, prev_hash : Hashes, hash : Hashes])
    BY DEF AuditInv, AuditTypeOK
  <2> QED
    BY <1>0, <1>2, <2>1, <2>2, TableFacts
<1>7. /\ chain'[n].text = w.text /\ chain'[n].prev_hash = w.prev /\ chain'[n].hash = h
  BY <1>6, RowFields
<1>8. \A v \in linked' : \E u \in linked : v = Linked(u.by, u.text, u.prev, TRUE)
  BY DEF Insert, Overtaken
<1>9. \A u \in linked : Linked(u.by, u.text, u.prev, TRUE) \in
          [by : Processes, text : Texts, prev : Hashes, late : BOOLEAN]
  BY DEF Linked, AuditInv, AuditTypeOK
<1>10. AuditTypeOK'
  <2>1. linked' \subseteq [by : Processes, text : Texts, prev : Hashes, late : BOOLEAN]
    BY <1>8, <1>9
  <2>2. raced' \subseteq Nat
    <3>1. raced' = raced \/ raced' = raced \cup {n}
      BY <1>0 DEF Insert
    <3>2. raced \subseteq Nat
      BY DEF AuditInv, AuditTypeOK
    <3> QED
      BY <1>0, <3>1, <3>2
  <2> QED
    BY <1>4, <1>6, <2>1, <2>2 DEF Insert, AuditInv, AuditTypeOK
<1>11. HashesKnown'
  <2>1. \A k \in DOMAIN chain' :
            chain'[k].hash \in 0 .. Len(digests') /\ chain'[k].prev_hash \in 0 .. Len(digests')
    BY <1>1, <1>3, <1>4, <1>5, <1>6, <1>7
  <2>2. \A v \in linked' : v.prev \in 0 .. Len(digests')
    <3> TAKE v \in linked'
    <3> PICK u \in linked : v = Linked(u.by, u.text, u.prev, TRUE)
      BY <1>8
    <3>1. v.prev = u.prev
      BY DEF Linked
    <3>2. u.prev \in 0 .. Len(digests)
      BY DEF AuditInv, HashesKnown
    <3>3. Len(digests) \in Nat /\ Len(digests') \in Nat /\ Len(digests) <= Len(digests')
      BY <1>4, <1>5
    <3>4. u.prev \in 0 .. Len(digests')
      BY <3>2, <3>3
    <3> QED
      BY <3>1, <3>4
  <2> QED
    BY <2>1, <2>2 DEF HashesKnown
<1>12. InTimeContinues'
  <2>1. \A v \in linked' : v.late = TRUE
    BY <1>8 DEF Linked
  <2> QED
    BY <2>1 DEF InTimeContinues
<1>13. \A k \in DOMAIN chain : Carried(k)' = Carried(k) /\ (Recomputes(k)' <=> Recomputes(k))
  <2> TAKE k \in DOMAIN chain
  <2>1. Carried(k)' = Carried(k)
    <3>1. CASE k = 1
      BY <3>1 DEF Carried
    <3>2. CASE k # 1
      <4>1. k - 1 \in DOMAIN chain
        BY <1>5, <3>2
      <4> QED
        BY <1>6, <3>2, <4>1 DEF Carried
    <3> QED
      BY <3>1, <3>2
  <2>2. Recomputes(k)' <=> Recomputes(k)
    <3>1. chain'[k] = chain[k]
      BY <1>6
    <3>2. chain[k].hash \in DOMAIN digests' <=> chain[k].hash \in DOMAIN digests
      BY <1>4, <1>5
    <3> QED
      BY <1>4, <3>1, <3>2 DEF Recomputes
  <2> QED
    BY <2>1, <2>2
<1>14. Recomputes(n)'
  BY <1>4, <1>7 DEF Recomputes
<1>15. Carried(n)' = LastHash
  <2>1. CASE chain = << >>
    BY <1>0, <1>5, <2>1 DEF Carried, LastHash
  <2>2. CASE chain # << >>
    <3>1. n # 1 /\ n - 1 = Len(chain) /\ Len(chain) \in DOMAIN chain
      BY <1>0, <1>5, <2>2
    <3> QED
      BY <1>6, <2>2, <3>1 DEF Carried, LastHash
  <2> QED
    BY <2>1, <2>2
<1>16. edits' = edits /\ raced \subseteq raced' /\ (w.late => n \in raced')
  BY <1>0 DEF Insert
<1>17. AlarmsNeedARace'
  <2> SUFFICES ASSUME edits = 0
               PROVE  BadHashes' = {} /\ BadLinks' \subseteq raced'
    BY <1>16 DEF AlarmsNeedARace
  <2>1. BadHashes = {} /\ BadLinks \subseteq raced
    BY DEF AuditInv, AlarmsNeedARace
  <2>2. \A k \in DOMAIN chain' : Recomputes(k)'
    BY <1>6, <1>13, <1>14, <2>1 DEF BadHashes
  <2>3. \A k \in DOMAIN chain' : chain'[k].prev_hash # Carried(k)' => k \in raced'
    <3> SUFFICES ASSUME NEW k \in DOMAIN chain', chain'[k].prev_hash # Carried(k)'
                 PROVE  k \in raced'
      OBVIOUS
    <3>1. CASE k \in DOMAIN chain
      BY <1>6, <1>13, <1>16, <2>1, <3>1 DEF BadLinks
    <3>2. CASE k = n
      <4>1. ~ w.late => w.prev = LastHash
        BY DEF AuditInv, InTimeContinues
      <4> QED
        BY <1>7, <1>15, <1>16, <3>2, <4>1
    <3> QED
      BY <1>6, <3>1, <3>2
  <2> QED
    BY <2>2, <2>3 DEF BadHashes, BadLinks
<1>18. EditIsReported'
  <2> SUFFICES ASSUME edits > 0, raced' = {}
               PROVE  ~ Verified'
    BY <1>16 DEF EditIsReported
  <2>1. ~ Verified
    BY <1>16 DEF AuditInv, EditIsReported
  <2>2. PICK k \in DOMAIN chain : chain[k].prev_hash # Carried(k) \/ ~ Recomputes(k)
    BY <2>1 DEF Verified, BadLinks, BadHashes
  <2>3. k \in DOMAIN chain' /\ (chain'[k].prev_hash # Carried(k)' \/ ~ Recomputes(k)')
    BY <1>6, <1>13, <2>2
  <2> QED
    BY <2>3 DEF Verified, BadLinks, BadHashes
<1> QED
  BY <1>4, <1>10, <1>11, <1>12, <1>17, <1>18 DEF AuditInv

\* Steps that touch neither rows nor digests.
LEMMA QuietAuditStep ==
    ASSUME AuditInv, UNCHANGED <<chain, digests, edits, raced>>,
           due' \subseteq Processes,
           linked' \subseteq [by : Processes, text : Texts, prev : Hashes, late : BOOLEAN],
           \A w \in linked' : w \in linked \/ w.prev = LastHash
    PROVE  AuditInv'
<1>1. AuditTypeOK' /\ DigestsInOrder' /\ AlarmsNeedARace' /\ EditIsReported'
  BY DEF AuditInv, AuditTypeOK, DigestsInOrder, AlarmsNeedARace, EditIsReported,
         Verified, BadLinks, BadHashes, Carried, Recomputes
<1>2. LastHash \in 0 .. Len(digests) /\ LastHash' = LastHash
  BY LastHashKnown DEF AuditInv, LastHash
<1>3. HashesKnown' /\ InTimeContinues'
  BY <1>2 DEF AuditInv, HashesKnown, InTimeContinues
<1> QED
  BY <1>1, <1>3 DEF AuditInv

\* A changed row no longer recomputes.
LEMMA EditStep ==
    ASSUME AuditInv, NEW k \in DOMAIN chain, Edit(k)
    PROVE  AuditInv'
<1>1. edits = 0 /\ edits' = 1 /\ edits' \in 0 .. MaxEdits
  BY AuditAssumption DEF Edit, AuditInv, AuditTypeOK
<1>2. PICK row \in {Row(t, chain[k].prev_hash, chain[k].hash) : t \in Texts}
                   \cup {Row(chain[k].text, h, chain[k].hash) : h \in 0 .. Len(digests)}
                   \cup {Row(chain[k].text, chain[k].prev_hash, h) : h \in 0 .. Len(digests)} :
          row # chain[k] /\ chain' = [chain EXCEPT ![k] = row]
  BY DEF Edit
<1>3. /\ Len(chain) \in Nat /\ DOMAIN chain = 1 .. Len(chain)
      /\ Len(digests) \in Nat /\ DOMAIN digests = 1 .. Len(digests)
      /\ chain[k].text \in Texts
      /\ chain[k].prev_hash \in 0 .. Len(digests) /\ chain[k].hash \in 0 .. Len(digests)
      /\ chain[k] = Row(chain[k].text, chain[k].prev_hash, chain[k].hash)
  BY Tables DEF AuditInv, HashesKnown
<1>4. PICK t \in Texts, p \in 0 .. Len(digests), h \in 0 .. Len(digests) :
          /\ row = Row(t, p, h)
          /\ h = chain[k].hash \/ (t = chain[k].text /\ p = chain[k].prev_hash)
  <2>1. CASE row \in {Row(t, chain[k].prev_hash, chain[k].hash) : t \in Texts}
    BY <1>3, <2>1
  <2>2. CASE row \in {Row(chain[k].text, h, chain[k].hash) : h \in 0 .. Len(digests)}
    <3>1. PICK g \in 0 .. Len(digests) : row = Row(chain[k].text, g, chain[k].hash)
      BY <2>2
    <3>2. chain[k].text \in Texts /\ chain[k].hash \in 0 .. Len(digests)
      BY <1>3
    <3> QED
      BY <3>1, <3>2
  <2>3. CASE row \in {Row(chain[k].text, chain[k].prev_hash, h) : h \in 0 .. Len(digests)}
    <3>1. PICK h \in 0 .. Len(digests) : row = Row(chain[k].text, chain[k].prev_hash, h)
      BY <2>3
    <3> QED
      BY <1>3, <3>1
  <2> QED
    BY <1>2, <2>1, <2>2, <2>3
<1>5. /\ row \in [text : Texts, prev_hash : Hashes, hash : Hashes]
      /\ row.text = t /\ row.prev_hash = p /\ row.hash = h
  BY <1>3, <1>4, RowFields
<1>6. DOMAIN chain' = DOMAIN chain /\ chain'[k] = row
      /\ \A j \in DOMAIN chain : j # k => chain'[j] = chain[j]
  BY <1>2
<1>7. chain' \in Seq([text : Texts, prev_hash : Hashes, hash : Hashes])
  <2>1. \A j \in DOMAIN chain : chain'[j] \in [text : Texts, prev_hash : Hashes, hash : Hashes]
    BY <1>5, <1>6, Tables DEF AuditInv
  <2>2. chain' \in [1 .. Len(chain) -> [text : Texts, prev_hash : Hashes, hash : Hashes]]
    BY <1>2, <1>3, <1>6, <2>1
  <2> QED
    BY <1>3, <2>2, FunctionIsSequence
<1>8. UNCHANGED <<digests, due, linked, raced>>
  BY DEF Edit
<1>9. AuditTypeOK' /\ DigestsInOrder' /\ InTimeContinues' /\ AlarmsNeedARace'
  BY <1>1, <1>7, <1>8 DEF AuditInv, AuditTypeOK, DigestsInOrder, InTimeContinues, AlarmsNeedARace
<1>10. HashesKnown'
  BY <1>3, <1>4, <1>5, <1>6, <1>8 DEF AuditInv, HashesKnown
<1>11. EditIsReported'
  <2>1. Recomputes(k)
    BY <1>1 DEF AuditInv, AlarmsNeedARace, BadHashes
  <2>2. ASSUME Recomputes(k)' PROVE FALSE
    <3>1. h \in DOMAIN digests /\ digests[h] = Digest(p, t)
      BY <1>5, <1>6, <1>8, <2>2 DEF Recomputes
    <3>2. /\ chain[k].hash \in DOMAIN digests
          /\ digests[chain[k].hash] = Digest(chain[k].prev_hash, chain[k].text)
      BY <2>1 DEF Recomputes
    <3>3. CASE h = chain[k].hash
      <4>1. p = chain[k].prev_hash /\ t = chain[k].text
        BY <3>1, <3>2, <3>3, RowFields
      <4> QED
        BY <1>2, <1>3, <1>4, <3>3, <4>1
    <3>4. CASE t = chain[k].text /\ p = chain[k].prev_hash
      <4>1. h = chain[k].hash
        BY <3>1, <3>2, <3>4 DEF AuditInv, DigestsInOrder
      <4> QED
        BY <1>2, <1>3, <1>4, <3>4, <4>1
    <3> QED
      BY <1>4, <3>3, <3>4
  <2> QED
    BY <1>6, <2>2 DEF EditIsReported, Verified, BadHashes
<1> QED
  BY <1>9, <1>10, <1>11 DEF AuditInv

\* The row after one that was taken out no longer links.
LEMMA RemoveStep ==
    ASSUME AuditInv, NEW k \in DOMAIN chain, Remove(k)
    PROVE  AuditInv'
<1>1. edits = 0 /\ edits' = 1 /\ edits' \in 0 .. MaxEdits
  BY AuditAssumption DEF Remove, AuditInv, AuditTypeOK
<1>2. /\ Len(chain) \in Nat /\ DOMAIN chain = 1 .. Len(chain)
      /\ Len(digests) \in Nat /\ DOMAIN digests = 1 .. Len(digests)
      /\ k \in Nat /\ k \in 1 .. Len(chain) - 1
  BY Tables DEF AuditInv, Remove
<1>3. /\ DOMAIN chain' = 1 .. Len(chain) - 1
      /\ \A j \in 1 .. Len(chain) - 1 : chain'[j] = IF j < k THEN chain[j] ELSE chain[j + 1]
  BY DEF Remove, Without
<1>4. \A j \in 1 .. Len(chain) - 1 : \E i \in DOMAIN chain : chain'[j] = chain[i]
  <2> TAKE j \in 1 .. Len(chain) - 1
  <2>1. j \in DOMAIN chain /\ j + 1 \in DOMAIN chain
    BY <1>2
  <2> QED
    BY <1>3, <2>1
<1>5. chain' \in Seq([text : Texts, prev_hash : Hashes, hash : Hashes])
  <2>1. \A j \in 1 .. Len(chain) - 1 :
            chain'[j] \in [text : Texts, prev_hash : Hashes, hash : Hashes]
    BY <1>4, Tables DEF AuditInv
  <2>2. chain' = [j \in 1 .. Len(chain) - 1 |-> IF j < k THEN chain[j] ELSE chain[j + 1]]
    BY DEF Remove, Without
  <2>3. chain' \in [1 .. Len(chain) - 1 -> [text : Texts, prev_hash : Hashes, hash : Hashes]]
    BY <2>1, <2>2
  <2>4. Len(chain) - 1 \in Nat
    BY <1>2
  <2> QED
    BY <2>3, <2>4, FunctionIsSequence
<1>6. UNCHANGED <<digests, due, linked, raced>>
  BY DEF Remove
<1>7. AuditTypeOK' /\ DigestsInOrder' /\ InTimeContinues' /\ AlarmsNeedARace'
  BY <1>1, <1>5, <1>6 DEF AuditInv, AuditTypeOK, DigestsInOrder, InTimeContinues, AlarmsNeedARace
<1>8. HashesKnown'
  BY <1>3, <1>4, <1>6 DEF AuditInv, HashesKnown
<1>9. EditIsReported'
  <2> SUFFICES ASSUME raced = {} PROVE k \in BadLinks'
    BY <1>6 DEF EditIsReported, Verified
  <2>1. BadLinks = {} /\ BadHashes = {}
    BY <1>1 DEF AuditInv, AlarmsNeedARace
  <2>2. k \in DOMAIN chain /\ k + 1 \in DOMAIN chain /\ k + 1 # 1 /\ (k + 1) - 1 = k
    BY <1>2
  <2>3. chain[k + 1].prev_hash = chain[k].hash
    BY <2>1, <2>2 DEF BadLinks, Carried
  <2>4. Recomputes(k)
    BY <2>1, <2>2 DEF BadHashes
  <2>5. chain[k].hash \in DOMAIN digests /\ digests[chain[k].hash].prev_hash = chain[k].prev_hash
    BY <2>4, RowFields DEF Recomputes
  <2>6. chain[k].prev_hash < chain[k].hash
    BY <2>5 DEF AuditInv, DigestsInOrder
  <2>7. chain[k].prev_hash \in Nat /\ chain[k].hash \in Nat
    BY <2>2, Tables DEF AuditInv
  <2>8. chain[k].prev_hash = Carried(k)
    BY <2>1, <2>2 DEF BadLinks
  <2>9. Carried(k)' = Carried(k)
    <3>1. CASE k = 1
      BY <3>1 DEF Carried
    <3>2. CASE k # 1
      <4>1. k - 1 \in 1 .. Len(chain) - 1 /\ k - 1 < k
        BY <1>2, <3>2
      <4> QED
        BY <1>3, <3>2, <4>1 DEF Carried
    <3> QED
      BY <3>1, <3>2
  <2>10. chain'[k] = chain[k + 1]
    BY <1>2, <1>3
  <2>11. chain'[k].prev_hash # Carried(k)'
    BY <2>3, <2>6, <2>7, <2>8, <2>9, <2>10
  <2> QED
    BY <1>2, <1>3, <2>11 DEF BadLinks
<1> QED
  BY <1>7, <1>8, <1>9 DEF AuditInv

\* The empty log satisfies the invariant.
THEOREM InitAudit == AuditInit => AuditInv
<1> SUFFICES ASSUME AuditInit PROVE AuditInv
  OBVIOUS
<1>1. AuditTypeOK
  BY AuditAssumption DEF AuditInit, AuditTypeOK
<1>2. DOMAIN chain = {} /\ DOMAIN digests = {} /\ edits = 0 /\ linked = {}
  BY DEF AuditInit
<1> QED
  BY <1>1, <1>2 DEF AuditInv, DigestsInOrder, HashesKnown, InTimeContinues, AlarmsNeedARace,
                    EditIsReported, BadHashes, BadLinks

\* Every step of appends and of changes by other means keeps the invariant.
THEOREM NextAudit == AuditInv /\ [AuditNext]_auditVars => AuditInv'
<1> SUFFICES ASSUME AuditInv, [AuditNext]_auditVars PROVE AuditInv'
  OBVIOUS
<1>1. CASE \E p \in Processes : Due(p)
  BY <1>1, QuietAuditStep DEF Due, AuditInv, AuditTypeOK
<1>2. CASE \E p \in Processes : Lose(p)
  BY <1>2, QuietAuditStep DEF Lose, AuditInv, AuditTypeOK
<1>3. CASE \E p \in Processes, t \in Texts : Link(p, t)
  <2> PICK p \in Processes, t \in Texts : Link(p, t)
    BY <1>3
  <2>1. LastHash \in Nat
    BY LastHashKnown, Tables DEF AuditInv
  <2>2. /\ Linked(p, t, LastHash, FALSE) \in
               [by : Processes, text : Texts, prev : Hashes, late : BOOLEAN]
        /\ Linked(p, t, LastHash, FALSE).prev = LastHash
    BY <2>1 DEF Linked, Hashes
  <2>3. linked' = linked \cup {Linked(p, t, LastHash, FALSE)}
    BY DEF Link
  <2>4. /\ UNCHANGED <<chain, digests, edits, raced>>
        /\ due' \subseteq Processes
    BY DEF Link, AuditInv, AuditTypeOK
  <2>5. linked' \subseteq [by : Processes, text : Texts, prev : Hashes, late : BOOLEAN]
    BY <2>2, <2>3 DEF AuditInv, AuditTypeOK
  <2> QED
    BY <2>2, <2>3, <2>4, <2>5, QuietAuditStep
<1>4. CASE \E w \in linked : Insert(w)
  BY <1>4, InsertStep
<1>5. CASE Tamper
  BY <1>5, EditStep, RemoveStep DEF Tamper
<1>6. CASE UNCHANGED auditVars
  BY <1>6, QuietAuditStep DEF auditVars, AuditInv, AuditTypeOK
<1> QED
  BY <1>1, <1>2, <1>3, <1>4, <1>5, <1>6 DEF AuditNext, Appending

\* The invariant holds in every reachable state of the log.
THEOREM AuditInvariant == AuditSpec => []AuditInv
  BY InitAudit, NextAudit, PTL DEF AuditSpec

\* A log nobody changed is reported broken only at rows that were overtaken.
THEOREM AuditAlarms == AuditSpec => []AlarmsNeedARace
<1>1. AuditInv => AlarmsNeedARace
  BY DEF AuditInv
<1> QED
  BY <1>1, AuditInvariant, PTL

\* A change of a stored row of an unforked chain is reported for ever.
THEOREM AuditEdits == AuditSpec => []EditIsReported
<1>1. AuditInv => EditIsReported
  BY DEF AuditInv
<1> QED
  BY <1>1, AuditInvariant, PTL
=============================================================================
