----------------------------- MODULE AuditChain -----------------------------
(***************************************************************************)
(* The hash-linked audit log of app/storage/audit.py, written through      *)
(* FloodOpsService._audit.                                                 *)
(*                                                                         *)
(* append reads the last hash on one connection and inserts the row on     *)
(* another.  One process runs an append without a pause; a second process  *)
(* on the same database file can insert between the two.  _audit swallows  *)
(* every failure, so an entry that is due may never be written.            *)
(*                                                                         *)
(* SHA-256 is a function that never takes one value twice: a digest is a   *)
(* position in the list of the texts digested so far.  The text of a row   *)
(* is its payload and timestamp; the columns the hash leaves out (incident,*)
(* event type, actor) are left out here.                                   *)
(***************************************************************************)
EXTENDS Naturals, Sequences

CONSTANTS
    Processes,  \* server processes on one database file; deployed: one
    Texts,      \* what entries say: payload and timestamp
    MaxRows,    \* bound: rows of the table
    MaxEdits    \* bound: changes made to stored rows by other means

ASSUME AuditAssumption ==
    /\ MaxRows \in Nat
    /\ MaxEdits \in {0, 1}

VARIABLES
    chain,    \* the audit_chain table, in the order of its ids
    digests,  \* what each hash value is the digest of
    due,      \* volatile: processes about to append an entry
    linked,   \* volatile: appends that have read the last hash
    edits,    \* history: changes made to stored rows by other means
    raced     \* history: positions of rows another process's insert overtook

auditVars == <<chain, digests, due, linked, edits, raced>>

Genesis == 0
Hashes  == Nat

Row(text, prev, hash)      == [text |-> text, prev_hash |-> prev, hash |-> hash]
Digest(prev, text)         == [prev_hash |-> prev, text |-> text]

\* late, history: another process has inserted since.
Linked(p, text, prev, late) == [by |-> p, text |-> text, prev |-> prev, late |-> late]

Idle(p) == p \notin due /\ \A w \in linked : w.by # p

AuditTypeOK ==
    /\ chain \in Seq([text : Texts, prev_hash : Hashes, hash : Hashes])
    /\ digests \in Seq([prev_hash : Hashes, text : Texts])
    /\ due \subseteq Processes
    /\ linked \subseteq [by : Processes, text : Texts, prev : Hashes, late : BOOLEAN]
    /\ edits \in 0 .. MaxEdits
    /\ raced \subseteq Nat

AuditInit ==
    /\ chain = << >>
    /\ digests = << >>
    /\ due = {}
    /\ linked = {}
    /\ edits = 0
    /\ raced = {}

\* Mutant of LastHash: ORDER BY id without DESC.
FirstHash == IF chain = << >> THEN Genesis ELSE chain[1].hash

LastHash == IF chain = << >> THEN Genesis ELSE chain[Len(chain)].hash

-----------------------------------------------------------------------------
(* append.                                                                 *)

\* A handler has changed its tables and calls _audit.
Due(p) ==
    /\ Idle(p)
    /\ due' = due \cup {p}
    /\ UNCHANGED <<chain, digests, linked, edits, raced>>

\* The timestamp is taken, then last_hash.
Link(p, text) ==
    /\ p \in due
    /\ due' = due \ {p}
    /\ linked' = linked \cup {Linked(p, text, LastHash, FALSE)}
    /\ UNCHANGED <<chain, digests, edits, raced>>

\* h is the digest of d: a known one if d was digested before, else a new one.
Hashed(d, h) ==
    \/ h \in DOMAIN digests /\ digests[h] = d /\ digests' = digests
    \/ /\ \A k \in DOMAIN digests : digests[k] # d
       /\ h = Len(digests) + 1
       /\ digests' = Append(digests, d)

\* Appends still linked when w is inserted are late.
Overtaken(w) == {Linked(v.by, v.text, v.prev, TRUE) : v \in linked \ {w}}

\* _compute_hash and INSERT; the id is the next one.
Insert(w) ==
    /\ Len(chain) < MaxRows
    /\ \E h \in 1 .. Len(digests) + 1 :
           /\ Hashed(Digest(w.prev, w.text), h)
           /\ chain' = Append(chain, Row(w.text, w.prev, h))
    /\ raced' = IF w.late THEN raced \cup {Len(chain) + 1} ELSE raced
    /\ linked' = Overtaken(w)
    /\ UNCHANGED <<due, edits>>

\* The append fails and _audit swallows it, or the process dies.
Lose(p) ==
    /\ ~ Idle(p)
    /\ due' = due \ {p}
    /\ linked' = {w \in linked : w.by # p}
    /\ UNCHANGED <<chain, digests, edits, raced>>

-----------------------------------------------------------------------------
(* Changes by other means than append, which verify_chain is there to      *)
(* report: one column of one stored row, or a row that has a successor.    *)

Edit(k) ==
    /\ edits < MaxEdits
    /\ k \in DOMAIN chain
    /\ \E row \in {Row(t, chain[k].prev_hash, chain[k].hash) : t \in Texts}
              \cup {Row(chain[k].text, h, chain[k].hash) : h \in 0 .. Len(digests)}
              \cup {Row(chain[k].text, chain[k].prev_hash, h) : h \in 0 .. Len(digests)} :
           /\ row # chain[k]
           /\ chain' = [chain EXCEPT ![k] = row]
    /\ edits' = edits + 1
    /\ UNCHANGED <<digests, due, linked, raced>>

Without(k) == [j \in 1 .. Len(chain) - 1 |-> IF j < k THEN chain[j] ELSE chain[j + 1]]

Remove(k) ==
    /\ edits < MaxEdits
    /\ k \in 1 .. Len(chain) - 1
    /\ chain' = Without(k)
    /\ edits' = edits + 1
    /\ UNCHANGED <<digests, due, linked, raced>>

Appending ==
    \/ \E p \in Processes : Lose(p) \/ \E t \in Texts : Link(p, t)
    \/ \E w \in linked : Insert(w)

Tamper == \E k \in DOMAIN chain : Edit(k) \/ Remove(k)

AuditNext == (\E p \in Processes : Due(p)) \/ Appending \/ Tamper

AuditSpec == AuditInit /\ [][AuditNext]_auditVars

-----------------------------------------------------------------------------
(* verify_chain.                                                           *)

\* The hash the walk carries to row k: that of the row before, as stored.
Carried(k) == IF k = 1 THEN Genesis ELSE chain[k - 1].hash

\* The stored hash is the digest of the row's own previous hash and text.
Recomputes(k) ==
    /\ chain[k].hash \in DOMAIN digests
    /\ digests[chain[k].hash] = Digest(chain[k].prev_hash, chain[k].text)

\* Mutant of BadHashes: only the newest row is recomputed.
BadNewest == {k \in DOMAIN chain : k = Len(chain) /\ ~ Recomputes(k)}

BadLinks  == {k \in DOMAIN chain : chain[k].prev_hash # Carried(k)}
BadHashes == {k \in DOMAIN chain : ~ Recomputes(k)}

Verified == BadLinks = {} /\ BadHashes = {}

-----------------------------------------------------------------------------
(* Safety.                                                                 *)

\* A chain nobody changed is reported broken only at rows that another
\* process's insert overtook, and there only for their link: with one process
\* it always verifies, whatever appends fail (audit.py:64-88).
AlarmsNeedARace ==
    edits = 0 => BadHashes = {} /\ BadLinks \subseteq raced

\* In a chain that no race has forked, a changed row, or one taken out from
\* between two others, is reported for ever, whatever is appended later
\* (docs/SPOKEN_SYSTEM_GUIDE.md:128).  The guard is needed: with one branch of a
\* fork taken out, the other one verifies.  A row taken off the end is not
\* reported: nothing after it names its hash.
EditIsReported ==
    edits > 0 /\ raced = {} => ~ Verified
=============================================================================
