--------------------------- MODULE Learning_proofs ---------------------------
(***************************************************************************)
(* Theorems about Learning, for any number of incidents, requests,         *)
(* assessments and feedback rows.                                          *)
(***************************************************************************)
EXTENDS Learning, TLAPS

\* What a request holds: a row of the table, its own, from which no rule has
\* been made while the model is being asked.
RowsInHand ==
    \A r \in Requests :
        Busy(r) =>
            /\ request[r].row \in DOMAIN feedback
            /\ \A q \in Requests : Busy(q) /\ request[q].row = request[r].row => q = r
            /\ request[r].stage = "reflecting"
                   => \A m \in DOMAIN memories : memories[m].origin # request[r].row

\* An incident with rules has a latest one.
HasLatest ==
    \A i \in Incidents :
        RulesOf(i) # {} => \E m \in RulesOf(i) : \A k \in RulesOf(i) : k <= m

LearningInv ==
    /\ TypeOK
    /\ RowsInHand
    /\ HasLatest
    /\ VersionsCount
    /\ RuleHasItsFeedback
    /\ MissingIsReported

\* What appending a row to a table does.
LEMMA AppendFacts ==
    ASSUME NEW S, NEW s \in Seq(S), NEW x \in S
    PROVE  /\ Append(s, x) \in Seq(S)
           /\ Len(s) \in Nat
           /\ DOMAIN s = 1 .. Len(s)
           /\ Len(s) + 1 \notin DOMAIN s
           /\ DOMAIN Append(s, x) = (DOMAIN s) \cup {Len(s) + 1}
           /\ \A k \in DOMAIN s : Append(s, x)[k] = s[k] /\ k < Len(s) + 1 /\ k \in Nat
           /\ Append(s, x)[Len(s) + 1] = x
  OBVIOUS

\* The fields of a rule, and of a rule that is retired.
LEMMA RuleFields ==
    ASSUME NEW x \in Rule
    PROVE  /\ x.source \in Incidents /\ x.version \in Nat \ {0} /\ x.origin \in Nat
           /\ [x EXCEPT !.active = FALSE] \in Rule
           /\ [x EXCEPT !.active = FALSE].source = x.source
           /\ [x EXCEPT !.active = FALSE].version = x.version
           /\ [x EXCEPT !.active = FALSE].origin = x.origin
           /\ [x EXCEPT !.active = FALSE].active = FALSE
  BY DEF Rule

\* The rows of the memories table.
LEMMA RowFacts ==
    ASSUME TypeOK
    PROVE  /\ Len(memories) \in Nat
           /\ DOMAIN memories = 1 .. Len(memories)
           /\ memories \in [1 .. Len(memories) -> Rule]
           /\ \A m \in DOMAIN memories :
                  /\ m \in Nat
                  /\ memories[m] \in Rule
                  /\ memories[m].source \in Incidents
                  /\ memories[m].version \in Nat \ {0}
                  /\ memories[m].origin \in Nat
<1>1. memories \in Seq(Rule)
  BY DEF TypeOK
<1>2. /\ Len(memories) \in Nat
      /\ DOMAIN memories = 1 .. Len(memories)
      /\ memories \in [1 .. Len(memories) -> Rule]
  BY <1>1
<1>3. \A m \in DOMAIN memories : m \in Nat /\ memories[m] \in Rule
  BY <1>2
<1> QED
  BY <1>2, <1>3, RuleFields

\* The number given to a new rule is one above the incident's rules, and the
\* incident's latest rule has the number before it.
LEMMA NextVersionFacts ==
    ASSUME LearningInv, NEW i \in Incidents
    PROVE  /\ NextVersion(i) \in Nat \ {0}
           /\ \A k \in RulesOf(i) : memories[k].version < NextVersion(i)
           /\ NextVersion(i) > 1
                  => \E k \in RulesOf(i) : memories[k].version = NextVersion(i) - 1
<1> DEFINE used == {memories[m].version : m \in RulesOf(i)} \cup {0}
           Top(v) == \A w \in used : w <= v
           v == CHOOSE v \in used : Top(v)
<1>1. used \subseteq Nat
  BY RowFacts DEF LearningInv, RulesOf
<1>2. \E u \in used : Top(u)
  <2>1. CASE RulesOf(i) = {}
    <3>1. used = {0}
      BY <2>1
    <3> QED
      BY <3>1
  <2>2. CASE RulesOf(i) # {}
    <3>1. PICK m \in RulesOf(i) : \A k \in RulesOf(i) : k <= m
      BY <2>2 DEF LearningInv, HasLatest
    <3>2. m \in DOMAIN memories /\ memories[m].source = i /\ memories[m].version \in Nat \ {0}
      BY <3>1, RowFacts DEF LearningInv, RulesOf
    <3>3. \A k \in RulesOf(i) : memories[k].version <= memories[m].version
      <4> TAKE k \in RulesOf(i)
      <4>1. k \in DOMAIN memories /\ memories[k].source = i /\ memories[k].version \in Nat
        BY RowFacts DEF LearningInv, RulesOf
      <4>2. k \in Nat /\ m \in Nat /\ k <= m
        BY <3>1, <3>2, <4>1, RowFacts DEF LearningInv
      <4>3. k < m => memories[k].version < memories[m].version
        BY <3>2, <4>1 DEF LearningInv, VersionsCount
      <4> QED
        BY <3>2, <4>1, <4>2, <4>3
    <3>4. Top(memories[m].version)
      BY <3>2, <3>3
    <3> QED
      BY <3>1, <3>4
  <2> QED
    BY <2>1, <2>2
<1>3. v \in used /\ Top(v)
  BY <1>2
<1>4. NextVersion(i) = 1 + v
  BY Zenon DEF NextVersion
<1>5. v \in Nat
  BY <1>1, <1>3
<1>6. \A k \in RulesOf(i) : memories[k].version \in Nat /\ memories[k].version <= v
  BY <1>1, <1>3
<1>7. v > 0 => \E k \in RulesOf(i) : memories[k].version = v
  BY <1>3, <1>5
<1> HIDE DEF v, used, Top
<1> QED
  BY <1>4, <1>5, <1>6, <1>7

\* Adding the rule of a feedback row that has none keeps the rules in order.
LEMMA AddKeepsRules ==
    ASSUME LearningInv, NEW row \in DOMAIN feedback, add_memory(row), feedback' = feedback,
           \A m \in DOMAIN memories : memories[m].origin # row
    PROVE  /\ memories' \in Seq(Rule)
           /\ HasLatest'
           /\ VersionsCount'
           /\ RuleHasItsFeedback'
           /\ \A m \in DOMAIN memories' :
                  \/ m \in DOMAIN memories /\ memories'[m] = memories[m]
                  \/ memories'[m].origin = row
<1> DEFINE n == Len(memories) + 1
           i == feedback[row]
           new == NewRule(row)
<1>1. i \in Incidents /\ row \in Nat /\ memories \in Seq(Rule)
  BY DEF LearningInv, TypeOK
<1>2. /\ NextVersion(i) \in Nat \ {0}
      /\ \A k \in RulesOf(i) : memories[k].version < NextVersion(i)
      /\ NextVersion(i) > 1 => \E k \in RulesOf(i) : memories[k].version = NextVersion(i) - 1
  BY <1>1, NextVersionFacts
<1>3. /\ new \in Rule
      /\ new.source = i /\ new.version = NextVersion(i) /\ new.origin = row
  BY <1>1, <1>2 DEF NewRule, Rule
<1> HIDE DEF new
<1>4. memories' = Append(memories, new)
  BY DEF add_memory, new
<1>5. /\ memories' \in Seq(Rule)
      /\ n \in Nat /\ n \notin DOMAIN memories
      /\ DOMAIN memories' = (DOMAIN memories) \cup {n}
      /\ \A k \in DOMAIN memories : memories'[k] = memories[k] /\ k < n /\ k \in Nat
      /\ memories'[n] = new
  BY <1>1, <1>3, <1>4, AppendFacts
<1> HIDE DEF n, i
<1>6. HasLatest'
  <2> SUFFICES ASSUME NEW j \in Incidents, RulesOf(j)' # {}
               PROVE  \E m \in RulesOf(j)' : \A k \in RulesOf(j)' : k <= m
    BY DEF HasLatest
  <2>1. CASE j = i
    <3>1. n \in RulesOf(j)' /\ \A k \in RulesOf(j)' : k <= n
      BY <1>3, <1>5, <2>1 DEF RulesOf
    <3> QED
      BY <3>1
  <2>2. CASE j # i
    <3>1. RulesOf(j)' = RulesOf(j)
      BY <1>3, <1>5, <2>2 DEF RulesOf
    <3> QED
      BY <3>1 DEF LearningInv, HasLatest
  <2> QED
    BY <2>1, <2>2
<1>7. VersionsCount'
  <2> SUFFICES ASSUME NEW m \in DOMAIN memories'
               PROVE  /\ \A k \in DOMAIN memories' :
                             k < m /\ memories'[k].source = memories'[m].source
                                 => memories'[k].version < memories'[m].version
                      /\ memories'[m].version > 1
                             => \E k \in DOMAIN memories' :
                                    /\ k < m
                                    /\ memories'[k].source = memories'[m].source
                                    /\ memories'[k].version = memories'[m].version - 1
    BY DEF VersionsCount
  <2>1. CASE m = n
    <3>1. \A k \in RulesOf(i) : k \in DOMAIN memories /\ memories[k].source = i
      BY DEF RulesOf
    <3>2. \A k \in DOMAIN memories : memories[k].source = i => k \in RulesOf(i)
      BY DEF RulesOf
    <3> QED
      BY <1>2, <1>3, <1>5, <2>1, <3>1, <3>2
  <2>2. CASE m \in DOMAIN memories
    <3>1. \A k \in DOMAIN memories' : k < m => k \in DOMAIN memories
      BY <1>5, <2>2
    <3> QED
      BY <1>5, <2>2, <3>1 DEF LearningInv, VersionsCount
  <2> QED
    BY <1>5, <2>1, <2>2
<1>8. RuleHasItsFeedback'
  BY <1>3, <1>5 DEF LearningInv, RuleHasItsFeedback, i
<1> QED
  BY <1>3, <1>5, <1>6, <1>7, <1>8

\* Retirement changes no number, source or origin.
LEMMA RetireKeepsRules ==
    ASSUME LearningInv, NEW m \in DOMAIN memories, retire_memory(m)
    PROVE  /\ memories' \in Seq(Rule)
           /\ DOMAIN memories' = DOMAIN memories
           /\ \A k \in DOMAIN memories :
                  /\ memories'[k].source = memories[k].source
                  /\ memories'[k].version = memories[k].version
                  /\ memories'[k].origin = memories[k].origin
                  /\ memories'[k].active => memories[k].active
<1>1. memories' = [memories EXCEPT ![m].active = FALSE]
  BY DEF retire_memory
<1>2. /\ Len(memories) \in Nat
      /\ DOMAIN memories = 1 .. Len(memories)
      /\ \A k \in DOMAIN memories : memories[k] \in Rule
  BY RowFacts DEF LearningInv
<1>3. DOMAIN memories' = DOMAIN memories
  BY <1>1
<1>4. \A k \in DOMAIN memories :
          memories'[k] = IF k = m THEN [memories[k] EXCEPT !.active = FALSE] ELSE memories[k]
  BY <1>1
<1>5. \A k \in DOMAIN memories :
          /\ memories'[k] \in Rule
          /\ memories'[k].source = memories[k].source
          /\ memories'[k].version = memories[k].version
          /\ memories'[k].origin = memories[k].origin
          /\ memories'[k].active => memories[k].active
  BY <1>2, <1>4, RuleFields
<1>6. memories' \in [1 .. Len(memories) -> Rule]
  BY <1>1, <1>2, <1>3, <1>5
<1>7. memories' \in Seq(Rule)
  BY <1>2, <1>6
<1> QED
  BY <1>3, <1>5, <1>7

\* The rules stay in order when their numbers, sources and origins do.
LEMMA SameNumbers ==
    ASSUME LearningInv, feedback' = feedback, DOMAIN memories' = DOMAIN memories,
           \A k \in DOMAIN memories :
               /\ memories'[k].source = memories[k].source
               /\ memories'[k].version = memories[k].version
               /\ memories'[k].origin = memories[k].origin
    PROVE  HasLatest' /\ VersionsCount' /\ RuleHasItsFeedback'
<1>1. \A i \in Incidents : RulesOf(i)' = RulesOf(i)
  BY DEF RulesOf
<1>2. HasLatest'
  BY <1>1 DEF LearningInv, HasLatest
<1>3. VersionsCount'
  BY DEF LearningInv, VersionsCount
<1>4. RuleHasItsFeedback'
  BY DEF LearningInv, RuleHasItsFeedback
<1> QED
  BY <1>2, <1>3, <1>4

\* A request that ends, or goes on to the remote write with its row, keeps hold
\* of no other request's row.
LEMMA RequestMoves ==
    ASSUME LearningInv, NEW r \in Requests, NEW stage \in {"idle", "mirroring"}, NEW row \in Nat,
           Become(r, stage, row), feedback' = feedback,
           stage = "mirroring" => Busy(r) /\ row = request[r].row,
           \A m \in DOMAIN memories' :
               \/ m \in DOMAIN memories /\ memories'[m].origin = memories[m].origin
               \/ Busy(r) /\ memories'[m].origin = request[r].row
    PROVE  /\ request' \in [Requests -> [stage : {"idle", "reflecting", "mirroring"}, row : Nat]]
           /\ RowsInHand'
<1>1. request \in [Requests -> [stage : {"idle", "reflecting", "mirroring"}, row : Nat]]
  BY DEF LearningInv, TypeOK
<1>2. Serving(stage, row) \in [stage : {"idle", "reflecting", "mirroring"}, row : Nat]
  BY DEF Serving
<1>3. request' = [request EXCEPT ![r] = Serving(stage, row)]
  BY DEF Become
<1>4. \A q \in Requests : request'[q] = IF q = r THEN Serving(stage, row) ELSE request[q]
  BY <1>1, <1>3
<1>5. Serving(stage, row).stage = stage /\ Serving(stage, row).row = row
  BY DEF Serving
<1>6. \A q \in Requests : Busy(q)' => Busy(q) /\ request'[q].row = request[q].row
  BY <1>4, <1>5 DEF Busy
<1>7. \A q \in Requests : request'[q].stage = "reflecting" => q # r /\ request[q].stage = "reflecting"
  BY <1>4, <1>5
<1>8. RowsInHand'
  <2> SUFFICES ASSUME NEW p \in Requests, Busy(p)'
               PROVE  /\ request'[p].row \in DOMAIN feedback'
                      /\ \A q \in Requests : Busy(q)' /\ request'[q].row = request'[p].row => q = p
                      /\ request'[p].stage = "reflecting"
                             => \A m \in DOMAIN memories' : memories'[m].origin # request'[p].row
    BY DEF RowsInHand
  <2>1. Busy(p) /\ request'[p].row = request[p].row
    BY <1>6
  <2>2. /\ request[p].row \in DOMAIN feedback
        /\ \A q \in Requests : Busy(q) /\ request[q].row = request[p].row => q = p
        /\ request[p].stage = "reflecting"
               => \A m \in DOMAIN memories : memories[m].origin # request[p].row
    BY <2>1 DEF LearningInv, RowsInHand
  <2>3. \A q \in Requests : Busy(q)' /\ request'[q].row = request'[p].row => q = p
    BY <1>6, <2>1, <2>2
  <2>4. ASSUME request'[p].stage = "reflecting", NEW m \in DOMAIN memories'
        PROVE  memories'[m].origin # request'[p].row
    <3>1. p # r /\ request[p].stage = "reflecting"
      BY <1>7, <2>4
    <3>2. Busy(r) => request[r].row # request[p].row
      BY <2>2, <3>1
    <3> QED
      BY <2>1, <2>2, <3>1, <3>2
  <2> QED
    BY <2>1, <2>2, <2>3, <2>4
<1> QED
  BY <1>1, <1>2, <1>3, <1>8

\* A request's move hides no row: the row it lets go of is stored or told of.
LEMMA NothingHidden ==
    ASSUME LearningInv, NEW r \in Requests, NEW stage \in {"idle", "mirroring"}, NEW row \in Nat,
           Become(r, stage, row), feedback' = feedback, supabase' = supabase,
           remote \subseteq remote', told \subseteq told',
           supabase /\ Busy(r) => \/ request[r].row \in remote' \cup told'
                                  \/ stage = "mirroring" /\ row = request[r].row
    PROVE  MissingIsReported'
<1>1. request \in [Requests -> [stage : {"idle", "reflecting", "mirroring"}, row : Nat]]
  BY DEF LearningInv, TypeOK
<1>2. \A q \in Requests : request'[q] = IF q = r THEN Serving(stage, row) ELSE request[q]
  BY <1>1 DEF Become
<1>3. Serving(stage, row).stage = stage /\ Serving(stage, row).row = row
  BY DEF Serving
<1> SUFFICES ASSUME supabase, NEW w \in DOMAIN feedback
             PROVE  \/ w \in remote' \cup told'
                    \/ \E q \in Requests : Busy(q)' /\ request'[q].row = w
  BY DEF MissingIsReported
<1>4. CASE w \in remote \cup told
  BY <1>4
<1>5. CASE \E q \in Requests : Busy(q) /\ request[q].row = w
  <2> PICK q \in Requests : Busy(q) /\ request[q].row = w
    BY <1>5
  <2>1. CASE q = r
    BY <1>2, <1>3, <2>1 DEF Busy
  <2>2. CASE q # r
    BY <1>2, <2>2 DEF Busy
  <2> QED
    BY <2>1, <2>2
<1> QED
  BY <1>4, <1>5 DEF LearningInv, MissingIsReported

\* The initial state satisfies the invariant.
THEOREM InitLearning == Init => LearningInv
<1> SUFFICES ASSUME Init PROVE LearningInv
  OBVIOUS
<1>1. TypeOK
  BY DEF Init, TypeOK, Serving, Asking
<1>2. RowsInHand
  BY DEF Init, RowsInHand, Busy, Serving
<1>3. DOMAIN memories = {} /\ DOMAIN feedback = {}
  BY DEF Init
<1>4. HasLatest /\ VersionsCount /\ RuleHasItsFeedback /\ MissingIsReported
  BY <1>3 DEF HasLatest, RulesOf, VersionsCount, RuleHasItsFeedback, MissingIsReported
<1> QED
  BY <1>1, <1>2, <1>4 DEF LearningInv

\* A new feedback row is in its request's hands.
LEMMA FeedbackStep ==
    ASSUME LearningInv, NEW r \in Requests, NEW i \in Incidents, Feedback(r, i)
    PROVE  LearningInv'
<1> DEFINE n == Len(feedback) + 1
<1>1. /\ feedback' \in Seq(Incidents)
      /\ n \in Nat /\ n \notin DOMAIN feedback
      /\ DOMAIN feedback' = (DOMAIN feedback) \cup {n}
      /\ \A k \in DOMAIN feedback : feedback'[k] = feedback[k]
  BY AppendFacts DEF Feedback, LearningInv, TypeOK
<1> HIDE DEF n
<1>2. request \in [Requests -> [stage : {"idle", "reflecting", "mirroring"}, row : Nat]]
  BY DEF LearningInv, TypeOK
<1>3. request' = [request EXCEPT ![r] = Serving("reflecting", n)]
  BY DEF Feedback, Become, n
<1>4. /\ Serving("reflecting", n) \in [stage : {"idle", "reflecting", "mirroring"}, row : Nat]
      /\ Serving("reflecting", n).stage = "reflecting"
      /\ Serving("reflecting", n).row = n
  BY <1>1 DEF Serving
<1>5. \A q \in Requests : request'[q] = IF q = r THEN Serving("reflecting", n) ELSE request[q]
  BY <1>2, <1>3
<1>6. TypeOK'
  BY <1>1, <1>2, <1>3, <1>4 DEF Feedback, LearningInv, TypeOK
<1>7. RowsInHand'
  <2>1. \A q \in Requests : Busy(q)' => q = r \/ Busy(q)
    BY <1>5 DEF Busy
  <2>2. \A m \in DOMAIN memories : memories[m].origin # n
    BY <1>1 DEF LearningInv, RuleHasItsFeedback
  <2>3. \A q \in Requests : Busy(q) => request[q].row # n /\ q # r
    BY <1>1 DEF LearningInv, RowsInHand, Feedback
  <2> SUFFICES ASSUME NEW p \in Requests, Busy(p)'
               PROVE  /\ request'[p].row \in DOMAIN feedback'
                      /\ \A q \in Requests : Busy(q)' /\ request'[q].row = request'[p].row => q = p
                      /\ request'[p].stage = "reflecting"
                             => \A m \in DOMAIN memories' : memories'[m].origin # request'[p].row
    BY DEF RowsInHand
  <2>4. memories' = memories
    BY DEF Feedback
  <2>5. CASE p = r
    BY <1>1, <1>4, <1>5, <2>1, <2>2, <2>3, <2>4, <2>5
  <2>6. CASE p # r
    <3>1. Busy(p) /\ request'[p] = request[p]
      BY <1>5, <2>1, <2>6
    <3>2. /\ request[p].row \in DOMAIN feedback
          /\ \A q \in Requests : Busy(q) /\ request[q].row = request[p].row => q = p
          /\ request[p].stage = "reflecting"
                 => \A m \in DOMAIN memories : memories[m].origin # request[p].row
      BY <3>1 DEF LearningInv, RowsInHand
    <3>3. request[p].row # n
      BY <2>3, <3>1
    <3> QED
      BY <1>1, <1>4, <1>5, <2>1, <2>4, <3>1, <3>2, <3>3
  <2> QED
    BY <2>5, <2>6
<1>8. HasLatest' /\ VersionsCount' /\ RuleHasItsFeedback'
  <2>1. memories' = memories
    BY DEF Feedback
  <2>2. HasLatest' /\ VersionsCount'
    BY <2>1 DEF LearningInv, HasLatest, VersionsCount, RulesOf
  <2>3. RuleHasItsFeedback'
    BY <1>1, <2>1 DEF LearningInv, RuleHasItsFeedback
  <2> QED
    BY <2>2, <2>3
<1>9. MissingIsReported'
  <2> SUFFICES ASSUME supabase, NEW w \in DOMAIN feedback'
               PROVE  \/ w \in remote \cup told
                      \/ \E q \in Requests : Busy(q)' /\ request'[q].row = w
    BY DEF MissingIsReported, Feedback
  <2>1. CASE w = n
    BY <1>4, <1>5, <2>1 DEF Busy
  <2>2. CASE w \in DOMAIN feedback
    <3>1. CASE w \in remote \cup told
      BY <3>1
    <3>2. CASE \E q \in Requests : Busy(q) /\ request[q].row = w
      <4> PICK q \in Requests : Busy(q) /\ request[q].row = w
        BY <3>2
      <4>1. q # r
        BY DEF Feedback
      <4> QED
        BY <1>5, <4>1 DEF Busy
    <3> QED
      BY <2>2, <3>1, <3>2 DEF LearningInv, MissingIsReported
  <2> QED
    BY <1>1, <2>1, <2>2
<1> QED
  BY <1>6, <1>7, <1>8, <1>9 DEF LearningInv

\* The other steps of a request: it ends, or goes on to the remote write.
LEMMA ServeStep ==
    ASSUME LearningInv, NEW r \in Requests,
           Reflect(r) \/ Degrade(r) \/ ReflectionRaises(r) \/ Mirror(r) \/ MirrorFails(r)
    PROVE  LearningInv'
<1>1. Busy(r) /\ request[r].row \in DOMAIN feedback /\ request[r].row \in Nat
  <2>1. Busy(r)
    BY DEF Reflect, Degrade, ReflectionRaises, Mirror, MirrorFails, Busy
  <2> QED
    BY <2>1 DEF LearningInv, RowsInHand, TypeOK
<1>2. feedback' = feedback /\ supabase' = supabase /\ assessment' = assessment
  BY DEF Reflect, Degrade, ReflectionRaises, Mirror, MirrorFails
<1>3. /\ remote' \subseteq Nat /\ told' \subseteq Nat
      /\ remote \subseteq remote' /\ told \subseteq told'
  BY <1>1 DEF Reflect, Degrade, ReflectionRaises, Mirror, MirrorFails, LearningInv, TypeOK
<1>4. PICK stage \in {"idle", "mirroring"}, row \in Nat :
          /\ Become(r, stage, row)
          /\ stage = "mirroring" => row = request[r].row
          /\ supabase => \/ request[r].row \in remote' \cup told'
                         \/ stage = "mirroring"
  <2>1. CASE Reflect(r) \/ Degrade(r)
    <3>1. CASE supabase
      BY <1>1, <2>1, <3>1 DEF Reflect, Degrade, Recorded
    <3>2. CASE ~ supabase
      BY <2>1, <3>2 DEF Reflect, Degrade, Recorded
    <3> QED
      BY <3>1, <3>2
  <2>2. CASE ReflectionRaises(r) \/ Mirror(r) \/ MirrorFails(r)
    BY <2>2 DEF ReflectionRaises, Mirror, MirrorFails
  <2> QED
    BY <2>1, <2>2
<1>5. /\ memories' \in Seq(Rule)
      /\ HasLatest' /\ VersionsCount' /\ RuleHasItsFeedback'
      /\ \A m \in DOMAIN memories' :
             \/ m \in DOMAIN memories /\ memories'[m].origin = memories[m].origin
             \/ memories'[m].origin = request[r].row
  <2>1. CASE Reflect(r)
    <3>1. \A m \in DOMAIN memories : memories[m].origin # request[r].row
      BY <1>1, <2>1 DEF Reflect, LearningInv, RowsInHand
    <3>2. add_memory(request[r].row)
      BY <2>1 DEF Reflect
    <3> QED
      BY <1>1, <1>2, <3>1, <3>2, AddKeepsRules
  <2>2. CASE ~ Reflect(r)
    <3>1. memories' = memories
      BY <2>2 DEF Degrade, ReflectionRaises, Mirror, MirrorFails
    <3>2. HasLatest' /\ VersionsCount' /\ RuleHasItsFeedback'
      BY <1>2, <3>1, SameNumbers
    <3>3. memories' \in Seq(Rule)
      BY <3>1 DEF LearningInv, TypeOK
    <3> QED
      BY <3>1, <3>2, <3>3
  <2> QED
    BY <2>1, <2>2
<1>6. /\ request' \in [Requests -> [stage : {"idle", "reflecting", "mirroring"}, row : Nat]]
      /\ RowsInHand'
  BY <1>1, <1>2, <1>4, <1>5, RequestMoves
<1>7. MissingIsReported'
  BY <1>1, <1>2, <1>3, <1>4, NothingHidden
<1>8. TypeOK'
  BY <1>2, <1>3, <1>5, <1>6 DEF LearningInv, TypeOK
<1> QED
  BY <1>5, <1>6, <1>7, <1>8 DEF LearningInv

\* Steps that leave tables and requests alone.
LEMMA QuietStep ==
    ASSUME LearningInv, UNCHANGED <<feedback, memories, remote, supabase, request, told>>,
           assessment' \in [Assessments -> [stage : {"idle", "asking", "decided"},
                                            context : SUBSET Nat]]
    PROVE  LearningInv'
<1>1. TypeOK'
  BY DEF LearningInv, TypeOK
<1>2. RowsInHand' /\ HasLatest' /\ VersionsCount' /\ RuleHasItsFeedback' /\ MissingIsReported'
  BY DEF LearningInv, RowsInHand, HasLatest, VersionsCount, RuleHasItsFeedback,
         MissingIsReported, Busy, RulesOf
<1> QED
  BY <1>1, <1>2 DEF LearningInv

\* What an assessment holds after each of its steps.
LEMMA ContextType ==
    ASSUME LearningInv, NEW a \in Assessments, Assess(a)
    PROVE  /\ assessment' \in [Assessments -> [stage : {"idle", "asking", "decided"},
                                               context : SUBSET Nat]]
           /\ \A b \in Assessments :
                  \/ assessment'[b].context \subseteq assessment[b].context
                  \/ assessment'[b].context \subseteq Active
<1>1. assessment \in [Assessments -> [stage : {"idle", "asking", "decided"}, context : SUBSET Nat]]
  BY DEF LearningInv, TypeOK
<1>2. PICK stage \in {"idle", "asking", "decided"}, context \in SUBSET Nat :
          /\ assessment' = [assessment EXCEPT ![a] = Asking(stage, context)]
          /\ context \subseteq assessment[a].context \/ context \subseteq Active
  <2>1. CASE Retrieve(a)
    <3>1. PICK context \in rank_memories :
              assessment' = [assessment EXCEPT ![a] = Asking("asking", context)]
      BY <2>1 DEF Retrieve
    <3>2. context \subseteq Active
      BY DEF rank_memories, active_memories
    <3>3. Active \subseteq Nat
      BY RowFacts DEF Active, LearningInv
    <3>4. context \in SUBSET Nat
      BY <3>2, <3>3
    <3> QED
      BY <3>1, <3>2, <3>4
  <2>2. CASE Decide(a)
    <3>1. assessment[a].context \in SUBSET Nat
      BY <1>1
    <3> QED
      BY <2>2, <3>1 DEF Decide
  <2>3. CASE Abandon(a)
    <3>1. assessment' = [assessment EXCEPT ![a] = Asking("idle", {})]
      BY <2>3 DEF Abandon
    <3>2. {} \in SUBSET Nat /\ {} \subseteq Active
      OBVIOUS
    <3> QED
      BY <3>1, <3>2
  <2> QED
    BY <2>1, <2>2, <2>3 DEF Assess
<1>3. /\ Asking(stage, context) \in [stage : {"idle", "asking", "decided"}, context : SUBSET Nat]
      /\ Asking(stage, context).context = context
  BY DEF Asking
<1>4. \A b \in Assessments : assessment'[b] = IF b = a THEN Asking(stage, context) ELSE assessment[b]
  BY <1>1, <1>2
<1> QED
  BY <1>1, <1>2, <1>3, <1>4

\* The process dies: nothing is in hand, and the open rows are told of.
LEMMA CrashStep ==
    ASSUME LearningInv, Crash
    PROVE  /\ LearningInv'
           /\ memories' = memories
           /\ \A a \in Assessments : assessment'[a].context \subseteq assessment[a].context
<1> DEFINE open == {r \in Requests : Busy(r)}
           sent == {request[r].row : r \in {q \in open : request[q].stage = "mirroring"}}
<1>1. /\ told' = told \cup {request[r].row : r \in open}
      /\ \E landed \in SUBSET sent : remote' = remote \cup landed
      /\ request' = [r \in Requests |-> Serving("idle", 0)]
      /\ assessment' = [a \in Assessments |->
                           IF assessment[a].stage = "asking" THEN Asking("idle", {})
                           ELSE assessment[a]]
      /\ UNCHANGED <<feedback, memories, supabase>>
  BY DEF Crash
<1>2. sent \subseteq Nat /\ {request[r].row : r \in open} \subseteq Nat
  BY DEF LearningInv, TypeOK
<1> HIDE DEF sent
<1>3. remote' \subseteq Nat /\ remote \subseteq remote' /\ told' \subseteq Nat
  BY <1>1, <1>2 DEF LearningInv, TypeOK
<1>4. /\ Asking("idle", {}) \in [stage : {"idle", "asking", "decided"}, context : SUBSET Nat]
      /\ Asking("idle", {}).context = {}
      /\ Serving("idle", 0) \in [stage : {"idle", "reflecting", "mirroring"}, row : Nat]
      /\ Serving("idle", 0).stage = "idle"
  BY DEF Asking, Serving
<1>5. assessment \in [Assessments -> [stage : {"idle", "asking", "decided"}, context : SUBSET Nat]]
  BY DEF LearningInv, TypeOK
<1>6. /\ assessment' \in [Assessments -> [stage : {"idle", "asking", "decided"}, context : SUBSET Nat]]
      /\ \A a \in Assessments : assessment'[a].context \subseteq assessment[a].context
  BY <1>1, <1>4, <1>5
<1>7. request' \in [Requests -> [stage : {"idle", "reflecting", "mirroring"}, row : Nat]]
  BY <1>1, <1>4
<1>8. TypeOK'
  BY <1>1, <1>3, <1>6, <1>7 DEF LearningInv, TypeOK
<1>9. RowsInHand'
  BY <1>1, <1>4 DEF RowsInHand, Busy
<1>10. HasLatest' /\ VersionsCount' /\ RuleHasItsFeedback'
  BY <1>1, SameNumbers
<1>11. MissingIsReported'
  BY <1>1, <1>3 DEF LearningInv, MissingIsReported
<1> QED
  BY <1>1, <1>6, <1>8, <1>9, <1>10, <1>11 DEF LearningInv

\* Retirement keeps the invariant.
LEMMA RetireStep ==
    ASSUME LearningInv, NEW m \in DOMAIN memories, retire_memory(m)
    PROVE  LearningInv'
<1>1. /\ memories' \in Seq(Rule)
      /\ DOMAIN memories' = DOMAIN memories
      /\ \A k \in DOMAIN memories :
             /\ memories'[k].source = memories[k].source
             /\ memories'[k].version = memories[k].version
             /\ memories'[k].origin = memories[k].origin
  BY RetireKeepsRules
<1>2. UNCHANGED <<feedback, remote, supabase, request, assessment, told>>
  BY DEF retire_memory
<1>3. HasLatest' /\ VersionsCount' /\ RuleHasItsFeedback'
  BY <1>1, <1>2, SameNumbers
<1>4. TypeOK'
  BY <1>1, <1>2 DEF LearningInv, TypeOK
<1>5. RowsInHand'
  BY <1>1, <1>2 DEF LearningInv, RowsInHand, Busy
<1>6. MissingIsReported'
  BY <1>2 DEF LearningInv, MissingIsReported, Busy
<1> QED
  BY <1>3, <1>4, <1>5, <1>6 DEF LearningInv

\* Every step of feedback requests, retirements, assessments and deaths keeps
\* the invariant.
THEOREM NextLearning == LearningInv /\ [Next]_vars => LearningInv'
<1> SUFFICES ASSUME LearningInv, [Next]_vars PROVE LearningInv'
  OBVIOUS
<1>1. CASE \E r \in Requests : Serve(r)
  <2> PICK r \in Requests : Serve(r)
    BY <1>1
  <2>1. CASE \E i \in Incidents : Feedback(r, i)
    BY <2>1, FeedbackStep
  <2>2. CASE ~ \E i \in Incidents : Feedback(r, i)
    BY <2>2, ServeStep DEF Serve
  <2> QED
    BY <2>1, <2>2
<1>2. CASE \E m \in DOMAIN memories : retire_memory(m)
  BY <1>2, RetireStep
<1>3. CASE \E a \in Assessments : Assess(a)
  <2> PICK a \in Assessments : Assess(a)
    BY <1>3
  <2>1. UNCHANGED <<feedback, memories, remote, supabase, request, told>>
    BY DEF Assess, Retrieve, Decide, Abandon
  <2> QED
    BY <2>1, ContextType, QuietStep
<1>4. CASE Crash
  BY <1>4, CrashStep
<1>5. CASE UNCHANGED vars
  BY <1>5, QuietStep DEF vars, LearningInv, TypeOK
<1> QED
  BY <1>1, <1>2, <1>3, <1>4, <1>5 DEF Next

\* The invariant holds in every reachable state.
THEOREM LearningInvariant == Spec => []LearningInv
  BY InitLearning, NextLearning, PTL DEF Spec

\* Rules of one incident are numbered without gap or repetition, and each comes
\* from its own feedback row about that incident.
THEOREM LearningVersions == Spec => [](VersionsCount /\ RuleHasItsFeedback)
<1>1. LearningInv => VersionsCount /\ RuleHasItsFeedback
  BY DEF LearningInv
<1> QED
  BY <1>1, LearningInvariant, PTL

\* Feedback missing at Supabase is under way or told of.
THEOREM LearningMirror == Spec => []MissingIsReported
<1>1. LearningInv => MissingIsReported
  BY DEF LearningInv
<1> QED
  BY <1>1, LearningInvariant, PTL

\* A retired rule stays retired and enters no context.
THEOREM LearningRetirement == Spec => RetiredStaysOut
<1> DEFINE OutNow ==
        \A m \in DOMAIN memories :
          ~ memories[m].active =>
              /\ ~ memories'[m].active
              /\ \A a \in Assessments :
                     m \in assessment'[a].context => m \in assessment[a].context
<1>1. LearningInv /\ [Next]_vars => [OutNow]_vars
  <2> SUFFICES ASSUME LearningInv, Next, NEW m \in DOMAIN memories, ~ memories[m].active
               PROVE  /\ ~ memories'[m].active
                      /\ \A a \in Assessments :
                             m \in assessment'[a].context => m \in assessment[a].context
    OBVIOUS
  <2>1. CASE \E r \in Requests : Serve(r)
    <3> PICK r \in Requests : Serve(r)
      BY <2>1
    <3>1. assessment' = assessment
      BY DEF Serve, Feedback, Reflect, Degrade, ReflectionRaises, Mirror, MirrorFails
    <3>2. CASE Reflect(r)
      <4>1. memories' = Append(memories, NewRule(request[r].row))
        BY <3>2 DEF Reflect, add_memory
      <4>2. memories'[m] = memories[m]
        BY <4>1 DEF LearningInv, TypeOK
      <4> QED
        BY <3>1, <4>2
    <3>3. CASE ~ Reflect(r)
      BY <3>1, <3>3 DEF Serve, Feedback, Degrade, ReflectionRaises, Mirror, MirrorFails
    <3> QED
      BY <3>2, <3>3
  <2>2. CASE \E k \in DOMAIN memories : retire_memory(k)
    BY <2>2, RetireKeepsRules DEF retire_memory
  <2>3. CASE \E a \in Assessments : Assess(a)
    <3> PICK a \in Assessments : Assess(a)
      BY <2>3
    <3>1. memories' = memories
      BY DEF Assess, Retrieve, Decide, Abandon
    <3>2. m \notin Active
      BY DEF Active
    <3> QED
      BY <3>1, <3>2, ContextType
  <2>4. CASE Crash
    BY <2>4, CrashStep
  <2> QED
    BY <2>1, <2>2, <2>3, <2>4 DEF Next
<1> QED
  BY <1>1, LearningInvariant, PTL DEF Spec, RetiredStaysOut
=============================================================================
