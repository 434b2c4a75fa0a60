-------------------------- MODULE DraftEditorProofs --------------------------
(***************************************************************************)
(* Theorems about DraftEditor, for any texts, accounts, drafts, edits and  *)
(* ACME requests: what a popup edits is there, a certificate stays issued, *)
(* inbounds keep a certificate, limited rules stay limited, and what       *)
(* cannot be routed is blocked.                                            *)
(***************************************************************************)
EXTENDS DraftEditor, FiniteSetTheorems, SequenceTheorems, WellFoundedInduction, TLAPS

-----------------------------------------------------------------------------
(***************************************************************************)
(* The lists of a draft, and what the handlers do to them.                 *)
(***************************************************************************)

\* The first of the positions that a search finds is one of them, and the least.
LEMMA LeastIsOne ==
    ASSUME NEW I \in SUBSET Nat, I # {}
    PROVE  Min(I) \in I /\ \A j \in I : Min(I) <= j
<1>1. IsWellFoundedOn(OpToRel(<, Nat), Nat)
  BY NatLessThanWellFounded
<1>2. PICK i \in I : \A j \in I : ~ (<<j, i>> \in OpToRel(<, Nat))
  BY <1>1, WFMin, Zenon
<1>3. \A j \in I : i <= j
  <2> TAKE j \in I
  <2>1. <<j, i>> \notin OpToRel(<, Nat)
    BY <1>2
  <2>2. ~ (j < i)
    BY <2>1 DEF OpToRel
  <2> QED
    BY <2>2
<1> QED
  BY <1>3 DEF Min

\* Looking an item up by its id finds one with that id, or there is none.
LEMMA AtIs ==
    ASSUME NEW S, NEW s \in Seq(S), NEW id
    PROVE  /\ At(s, id) # 0 => At(s, id) \in DOMAIN s /\ s[At(s, id)].id = id
           /\ At(s, id) = 0 => \A i \in DOMAIN s : s[i].id # id
<1> DEFINE I == {i \in 1..Len(s) : s[i].id = id}
<1>1. At(s, id) = IF I # {} THEN Min(I) ELSE 0
  BY DEF At, SelectInSeq
<1>2. I \in SUBSET Nat /\ 0 \notin I /\ DOMAIN s = 1..Len(s)
  OBVIOUS
<1>3. CASE I = {}
  BY <1>1, <1>2, <1>3
<1>4. CASE I # {}
  <2> HIDE DEF I
  <2>1. Min(I) \in I
    BY <1>2, <1>4, LeastIsOne
  <2>2. At(s, id) \in I
    BY <1>1, <1>4, <2>1
  <2> QED
    BY <1>2, <2>2 DEF I
<1> QED
  BY <1>3, <1>4

\* What an item put at the end leaves of a list.
LEMMA AppendIs ==
    ASSUME NEW S, NEW s \in Seq(S), NEW x \in S
    PROVE  /\ Append(s, x) \in Seq(S)
           /\ DOMAIN Append(s, x) = 1..(Len(s) + 1)
           /\ DOMAIN s = 1..Len(s) /\ Len(s) \in Nat
           /\ \A i \in DOMAIN s : Append(s, x)[i] = s[i]
           /\ Append(s, x)[Len(s) + 1] = x
OBVIOUS

\* A list to which an item with the next id is appended is numbered.
LEMMA AppendNumbers ==
    ASSUME NEW S, NEW s \in Seq(S), NEW x \in S, \A y \in S : y.id \in Nat, NEW n \in Nat, Numbered(s, n), x.id = n
    PROVE  Append(s, x) \in Seq(S) /\ Numbered(Append(s, x), n + 1)
<1> DEFINE t == Append(s, x)
<1>1. t \in Seq(S)
  BY AppendIs
<1>2. \A i \in DOMAIN t : (i \in DOMAIN s /\ t[i] = s[i]) \/ (i = Len(s) + 1 /\ t[i] = x)
  BY AppendIs
<1> HIDE DEF t
<1>3. Distinct(t)
  <2> SUFFICES ASSUME NEW i \in DOMAIN t, NEW j \in DOMAIN t, t[i].id = t[j].id
               PROVE  i = j
    BY DEF Distinct
  <2>1. CASE i \in DOMAIN s /\ t[i] = s[i] /\ j \in DOMAIN s /\ t[j] = s[j]
    BY <2>1 DEF Numbered, Distinct
  <2>2. CASE i \in DOMAIN s /\ t[i] = s[i] /\ t[j] = x
    BY <2>2 DEF Numbered, Below
  <2>3. CASE t[i] = x /\ j \in DOMAIN s /\ t[j] = s[j]
    BY <2>3 DEF Numbered, Below
  <2> QED
    BY <1>2, <2>1, <2>2, <2>3
<1>4. Below(t, n + 1)
  <2> SUFFICES ASSUME NEW i \in DOMAIN t
               PROVE  t[i].id < n + 1
    BY DEF Below
  <2>1. CASE i \in DOMAIN s /\ t[i] = s[i]
    BY <2>1 DEF Numbered, Below
  <2>2. CASE t[i] = x
    BY <2>2
  <2> QED
    BY <1>2, <2>1, <2>2
<1> QED
  BY <1>1, <1>3, <1>4 DEF Numbered, t

\* Saving an item under its id, or appending it, keeps a list numbered and
\* changes no other item.
LEMMA PutNumbers ==
    ASSUME NEW S, NEW s \in Seq(S), NEW x \in S, \A y \in S : y.id \in Nat,
           NEW n \in Nat, Numbered(s, n), x.id < n + 1
    PROVE  /\ Put(s, x) \in Seq(S) /\ Numbered(Put(s, x), n + 1)
           /\ \A i \in DOMAIN Put(s, x) :
                 Put(s, x)[i] = x \/ (i \in DOMAIN s /\ Put(s, x)[i] = s[i])
<1> DEFINE t == Put(s, x)
<1>1. CASE At(s, x.id) = 0
  <2>1. t = Append(s, x) /\ \A i \in DOMAIN s : s[i].id # x.id
    BY <1>1, AtIs DEF Put
  <2>2. t \in Seq(S)
    BY <2>1, AppendIs
  <2>3. \A i \in DOMAIN t : (i \in DOMAIN s /\ t[i] = s[i]) \/ (i = Len(s) + 1 /\ t[i] = x)
    BY <2>1, AppendIs
  <2> HIDE DEF t
  <2>4. Distinct(t)
    <3> SUFFICES ASSUME NEW i \in DOMAIN t, NEW j \in DOMAIN t, t[i].id = t[j].id
                 PROVE  i = j
      BY DEF Distinct
    <3>1. CASE i \in DOMAIN s /\ t[i] = s[i] /\ j \in DOMAIN s /\ t[j] = s[j]
      BY <3>1 DEF Numbered, Distinct
    <3>2. CASE i = Len(s) + 1 /\ j = Len(s) + 1
      BY <3>2
    <3> QED
      BY <2>1, <2>3, <3>1, <3>2
  <2>5. Below(t, n + 1)
    <3> SUFFICES ASSUME NEW i \in DOMAIN t
                 PROVE  t[i].id < n + 1
      BY DEF Below
    <3>1. CASE i \in DOMAIN s /\ t[i] = s[i]
      BY <3>1 DEF Numbered, Below
    <3>2. CASE t[i] = x
      BY <3>2
    <3> QED
      BY <2>3, <3>1, <3>2
  <2> QED
    BY <2>2, <2>3, <2>4, <2>5 DEF Numbered, t
<1>2. CASE At(s, x.id) # 0
  <2> DEFINE k == At(s, x.id)
  <2>1. t = [s EXCEPT ![k] = x] /\ k \in DOMAIN s /\ s[k].id = x.id
    BY <1>2, AtIs DEF Put
  <2> HIDE DEF t, k
  <2>2. t \in Seq(S) /\ DOMAIN t = DOMAIN s
    BY <2>1
  <2>3. \A i \in DOMAIN t : IF i = k THEN t[i] = x ELSE t[i] = s[i]
    BY <2>1, <2>2
  <2>4. \A i \in DOMAIN t : t[i].id = s[i].id
    BY <2>1, <2>3
  <2> QED
    BY <2>2, <2>3, <2>4 DEF Numbered, Distinct, Below, t
<1> QED
  BY <1>1, <1>2

\* retain keeps the items with another id, each once.
LEMMA WithoutIs ==
    ASSUME NEW S, NEW s \in Seq(S), NEW id
    PROVE  /\ Without(s, id) \in Seq(S)
           /\ \E at \in [DOMAIN Without(s, id) -> DOMAIN s] :
                 /\ \A m, n \in DOMAIN Without(s, id) : at[m] = at[n] => m = n
                 /\ \A n \in DOMAIN Without(s, id) :
                       Without(s, id)[n] = s[at[n]] /\ s[at[n]].id # id
           /\ \A i \in DOMAIN s : s[i].id # id => \E n \in DOMAIN Without(s, id) : Without(s, id)[n] = s[i]
<1> DEFINE left  == {i \in DOMAIN s : s[i].id # id}
           N     == Cardinality(left)
           upto(i) == {j \in left : j <= i}
           rank  == [i \in left |-> Cardinality(upto(i))]
           at    == [n \in 1..N |-> CHOOSE i \in left : Cardinality(upto(i)) = n]
<1>1. left \in SUBSET Nat /\ left \in SUBSET DOMAIN s /\ IsFiniteSet(left) /\ N \in Nat
  <2>1. IsFiniteSet(1..Len(s))
    BY FS_Interval
  <2>2. left \in SUBSET (1..Len(s))
    OBVIOUS
  <2>3. IsFiniteSet(left)
    BY <2>1, <2>2, FS_Subset
  <2> QED
    BY <2>2, <2>3, FS_CardinalityType
<1>2. \A i \in left : i \in DOMAIN s /\ s[i].id # id
  OBVIOUS
<1>2a. \A i \in DOMAIN s : s[i].id # id => i \in left
  OBVIOUS
<1>w. Without(s, id) = [n \in 1..N |-> s[CHOOSE i \in left : Cardinality(upto(i)) = n]]
  BY DEF Without
<1> HIDE DEF left
<1>3. ASSUME NEW i \in left
      PROVE  rank[i] \in 1..N
  <2>1. upto(i) \in SUBSET left /\ i \in upto(i)
    BY <1>1
  <2>2. IsFiniteSet(upto(i)) /\ Cardinality(upto(i)) <= N
    BY <1>1, <2>1, FS_Subset
  <2>3. Cardinality(upto(i)) \in Nat /\ Cardinality(upto(i)) # 0
    BY <2>1, <2>2, FS_CardinalityType, FS_EmptySet
  <2> QED
    BY <1>1, <2>2, <2>3
<1>4. ASSUME NEW i \in left, NEW j \in left, i < j
      PROVE  rank[i] < rank[j]
  <2>i. i \in Nat /\ j \in Nat
    BY <1>1
  <2>1. upto(i) \in SUBSET upto(j) /\ j \in upto(j) /\ j \notin upto(i)
    <3>1. ASSUME NEW k \in upto(i) PROVE k \in upto(j)
      <4>1. k \in left /\ k \in Nat /\ k <= i
        BY <1>1, <3>1
      <4> QED
        BY <1>4, <2>i, <4>1
    <3>2. j \in upto(j)
      BY <2>i
    <3>3. j \notin upto(i)
      BY <1>4, <2>i
    <3> QED
      BY <3>1, <3>2, <3>3
  <2>2. upto(j) \in SUBSET left
    OBVIOUS
  <2>3. IsFiniteSet(upto(j))
    BY <1>1, <2>2, FS_Subset
  <2>4. /\ Cardinality(upto(i)) <= Cardinality(upto(j))
        /\ Cardinality(upto(i)) # Cardinality(upto(j))
    BY <2>1, <2>3, FS_Subset
  <2>5. rank[i] \in 1..N /\ rank[j] \in 1..N
    BY <1>3
  <2> QED
    BY <2>4, <2>5, <1>1
<1>5. rank \in Injection(left, 1..N)
  <2>1. rank \in [left -> 1..N]
    BY <1>3
  <2>2. ASSUME NEW i \in left, NEW j \in left, rank[i] = rank[j]
        PROVE  i = j
    <3>1. rank[i] \in 1..N /\ rank[j] \in 1..N
      BY <1>3
    <3>2. ~(rank[i] < rank[j]) /\ ~(rank[j] < rank[i])
      BY <2>2, <3>1, <1>1
    <3> HIDE DEF rank
    <3> QED
      BY <1>1, <1>4, <3>2
  <2> HIDE DEF rank
  <2> QED
    BY <2>1, <2>2 DEF Injection, IsInjective
<1>6. rank \in Surjection(left, 1..N)
  <2>1. IsFiniteSet(1..N) /\ Cardinality(1..N) = N
    BY <1>1, FS_Interval
  <2> QED
    BY <2>1, <1>5, FS_Injection
<1>7. ASSUME NEW n \in 1..N
      PROVE  at[n] \in left /\ rank[at[n]] = n
  <2>1. \E i \in left : rank[i] = n
    <3> HIDE DEF rank
    <3> QED
      BY <1>6 DEF Surjection
  <2>2. \E i \in left : Cardinality(upto(i)) = n
    BY <2>1
  <2> HIDE DEF upto
  <2> QED
    BY <2>2
<1>8. Without(s, id) = [n \in 1..N |-> s[at[n]]]
  <2> HIDE DEF upto
  <2> QED BY <1>w
<1>9. at \in [1..N -> DOMAIN s]
  <2>1. \A n \in 1..N : at[n] \in DOMAIN s
    BY <1>7, <1>2
  <2> HIDE DEF upto
  <2>2. DOMAIN at = 1..N /\ at = [n \in 1..N |-> at[n]]
    OBVIOUS
  <2> HIDE DEF at
  <2> QED BY <2>1, <2>2
<1>10. \A i \in left : at[rank[i]] = i
  <2> TAKE i \in left
  <2>1. rank[i] \in 1..N
    BY <1>3
  <2>2. at[rank[i]] \in left /\ rank[at[rank[i]]] = rank[i]
    BY <1>7, <2>1
  <2> HIDE DEF rank, at
  <2> QED
    BY <1>5, <2>2 DEF Injection, IsInjective
<1>11. \A i \in left : rank[i] \in 1..N
  BY <1>3
<1>12. \A n \in 1..N : at[n] \in left /\ rank[at[n]] = n
  BY <1>7
<1> HIDE DEF rank, at
<1> DEFINE t == Without(s, id)
<1>13. DOMAIN t = 1..N /\ \A n \in 1..N : t[n] = s[at[n]]
  BY <1>8
<1>14. t \in Seq(S)
  <2>1. \A n \in 1..N : s[at[n]] \in S
    BY <1>9
  <2> QED
    BY <1>1, <1>8, <2>1
<1> HIDE DEF t
<1>15. \A m, n \in DOMAIN t : at[m] = at[n] => m = n
  BY <1>12, <1>13
<1>16. \A n \in DOMAIN t : t[n] = s[at[n]] /\ s[at[n]].id # id
  BY <1>2, <1>12, <1>13
<1>17. at \in [DOMAIN t -> DOMAIN s]
  BY <1>9, <1>13
<1>18. \A i \in DOMAIN s : s[i].id # id => \E n \in DOMAIN t : t[n] = s[i]
  BY <1>2a, <1>10, <1>11, <1>13
<1> QED
  BY <1>14, <1>15, <1>16, <1>17, <1>18 DEF t

\* What retain leaves is numbered.
LEMMA WithoutNumbers ==
    ASSUME NEW S, NEW s \in Seq(S), NEW id, NEW n, Numbered(s, n)
    PROVE  /\ Without(s, id) \in Seq(S) /\ Numbered(Without(s, id), n)
           /\ \A k \in DOMAIN Without(s, id) : \E i \in DOMAIN s : Without(s, id)[k] = s[i]
<1> DEFINE t == Without(s, id)
<1>1. t \in Seq(S)
  BY WithoutIs
<1>2. PICK at \in [DOMAIN t -> DOMAIN s] :
         /\ \A m, k \in DOMAIN t : at[m] = at[k] => m = k
         /\ \A k \in DOMAIN t : t[k] = s[at[k]] /\ s[at[k]].id # id
  BY WithoutIs
<1> HIDE DEF t
<1>3. Distinct(t)
  BY <1>2 DEF Numbered, Distinct
<1>4. Below(t, n)
  BY <1>2 DEF Numbered, Below
<1> QED
  BY <1>1, <1>2, <1>3, <1>4 DEF Numbered, t

\* Saving by index keeps a list of items a list of items.
LEMMA PutAtIs ==
    ASSUME NEW S, NEW s \in Seq(S), NEW i, NEW x \in S
    PROVE  PutAt(s, i, x) \in Seq(S)
BY DEF PutAt

\* Moving a rule up or down keeps a list of items a list of items.
LEMMA SwappedIs ==
    ASSUME NEW S, NEW s \in Seq(S), NEW i \in DOMAIN s, NEW j \in DOMAIN s
    PROVE  Swapped(s, i, j) \in Seq(S)
BY DEF Swapped

\* The items before and after an index.
LEMMA PartIs ==
    ASSUME NEW S, NEW s \in Seq(S), NEW i \in DOMAIN s
    PROVE  /\ SubSeq(s, 1, i - 1) \in Seq(S)
           /\ SubSeq(s, 1, i) \in Seq(S)
           /\ SubSeq(s, i + 1, Len(s)) \in Seq(S)
<1>1. i \in 1..Len(s) /\ Len(s) \in Nat /\ \A j \in 1..Len(s) : s[j] \in S
  OBVIOUS
<1>2. ASSUME NEW m \in Int, NEW n \in Int, 1 <= m, n <= Len(s)
      PROVE  SubSeq(s, m, n) \in Seq(S)
  <2>1. \A j \in m..n : s[j] \in S
    BY <1>1, <1>2
  <2> QED
    BY <2>1, SubSeqProperties
<1>3. SubSeq(s, 1, i - 1) \in Seq(S)
  BY <1>1, <1>2
<1>4. SubSeq(s, 1, i) \in Seq(S)
  BY <1>1, <1>2
<1>5. SubSeq(s, i + 1, Len(s)) \in Seq(S)
  BY <1>1, <1>2
<1> QED
  BY <1>3, <1>4, <1>5

\* Deleting by index keeps a list of items a list of items.
LEMMA RemovedAt ==
    ASSUME NEW S, NEW s \in Seq(S), NEW i \in DOMAIN s
    PROVE  RemoveAt(s, i) \in Seq(S)
<1>1. SubSeq(s, 1, i - 1) \in Seq(S) /\ SubSeq(s, i + 1, Len(s)) \in Seq(S)
  BY PartIs
<1> QED
  BY <1>1, ConcatProperties DEF RemoveAt

\* Duplicating a rule behind itself keeps a list of items a list of items.
LEMMA InsertedAt ==
    ASSUME NEW S, NEW s \in Seq(S), NEW i \in DOMAIN s, NEW x \in S
    PROVE  InsertAt(s, i + 1, x) \in Seq(S)
<1>1. /\ SubSeq(s, 1, i) \in Seq(S)
      /\ SubSeq(s, i + 1, Len(s)) \in Seq(S)
      /\ <<x>> \in Seq(S)
  BY PartIs
<1>2. SubSeq(s, 1, i) \o <<x>> \in Seq(S)
  BY <1>1, ConcatProperties
<1>3. (SubSeq(s, 1, i) \o <<x>>) \o SubSeq(s, i + 1, Len(s)) \in Seq(S)
  BY <1>1, <1>2, ConcatProperties
<1>4. i + 1 - 1 = i
  OBVIOUS
<1> QED
  BY <1>3, <1>4 DEF InsertAt

-----------------------------------------------------------------------------
(***************************************************************************)
(* sync_draft.                                                             *)
(***************************************************************************)

\* What the program writes into a field, or trims, is a text.
LEMMA Texts ==
    /\ {NoText, "default", "direct", "block", "VLESS", "MASQUE", "WARP", "r-outbound"} \subseteq Text
    /\ \A t \in Text : Trimmed[t] \in Text
BY TextAssumption DEF FixedText

\* A certificate that is found for a reference has its name, but for white space.
LEMMA CertificateAtIs ==
    ASSUME NEW certs \in Seq(Certificate), NEW ref
    PROVE  CertificateAt(certs, ref) # 0 =>
              /\ CertificateAt(certs, ref) \in DOMAIN certs
              /\ Trimmed[certs[CertificateAt(certs, ref)].name] = Trimmed[ref]
<1> DEFINE I == {i \in 1..Len(certs) : ~Blank(ref) /\ Trimmed[certs[i].name] = Trimmed[ref]}
<1>1. CertificateAt(certs, ref) = IF I # {} THEN Min(I) ELSE 0
  BY DEF CertificateAt, SelectInSeq
<1>2. I \in SUBSET Nat /\ \A i \in I : i \in DOMAIN certs /\ Trimmed[certs[i].name] = Trimmed[ref]
  OBVIOUS
<1> HIDE DEF I
<1> QED
  BY <1>1, <1>2, LeastIsOne

\* sync_draft leaves an inbound an inbound, with its id.
LEMMA SyncInboundIs ==
    ASSUME NEW certs \in Seq(Certificate), NEW in \in Inbound
    PROVE  SyncInbound(certs, in) \in Inbound /\ SyncInbound(certs, in).id = in.id
<1> DEFINE at == CertificateAt(certs, in.cert)
<1>1. at # 0 => at \in DOMAIN certs
  BY CertificateAtIs
<1> HIDE DEF at
<1>2. at # 0 => certs[at].name \in Text
  <2>1. at # 0 => certs[at] \in Certificate
    BY <1>1
  <2> QED
    BY <2>1 DEF Certificate, ItemId
<1>3. at # 0 => Trimmed[certs[at].name] \in Text
  BY <1>2, Texts
<1>4. SyncInbound(certs, in) = IF at = 0 THEN in ELSE [in EXCEPT !.cert = Trimmed[certs[at].name]]
  BY DEF SyncInbound, at
<1> QED
  BY <1>3, <1>4 DEF Inbound, ItemId

\* sync_draft leaves a reverse proxy a reverse proxy.
LEMMA SyncReverseIs ==
    ASSUME NEW r \in ReverseProxy
    PROVE  SyncReverse(r) \in ReverseProxy
BY Texts DEF SyncReverse, ReverseProxy

\* sync_draft leaves an outbound an outbound, with its id.
LEMMA SyncOutboundIs ==
    ASSUME NEW o \in Outbound
    PROVE  SyncOutbound(o) \in Outbound /\ SyncOutbound(o).id = o.id
BY Texts DEF SyncOutbound, Outbound, ItemId

\* sync_draft leaves a rule a rule, for the same users.
LEMMA SyncRuleIs ==
    ASSUME NEW r \in Rule
    PROVE  /\ SyncRule(r) \in Rule
           /\ SyncRule(r).users = r.users /\ SyncRule(r).limited = r.limited
BY Texts DEF SyncRule, Rule

\* What sync_draft puts into an empty draft.
LEMMA BuiltinIs ==
    /\ Builtin(1, "direct", "DIRECT") \in Outbound /\ Builtin(1, "direct", "DIRECT").id = 1
    /\ Builtin(2, "block", "BLOCK") \in Outbound /\ Builtin(2, "block", "BLOCK").id = 2
    /\ DefaultRule \in Rule /\ ~DefaultRule.limited
BY Texts DEF Builtin, Outbound, ItemId, OutboundType, DefaultRule, Rule

\* The inbounds and reverse proxies that sync_draft leaves.
LEMMA SyncedSequences ==
    /\ \A certs \in Seq(Certificate), s \in Seq(Inbound) :
          [i \in DOMAIN s |-> SyncInbound(certs, s[i])] \in Seq(Inbound)
    /\ \A s \in Seq(ReverseProxy) : [i \in DOMAIN s |-> SyncReverse(s[i])] \in Seq(ReverseProxy)
BY SyncInboundIs, SyncReverseIs

\* sync_draft, list by list: the certificates and DNS servers are left alone.
LEMMA SyncIs ==
    ASSUME NEW d \in Draft
    PROVE  /\ Sync(d) \in Draft
           /\ Sync(d).certs = d.certs /\ Sync(d).dns = d.dns
           /\ Sync(d).inbounds = [i \in DOMAIN d.inbounds |-> SyncInbound(d.certs, d.inbounds[i])]
           /\ Sync(d).reverses = [i \in DOMAIN d.reverses |-> SyncReverse(d.reverses[i])]
           /\ LET outs == IF d.outbounds # <<>> THEN d.outbounds
                          ELSE <<Builtin(1, "direct", "DIRECT"), Builtin(2, "block", "BLOCK")>>
              IN  Sync(d).outbounds = [i \in DOMAIN outs |-> SyncOutbound(outs[i])]
           /\ LET rules == IF d.rules # <<>> THEN d.rules ELSE <<DefaultRule>>
              IN  Sync(d).rules = [i \in DOMAIN rules |-> SyncRule(rules[i])]
<1> DEFINE ins   == [i \in DOMAIN d.inbounds |-> SyncInbound(d.certs, d.inbounds[i])]
           revs  == [i \in DOMAIN d.reverses |-> SyncReverse(d.reverses[i])]
           outs  == IF d.outbounds # <<>> THEN d.outbounds
                    ELSE <<Builtin(1, "direct", "DIRECT"), Builtin(2, "block", "BLOCK")>>
           sent  == [i \in DOMAIN outs |-> SyncOutbound(outs[i])]
           rules == IF d.rules # <<>> THEN d.rules ELSE <<DefaultRule>>
           ruled == [i \in DOMAIN rules |-> SyncRule(rules[i])]
<1>1. /\ d.certs \in Seq(Certificate) /\ d.inbounds \in Seq(Inbound)
      /\ d.reverses \in Seq(ReverseProxy) /\ d.dns \in Seq(Text)
      /\ d.outbounds \in Seq(Outbound) /\ d.rules \in Seq(Rule)
  BY DEF Draft
<1>2. outs \in Seq(Outbound) /\ rules \in Seq(Rule)
  BY <1>1, BuiltinIs
<1>3. Sync(d) = [d EXCEPT !.inbounds = ins, !.reverses = revs, !.outbounds = sent, !.rules = ruled]
  BY DEF Sync, Mapped
<1>4. ins \in Seq(Inbound) /\ revs \in Seq(ReverseProxy)
  BY <1>1, SyncedSequences
<1> HIDE DEF outs, rules
<1>6. sent \in Seq(Outbound)
  BY <1>2, SyncOutboundIs
<1>7. ruled \in Seq(Rule)
  BY <1>2, SyncRuleIs
<1> HIDE DEF ins, revs, sent, ruled
<1>8. /\ Sync(d) \in Draft
      /\ Sync(d).certs = d.certs /\ Sync(d).dns = d.dns
      /\ Sync(d).inbounds = ins /\ Sync(d).reverses = revs
      /\ Sync(d).outbounds = sent /\ Sync(d).rules = ruled
  BY <1>3, <1>4, <1>6, <1>7 DEF Draft
<1> QED
  BY <1>8 DEF ins, revs, sent, ruled, outs, rules

-----------------------------------------------------------------------------
(***************************************************************************)
(* The invariant. Items of a kind have ids of their own, below the next    *)
(* one, in the draft and in every draft an ACME request will put back; an  *)
(* open popup shows what the draft has, or a new item with the next id;    *)
(* a limited rule names users until an account is deleted.                 *)
(***************************************************************************)

\* A well-formed draft, with ids below n.
DraftOK(d, n) ==
    /\ d \in Draft
    /\ Numbered(d.certs, n) /\ Numbered(d.inbounds, n) /\ Numbered(d.outbounds, n)

\* Limited rules name users.
LimitedRule == {r \in Rule : r.limited => r.users # {}}
Limited(d) == d.rules \in Seq(LimitedRule)

\* What a popup's item is.
PopupOK(p) ==
    /\ p.kind \in {"certificate", "acme"} => p.item \in Certificate /\ p.item.id <= FreshId
    /\ p.kind \in {"inbound", "duplicateInbound"} => p.item \in Inbound /\ p.item.id <= FreshId
    /\ p.kind \in {"outbound", "duplicateOutbound"} => p.item \in Outbound /\ p.item.id <= FreshId
    /\ p.kind \in {"reverse", "duplicateReverse"} => p.item \in ReverseProxy
    /\ p.kind = "rule" => p.item \in Rule

\* A popup's item is found under its id, or at its index.
Has(s, p) == At(s, p.at) # 0 /\ ById(s, p.at) = p.item
HasAt(s, p) == p.at \in DOMAIN s /\ s[p.at] = p.item

\* What a popup shows is what the draft has.
Matches(p) ==
    /\ p.kind \in {"certificate", "acme"} =>
          \/ p.kind = "certificate" /\ p.at = NewAt /\ p.item.id = FreshId
          \/ Has(Current.certs, p)
    /\ p.kind \in {"inbound", "deleteInbound"} =>
          \/ p.kind = "inbound" /\ p.at = NewAt /\ p.item.id = FreshId
          \/ Has(Current.inbounds, p)
    /\ p.kind \in {"outbound", "deleteOutbound"} =>
          \/ p.kind = "outbound" /\ p.at = NewAt /\ p.item.id = FreshId
          \/ Has(Current.outbounds, p)
    /\ p.kind \in {"reverse", "deleteReverse"} => p.at = NewAt \/ HasAt(Current.reverses, p)
    /\ p.kind = "rule" => IF p.at \in DOMAIN Current.rules THEN Current.rules[p.at] = p.item
                          ELSE p.at = Len(Current.rules) + 1
    /\ p.kind = "deleteRule" => HasAt(Current.rules, p)
    /\ p.kind = "dns" => IF p.at \in DOMAIN Current.dns THEN Current.dns[p.at] = p.item
                         ELSE p.at = Len(Current.dns) + 1

\* The draft, the requests' drafts and the popup.
EditorOK ==
    /\ edits \in Nat /\ accounts \subseteq Account
    /\ DraftOK(draft, FreshId)
    /\ \A job \in jobs : DraftOK(job.of, FreshId)
    /\ PopupOK(popup)

LimitedOK ==
    accounts = Account => Limited(draft) /\ \A job \in jobs : Limited(job.of)

EditorInv == EditorOK /\ LimitedOK /\ (~stale => Matches(popup))

\* What a handler may leave: it has given out one id at most.
Edited(d) == DraftOK(d, FreshId + 1) /\ (accounts = Account => Limited(d))

\* Ids below a number are below any later one.
LEMMA NumberedLater ==
    ASSUME NEW S, \A y \in S : y.id \in Nat, NEW s \in Seq(S), NEW m \in Nat, NEW n \in Nat, m <= n,
           Numbered(s, m)
    PROVE  Numbered(s, n)
<1>1. \A i \in DOMAIN s : s[i].id \in Nat
  OBVIOUS
<1> QED
  BY <1>1 DEF Numbered, Below

\* The lists of a draft.
LEMMA Parts ==
    ASSUME NEW d \in Draft
    PROVE  /\ d.certs \in Seq(Certificate) /\ d.inbounds \in Seq(Inbound)
           /\ d.reverses \in Seq(ReverseProxy) /\ d.dns \in Seq(Text)
           /\ d.outbounds \in Seq(Outbound) /\ d.rules \in Seq(Rule)
BY DEF Draft

\* Ids are numbers.
LEMMA Ids ==
    /\ \A y \in Certificate : y.id \in Nat
    /\ \A y \in Inbound : y.id \in Nat
    /\ \A y \in Outbound : y.id \in Nat
BY DEF Certificate, Inbound, Outbound, ItemId

\* A draft that was well formed stays so when later ids are given out.
LEMMA DraftLater ==
    ASSUME NEW d, NEW m \in Nat, NEW n \in Nat, m <= n, DraftOK(d, m)
    PROVE  DraftOK(d, n)
<1>1. d \in Draft /\ Numbered(d.certs, m) /\ Numbered(d.inbounds, m) /\ Numbered(d.outbounds, m)
  BY DEF DraftOK
<1>2. Numbered(d.certs, n)
  BY <1>1, Parts, Ids, NumberedLater
<1>3. Numbered(d.inbounds, n)
  BY <1>1, Parts, Ids, NumberedLater
<1>4. Numbered(d.outbounds, n)
  BY <1>1, Parts, Ids, NumberedLater
<1> QED
  BY <1>1, <1>2, <1>3, <1>4 DEF DraftOK

\* sync_draft keeps a draft well formed, and its limited rules limited.
LEMMA SyncKeeps ==
    ASSUME NEW d, NEW n \in Nat, FirstId <= n, DraftOK(d, n)
    PROVE  DraftOK(Sync(d), n) /\ (Limited(d) => Limited(Sync(d)))
<1>1. d \in Draft /\ Numbered(d.certs, n) /\ Numbered(d.inbounds, n) /\ Numbered(d.outbounds, n)
  BY DEF DraftOK
<1>2. /\ Sync(d) \in Draft /\ Sync(d).certs = d.certs
      /\ Sync(d).inbounds = [i \in DOMAIN d.inbounds |-> SyncInbound(d.certs, d.inbounds[i])]
  BY <1>1, SyncIs
<1>3. Numbered(Sync(d).inbounds, n)
  <2>1. \A i \in DOMAIN d.inbounds : Sync(d).inbounds[i].id = d.inbounds[i].id
    <3>1. \A i \in DOMAIN d.inbounds : d.inbounds[i] \in Inbound
      BY <1>1, Parts
    <3> QED
      BY <1>1, <1>2, <3>1, Parts, SyncInboundIs
  <2>2. DOMAIN Sync(d).inbounds = DOMAIN d.inbounds
    BY <1>2
  <2> QED
    BY <1>1, <2>1, <2>2 DEF Numbered, Distinct, Below
<1>4. Numbered(Sync(d).outbounds, n)
  <2> DEFINE new  == <<Builtin(1, "direct", "DIRECT"), Builtin(2, "block", "BLOCK")>>
             outs == IF d.outbounds # <<>> THEN d.outbounds ELSE new
  <2>1. Sync(d).outbounds = [i \in DOMAIN outs |-> SyncOutbound(outs[i])]
    BY <1>1, SyncIs
  <2>2. Numbered(outs, n) /\ outs \in Seq(Outbound)
    <3>1. CASE d.outbounds # <<>>
      BY <1>1, <3>1, Parts
    <3>2. CASE d.outbounds = <<>>
      <4>1. outs = new /\ DOMAIN new = 1..2 /\ new \in Seq(Outbound)
        BY <3>2, BuiltinIs
      <4>2. new[1].id = 1 /\ new[2].id = 2 /\ 2 < n
        BY BuiltinIs DEF FirstId
      <4> HIDE DEF new, outs
      <4> QED
        BY <4>1, <4>2 DEF Numbered, Distinct, Below
    <3> QED
      BY <3>1, <3>2
  <2> HIDE DEF outs
  <2>3. \A i \in DOMAIN outs : Sync(d).outbounds[i].id = outs[i].id
    <3>1. \A i \in DOMAIN outs : outs[i] \in Outbound
      BY <2>2
    <3> QED
      BY <2>1, <3>1, SyncOutboundIs
  <2>4. DOMAIN Sync(d).outbounds = DOMAIN outs
    BY <2>1
  <2> QED
    BY <2>2, <2>3, <2>4 DEF Numbered, Distinct, Below
<1>5. ASSUME Limited(d) PROVE Limited(Sync(d))
  <2> DEFINE rules == IF d.rules # <<>> THEN d.rules ELSE <<DefaultRule>>
  <2>1. Sync(d).rules = [i \in DOMAIN rules |-> SyncRule(rules[i])]
    BY <1>1, SyncIs
  <2>2. rules \in Seq(LimitedRule)
    <3>1. DefaultRule \in LimitedRule
      BY BuiltinIs DEF LimitedRule
    <3> QED
      BY <1>5, <3>1 DEF Limited
  <2> HIDE DEF rules
  <2>3. \A r \in LimitedRule : SyncRule(r) \in LimitedRule
    BY SyncRuleIs DEF LimitedRule
  <2>4. [i \in DOMAIN rules |-> SyncRule(rules[i])] \in Seq(LimitedRule)
    BY <2>2, <2>3
  <2> QED
    BY <2>1, <2>4 DEF Limited
<1> QED
  BY <1>1, <1>2, <1>3, <1>4, <1>5 DEF DraftOK

\* The next id is one, above those the page was opened with.
LEMMA FreshIs ==
    ASSUME edits \in Nat
    PROVE  FreshId \in ItemId /\ FreshId \in Nat /\ FreshId + 1 \in Nat /\ FirstId <= FreshId /\ FirstId <= FreshId + 1
BY DEF FreshId, FirstId, ItemId

\* What the tabs show is as well formed as the draft in memory.
LEMMA CurrentIs ==
    ASSUME EditorInv
    PROVE  /\ DraftOK(Current, FreshId) /\ Current \in Draft /\ Edited(Current)
           /\ Current.certs = draft.certs
           /\ accounts = Account => Limited(Current)
<1>1. DraftOK(Current, FreshId) /\ (accounts = Account => Limited(Current))
  BY SyncKeeps, FreshIs DEF EditorInv, EditorOK, LimitedOK, Current
<1>2. draft \in Draft
  BY DEF EditorInv, EditorOK, DraftOK
<1>3. DraftOK(Current, FreshId + 1)
  BY <1>1, DraftLater, FreshIs DEF EditorInv, EditorOK
<1> QED
  BY <1>1, <1>2, <1>3, SyncIs DEF DraftOK, Edited, Current

\* A handler that leaves a well-formed draft keeps the invariant.
LEMMA ChangeKeeps ==
    ASSUME EditorInv, NEW d, Edited(d), Change(d)
    PROVE  EditorInv'
<1>1. edits \in Nat /\ edits' = edits + 1 /\ FreshId' = FreshId + 1 /\ edits' \in Nat
  BY DEF EditorInv, EditorOK, Change, FreshId, FirstId
<1>2. DraftOK(draft, FreshId)' /\ (accounts' = Account => Limited(draft)')
  BY <1>1 DEF Edited, Change, DraftOK, Limited
<1>3. \A job \in jobs' : DraftOK(job.of, FreshId + 1)
  BY DraftLater, FreshIs DEF EditorInv, EditorOK, Change
<1>4. popup'.kind = "none"
  BY DEF Change, Closed
<1>5. PopupOK(popup)' /\ Matches(popup)'
  BY <1>4 DEF PopupOK, Matches
<1>6. EditorOK'
  BY <1>1, <1>2, <1>3, <1>5 DEF EditorInv, EditorOK, Change, DraftOK
<1>7. LimitedOK'
  BY <1>2 DEF EditorInv, LimitedOK, Change, Limited
<1> QED
  BY <1>5, <1>6, <1>7 DEF EditorInv

\* So does one that runs sync_draft over it.
LEMMA SyncedChange ==
    ASSUME EditorInv, NEW d, Edited(d), Change(Sync(d))
    PROVE  EditorInv'
<1>1. edits \in Nat
  BY DEF EditorInv, EditorOK
<1>2. Edited(Sync(d))
  BY <1>1, SyncKeeps, FreshIs DEF Edited
<1> QED
  BY <1>2, ChangeKeeps

\* Opening a popup on what the draft has keeps the invariant.
LEMMA OpenKeeps ==
    ASSUME EditorInv, NEW p, PopupOK(p), Matches(p), Open(p)
    PROVE  EditorInv'
<1>1. /\ UNCHANGED <<draft, jobs, accounts, edits, stale>> /\ popup' = p
      /\ FreshId' = FreshId /\ Current' = Current
  BY DEF Open, FreshId, Current
<1>2. PopupOK(popup)'
  BY <1>1 DEF PopupOK
<1>3. Matches(popup)'
  BY <1>1 DEF Matches, Has, HasAt
<1> QED
  BY <1>1, <1>2, <1>3 DEF EditorInv, EditorOK, LimitedOK, DraftOK

-----------------------------------------------------------------------------
(***************************************************************************)
(* The handlers, tab by tab.                                               *)
(***************************************************************************)

\* A draft is well formed when one list of a well-formed one is replaced.
LEMMA EditedParts ==
    ASSUME EditorInv
    PROVE  /\ \A s \in Seq(Inbound) : Numbered(s, FreshId + 1) => Edited([Current EXCEPT !.inbounds = s])
           /\ \A s \in Seq(Outbound) : Numbered(s, FreshId + 1) => Edited([Current EXCEPT !.outbounds = s])
           /\ \A s \in Seq(ReverseProxy) : Edited([Current EXCEPT !.reverses = s])
           /\ \A s \in Seq(Rule) :
                 (accounts = Account => s \in Seq(LimitedRule)) => Edited([Current EXCEPT !.rules = s])
           /\ \A s \in Seq(Text) : Edited([Current EXCEPT !.dns = s])
           /\ \A s \in Seq(Certificate), t \in Seq(Inbound) :
                 (Numbered(s, FreshId + 1) /\ Numbered(t, FreshId + 1))
                    => Edited([Current EXCEPT !.certs = s, !.inbounds = t])
<1>1. Edited(Current) /\ Current \in Draft
  BY CurrentIs
<1> DEFINE c == Current
<1>2. c \in Draft /\ Edited(c)
  BY <1>1
<1> HIDE DEF c
<1>3. \A s \in Seq(Inbound) : Numbered(s, FreshId + 1) => Edited([c EXCEPT !.inbounds = s])
  BY <1>2 DEF Edited, DraftOK, Limited, Draft
<1>4. \A s \in Seq(Outbound) : Numbered(s, FreshId + 1) => Edited([c EXCEPT !.outbounds = s])
  BY <1>2 DEF Edited, DraftOK, Limited, Draft
<1>5. \A s \in Seq(ReverseProxy) : Edited([c EXCEPT !.reverses = s])
  BY <1>2 DEF Edited, DraftOK, Limited, Draft
<1>6. \A s \in Seq(Rule) :
         (accounts = Account => s \in Seq(LimitedRule)) => Edited([c EXCEPT !.rules = s])
  BY <1>2 DEF Edited, DraftOK, Limited, Draft
<1>7. \A s \in Seq(Text) : Edited([c EXCEPT !.dns = s])
  BY <1>2 DEF Edited, DraftOK, Limited, Draft
<1>8. \A s \in Seq(Certificate), t \in Seq(Inbound) :
         (Numbered(s, FreshId + 1) /\ Numbered(t, FreshId + 1))
            => Edited([c EXCEPT !.certs = s, !.inbounds = t])
  BY <1>2 DEF Edited, DraftOK, Limited, Draft
<1> QED
  BY <1>3, <1>4, <1>5, <1>6, <1>7, <1>8 DEF c

\* The lists that the tabs show.
LEMMA CurrentParts ==
    ASSUME EditorInv
    PROVE  /\ FreshId \in ItemId /\ FreshId \in Nat /\ FreshId + 1 \in Nat /\ edits \in Nat /\ FirstId <= FreshId
           /\ Current.certs \in Seq(Certificate) /\ Numbered(Current.certs, FreshId)
           /\ Current.inbounds \in Seq(Inbound) /\ Numbered(Current.inbounds, FreshId)
           /\ Current.outbounds \in Seq(Outbound) /\ Numbered(Current.outbounds, FreshId)
           /\ Numbered(Current.certs, FreshId + 1)
           /\ Numbered(Current.inbounds, FreshId + 1)
           /\ Numbered(Current.outbounds, FreshId + 1)
           /\ Current.reverses \in Seq(ReverseProxy)
           /\ Current.rules \in Seq(Rule)
           /\ (accounts = Account => Current.rules \in Seq(LimitedRule))
           /\ Current.dns \in Seq(Text)
<1>1. edits \in Nat
  BY DEF EditorInv, EditorOK
<1> QED
  BY <1>1, CurrentIs, FreshIs, Parts DEF DraftOK, Limited, Edited

\* An item that is shown is the one found under its id.
LEMMA FoundIs ==
    ASSUME NEW S, NEW s \in Seq(S), NEW x \in ToSet(s), Distinct(s)
    PROVE  At(s, x.id) # 0 /\ ById(s, x.id) = x
<1>1. PICK i \in DOMAIN s : s[i] = x
  BY DEF ToSet
<1>2. At(s, x.id) # 0
  BY <1>1, AtIs
<1>3. At(s, x.id) \in DOMAIN s /\ s[At(s, x.id)].id = x.id
  BY <1>2, AtIs
<1>4. At(s, x.id) = i
  BY <1>1, <1>3 DEF Distinct
<1> QED
  BY <1>1, <1>2, <1>4 DEF ById

\* So a popup that is opened on it shows what its handler will find.
LEMMA ShownItems ==
    ASSUME EditorInv
    PROVE  /\ \A x \in ToSet(Current.certs) :
                 x \in Certificate /\ x.id <= FreshId /\ x.id < FreshId /\ At(Current.certs, x.id) # 0 /\ ById(Current.certs, x.id) = x
           /\ \A x \in ToSet(Current.inbounds) :
                 x \in Inbound /\ x.id <= FreshId /\ At(Current.inbounds, x.id) # 0 /\ ById(Current.inbounds, x.id) = x
           /\ \A x \in ToSet(Current.outbounds) :
                 x \in Outbound /\ x.id <= FreshId /\ At(Current.outbounds, x.id) # 0 /\ ById(Current.outbounds, x.id) = x
<1>1. ASSUME NEW x \in ToSet(Current.certs)
      PROVE  x \in Certificate /\ x.id < FreshId /\ x.id <= FreshId /\ At(Current.certs, x.id) # 0 /\ ById(Current.certs, x.id) = x
  <2>1. x \in Certificate /\ x.id < FreshId
    BY CurrentParts DEF ToSet, Numbered, Below
  <2>2. x.id \in Nat /\ FreshId \in Nat
    BY <2>1, Ids, CurrentParts
  <2> QED
    BY <2>1, <2>2, CurrentParts, FoundIs DEF Numbered
<1>2. ASSUME NEW x \in ToSet(Current.inbounds)
      PROVE  x \in Inbound /\ x.id <= FreshId /\ At(Current.inbounds, x.id) # 0 /\ ById(Current.inbounds, x.id) = x
  <2>1. x \in Inbound /\ x.id < FreshId
    BY CurrentParts DEF ToSet, Numbered, Below
  <2>2. x.id \in Nat /\ FreshId \in Nat
    BY <2>1, Ids, CurrentParts
  <2> QED
    BY <2>1, <2>2, CurrentParts, FoundIs DEF Numbered
<1>3. ASSUME NEW x \in ToSet(Current.outbounds)
      PROVE  x \in Outbound /\ x.id <= FreshId /\ At(Current.outbounds, x.id) # 0 /\ ById(Current.outbounds, x.id) = x
  <2>1. x \in Outbound /\ x.id < FreshId
    BY CurrentParts DEF ToSet, Numbered, Below
  <2>2. x.id \in Nat /\ FreshId \in Nat
    BY <2>1, Ids, CurrentParts
  <2> QED
    BY <2>1, <2>2, CurrentParts, FoundIs DEF Numbered
<1> QED
  BY <1>1, <1>2, <1>3

\* The handlers of the Inbounds tab keep the invariant.
LEMMA InboundStep ==
    ASSUME EditorInv, InboundTab
    PROVE  EditorInv'
<1>1. CASE NewInbound
  <2> DEFINE p == Popup("inbound", NewAt, [id |-> FreshId, cert |-> NoText])
  <2>1. PopupOK(p) /\ Matches(p) /\ Open(p)
    BY <1>1, CurrentParts, Texts DEF NewInbound, PopupOK, Matches, Popup, Inbound, ItemId
  <2> QED
    BY <2>1, OpenKeeps
<1>2. CASE EditInbound
  <2>1. PICK in \in ToSet(Current.inbounds) : Open(Popup("inbound", in.id, in))
    BY <1>2 DEF EditInbound
  <2>2. PopupOK(Popup("inbound", in.id, in)) /\ Matches(Popup("inbound", in.id, in))
    BY ShownItems DEF PopupOK, Matches, Has, Popup
  <2> QED
    BY <2>1, <2>2, OpenKeeps
<1>3. CASE AskDeleteInbound
  <2>1. PICK in \in ToSet(Current.inbounds) : Open(Popup("deleteInbound", in.id, in))
    BY <1>3 DEF AskDeleteInbound
  <2>2. PopupOK(Popup("deleteInbound", in.id, in)) /\ Matches(Popup("deleteInbound", in.id, in))
    BY ShownItems DEF PopupOK, Matches, Has, Popup
  <2> QED
    BY <2>1, <2>2, OpenKeeps
<1>4. CASE AskDuplicateInbound
  <2>1. PICK in \in ToSet(Current.inbounds) : Open(Popup("duplicateInbound", NewAt, in))
    BY <1>4 DEF AskDuplicateInbound
  <2>2. PopupOK(Popup("duplicateInbound", NewAt, in)) /\ Matches(Popup("duplicateInbound", NewAt, in))
    BY ShownItems DEF PopupOK, Matches, Has, Popup
  <2> QED
    BY <2>1, <2>2, OpenKeeps
<1>5. CASE SaveInbound
  <2>1. popup.item \in Inbound /\ popup.item.id <= FreshId
    BY <1>5 DEF SaveInbound, EditorInv, EditorOK, PopupOK
  <2>2. PICK cert \in {popup.item.cert} \cup {c.name : c \in ToSet(draft.certs)} :
           Change(Sync([Current EXCEPT !.inbounds = Put(@, [popup.item EXCEPT !.cert = cert])]))
    BY <1>5 DEF SaveInbound
  <2>3. cert \in Text
    <3>1. \A c \in ToSet(draft.certs) : c \in Certificate
      BY CurrentIs, ShownItems
    <3> QED
      BY <2>1, <3>1 DEF Inbound, Certificate, ItemId
  <2> DEFINE x == [popup.item EXCEPT !.cert = cert]
  <2>4. x \in Inbound /\ x.id = popup.item.id
    BY <2>1, <2>3 DEF Inbound, ItemId
  <2> HIDE DEF x
  <2>5. x.id < FreshId + 1
    BY <2>1, <2>4, Ids, CurrentParts
  <2>6. Put(Current.inbounds, x) \in Seq(Inbound) /\ Numbered(Put(Current.inbounds, x), FreshId + 1)
    BY <2>4, <2>5, Ids, CurrentParts, PutNumbers
  <2>7. Change(Sync([Current EXCEPT !.inbounds = Put(Current.inbounds, x)]))
    BY <2>2 DEF x
  <2> QED
    BY <2>6, <2>7, EditedParts, SyncedChange
<1>6. CASE DeleteInbound
  <2>1. /\ Without(Current.inbounds, popup.at) \in Seq(Inbound)
        /\ Numbered(Without(Current.inbounds, popup.at), FreshId + 1)
    BY CurrentParts, WithoutNumbers
  <2>2. Change(Sync([Current EXCEPT !.inbounds = Without(Current.inbounds, popup.at)]))
    BY <1>6 DEF DeleteInbound
  <2> QED
    BY <2>1, <2>2, EditedParts, SyncedChange
<1>7. CASE DuplicateInbound
  <2>1. popup.item \in Inbound
    BY <1>7 DEF DuplicateInbound, EditorInv, EditorOK, PopupOK
  <2> DEFINE x == [popup.item EXCEPT !.id = FreshId]
  <2>2. x \in Inbound /\ x.id = FreshId
    BY <2>1, CurrentParts DEF Inbound, ItemId
  <2> HIDE DEF x
  <2>3. /\ Append(Current.inbounds, x) \in Seq(Inbound)
        /\ Numbered(Append(Current.inbounds, x), FreshId + 1)
    BY <2>2, Ids, CurrentParts, AppendNumbers
  <2>4. Change(Sync([Current EXCEPT !.inbounds = Append(Current.inbounds, x)]))
    BY <1>7 DEF DuplicateInbound, x
  <2> QED
    BY <2>3, <2>4, EditedParts, SyncedChange
<1>8. CASE ToggleInbound
  <2>1. Change(Current)
    BY <1>8 DEF ToggleInbound
  <2> QED
    BY <2>1, CurrentIs, ChangeKeeps
<1> QED
  BY <1>1, <1>2, <1>3, <1>4, <1>5, <1>6, <1>7, <1>8 DEF InboundTab

\* The outbound wizard and the reverse proxy editor make items of their kind.
LEMMA EditedItems ==
    /\ \A o \in Outbound : \A n \in Reworked(o) : n \in Outbound /\ n.id = o.id
    /\ EditedReverse \subseteq ReverseProxy
BY EditorAssumption DEF Reworked, EditedReverse, Outbound, ItemId, OutboundType, ReverseProxy

\* The handlers of the outbounds keep the invariant.
LEMMA OutboundStep ==
    ASSUME EditorInv, OutboundTab
    PROVE  EditorInv'
<1>1. CASE NewOutbound
  <2>1. PICK new \in {<<"VLESS", "VLESS">>, <<"MASQUE", "OTHER">>} :
           Open(Popup("outbound", NewAt, [id |-> FreshId, name |-> new[1], type |-> new[2],
                                          enabled |-> TRUE, builtin |-> FALSE]))
    BY <1>1 DEF NewOutbound
  <2> DEFINE x == [id |-> FreshId, name |-> new[1], type |-> new[2], enabled |-> TRUE, builtin |-> FALSE]
  <2>2. x \in Outbound /\ x.id = FreshId
    BY CurrentParts, Texts DEF Outbound, ItemId, OutboundType
  <2> HIDE DEF x
  <2>3. PopupOK(Popup("outbound", NewAt, x)) /\ Matches(Popup("outbound", NewAt, x))
    BY <2>2, CurrentParts DEF PopupOK, Matches, Popup
  <2> QED
    BY <2>1, <2>3, OpenKeeps DEF x
<1>2. CASE EditOutbound
  <2>1. PICK x \in ToSet(Current.outbounds) : Open(Popup("outbound", x.id, x))
    BY <1>2 DEF EditOutbound
  <2>2. PopupOK(Popup("outbound", x.id, x)) /\ Matches(Popup("outbound", x.id, x))
    BY ShownItems DEF PopupOK, Matches, Has, Popup
  <2> QED
    BY <2>1, <2>2, OpenKeeps
<1>3. CASE AskDeleteOutbound
  <2>1. PICK x \in ToSet(Current.outbounds) : Open(Popup("deleteOutbound", x.id, x))
    BY <1>3 DEF AskDeleteOutbound
  <2>2. PopupOK(Popup("deleteOutbound", x.id, x)) /\ Matches(Popup("deleteOutbound", x.id, x))
    BY ShownItems DEF PopupOK, Matches, Has, Popup
  <2> QED
    BY <2>1, <2>2, OpenKeeps
<1>4. CASE AskDuplicateOutbound
  <2>1. PICK x \in ToSet(Current.outbounds) : Open(Popup("duplicateOutbound", NewAt, x))
    BY <1>4 DEF AskDuplicateOutbound
  <2>2. PopupOK(Popup("duplicateOutbound", NewAt, x)) /\ Matches(Popup("duplicateOutbound", NewAt, x))
    BY ShownItems DEF PopupOK, Matches, Has, Popup
  <2> QED
    BY <2>1, <2>2, OpenKeeps
<1>5. CASE SaveOutbound
  <2>1. popup.item \in Outbound /\ popup.item.id <= FreshId
    BY <1>5 DEF SaveOutbound, EditorInv, EditorOK, PopupOK
  <2>2. PICK o \in Reworked(popup.item) : Change(Sync([Current EXCEPT !.outbounds = Put(@, o)]))
    BY <1>5 DEF SaveOutbound
  <2>3. o \in Outbound /\ o.id = popup.item.id
    BY <2>1, EditedItems
  <2>4. o.id < FreshId + 1
    BY <2>1, <2>3, Ids, CurrentParts
  <2>5. Put(Current.outbounds, o) \in Seq(Outbound) /\ Numbered(Put(Current.outbounds, o), FreshId + 1)
    BY <2>3, <2>4, Ids, CurrentParts, PutNumbers
  <2>6. Change(Sync([Current EXCEPT !.outbounds = Put(Current.outbounds, o)]))
    BY <2>2
  <2> QED
    BY <2>5, <2>6, EditedParts, SyncedChange
<1>6. CASE DeleteOutbound
  <2>1. /\ Without(Current.outbounds, popup.at) \in Seq(Outbound)
        /\ Numbered(Without(Current.outbounds, popup.at), FreshId + 1)
    BY CurrentParts, WithoutNumbers
  <2>2. Change(Sync([Current EXCEPT !.outbounds = Without(Current.outbounds, popup.at)]))
    BY <1>6 DEF DeleteOutbound
  <2> QED
    BY <2>1, <2>2, EditedParts, SyncedChange
<1>7. CASE DuplicateOutbound
  <2>1. popup.item \in Outbound
    BY <1>7 DEF DuplicateOutbound, EditorInv, EditorOK, PopupOK
  <2>2. PICK name \in {t \in Typed : ~Blank(t)} :
           Change(Sync([Current EXCEPT !.outbounds =
                            Append(@, [popup.item EXCEPT !.id = FreshId, !.name = Trimmed[name]])]))
    BY <1>7 DEF DuplicateOutbound
  <2> DEFINE x == [popup.item EXCEPT !.id = FreshId, !.name = Trimmed[name]]
  <2>3. x \in Outbound /\ x.id = FreshId
    BY <2>1, CurrentParts, EditorAssumption, Texts DEF Outbound, ItemId
  <2> HIDE DEF x
  <2>4. /\ Append(Current.outbounds, x) \in Seq(Outbound)
        /\ Numbered(Append(Current.outbounds, x), FreshId + 1)
    BY <2>3, Ids, CurrentParts, AppendNumbers
  <2>5. Change(Sync([Current EXCEPT !.outbounds = Append(Current.outbounds, x)]))
    BY <2>2 DEF x
  <2> QED
    BY <2>4, <2>5, EditedParts, SyncedChange
<1>8. CASE ToggleOutbound
  <2>1. PICK i \in DOMAIN Current.outbounds : Change(Sync([Current EXCEPT !.outbounds[i].enabled = ~@]))
    BY <1>8 DEF ToggleOutbound
  <2> DEFINE outs == Current.outbounds
             s    == [outs EXCEPT ![i].enabled = ~@]
  <2>2. outs \in Seq(Outbound) /\ i \in DOMAIN outs /\ Numbered(outs, FreshId + 1)
    BY CurrentParts
  <2>3. Change(Sync([Current EXCEPT !.outbounds = s]))
    BY <2>1
  <2> HIDE DEF outs
  <2>4. outs[i] \in Outbound
    BY <2>2
  <2>5. [outs[i] EXCEPT !.enabled = ~@] \in Outbound /\ [outs[i] EXCEPT !.enabled = ~@].id = outs[i].id
    BY <2>4 DEF Outbound, ItemId
  <2>6. s \in Seq(Outbound) /\ DOMAIN s = DOMAIN outs /\ \A j \in DOMAIN outs : s[j].id = outs[j].id
    BY <2>2, <2>5
  <2> HIDE DEF s
  <2>7. Numbered(s, FreshId + 1)
    BY <2>2, <2>6 DEF Numbered, Distinct, Below
  <2> QED
    BY <2>3, <2>6, <2>7, EditedParts, SyncedChange
<1>9. CASE OpenWarp
  <2> DEFINE p == Popup("warp", NewAt, Closed)
  <2>1. PopupOK(p) /\ Matches(p) /\ Open(p)
    BY <1>9 DEF OpenWarp, PopupOK, Matches, Popup
  <2> QED
    BY <2>1, OpenKeeps
<1>10. CASE CreateFromWarp
  <2> DEFINE x == [id |-> FreshId, name |-> "WARP", type |-> "OTHER", enabled |-> TRUE, builtin |-> FALSE]
  <2>1. x \in Outbound /\ x.id = FreshId
    BY CurrentParts, Texts DEF Outbound, ItemId, OutboundType
  <2>2. Change(Sync([Current EXCEPT !.outbounds = Append(Current.outbounds, x)]))
    BY <1>10 DEF CreateFromWarp
  <2> HIDE DEF x
  <2>3. /\ Append(Current.outbounds, x) \in Seq(Outbound)
        /\ Numbered(Append(Current.outbounds, x), FreshId + 1)
    BY <2>1, Ids, CurrentParts, AppendNumbers
  <2> QED
    BY <2>2, <2>3, EditedParts, SyncedChange
<1> QED
  BY <1>1, <1>2, <1>3, <1>4, <1>5, <1>6, <1>7, <1>8, <1>9, <1>10 DEF OutboundTab

\* The handlers of the reverse proxies keep the invariant: those that take an
\* index take it while the popup is open.
LEMMA ReverseStep ==
    ASSUME EditorInv, ReverseTab
    PROVE  EditorInv'
<1>1. CASE NewReverse
  <2> DEFINE p == Popup("reverse", NewAt, [tag |-> "r-outbound", enabled |-> TRUE])
  <2>1. PopupOK(p) /\ Matches(p) /\ Open(p)
    BY <1>1, Texts DEF NewReverse, PopupOK, Matches, Popup, ReverseProxy
  <2> QED
    BY <2>1, OpenKeeps
<1>2. CASE EditReverse
  <2>1. PICK i \in DOMAIN Current.reverses : Open(Popup("reverse", i, Current.reverses[i]))
    BY <1>2 DEF EditReverse
  <2>2. /\ PopupOK(Popup("reverse", i, Current.reverses[i]))
        /\ Matches(Popup("reverse", i, Current.reverses[i]))
    BY CurrentParts DEF PopupOK, Matches, HasAt, Popup
  <2> QED
    BY <2>1, <2>2, OpenKeeps
<1>3. CASE AskDeleteReverse
  <2>1. PICK i \in DOMAIN Current.reverses : Open(Popup("deleteReverse", i, Current.reverses[i]))
    BY <1>3 DEF AskDeleteReverse
  <2>2. /\ PopupOK(Popup("deleteReverse", i, Current.reverses[i]))
        /\ Matches(Popup("deleteReverse", i, Current.reverses[i]))
    BY CurrentParts DEF PopupOK, Matches, HasAt, Popup
  <2> QED
    BY <2>1, <2>2, OpenKeeps
<1>4. CASE AskDuplicateReverse
  <2>1. PICK i \in DOMAIN Current.reverses : Open(Popup("duplicateReverse", NewAt, Current.reverses[i]))
    BY <1>4 DEF AskDuplicateReverse
  <2>2. /\ PopupOK(Popup("duplicateReverse", NewAt, Current.reverses[i]))
        /\ Matches(Popup("duplicateReverse", NewAt, Current.reverses[i]))
    BY CurrentParts DEF PopupOK, Matches, HasAt, Popup
  <2> QED
    BY <2>1, <2>2, OpenKeeps
<1>5. CASE SaveReverse
  <2>1. popup.item \in ReverseProxy
    BY <1>5 DEF SaveReverse, EditorInv, EditorOK, PopupOK
  <2>2. PICK r \in EditedReverse :
           Change(Sync([Current EXCEPT !.reverses = PutAt(@, popup.at, r)]))
    BY <1>5 DEF SaveReverse
  <2>3. r \in ReverseProxy
    BY <2>1, EditedItems
  <2>4. PutAt(Current.reverses, popup.at, r) \in Seq(ReverseProxy)
    BY <2>3, CurrentParts, PutAtIs
  <2>5. Change(Sync([Current EXCEPT !.reverses = PutAt(Current.reverses, popup.at, r)]))
    BY <2>2
  <2> QED
    BY <2>4, <2>5, EditedParts, SyncedChange
<1>6. CASE DeleteReverse
  <2> DEFINE s == IF popup.at \in DOMAIN Current.reverses
                  THEN RemoveAt(Current.reverses, popup.at) ELSE Current.reverses
  <2>1. Change(Sync([Current EXCEPT !.reverses = s]))
    BY <1>6 DEF DeleteReverse
  <2>2. s \in Seq(ReverseProxy)
    BY CurrentParts, RemovedAt
  <2> HIDE DEF s
  <2> QED
    BY <2>1, <2>2, EditedParts, SyncedChange
<1>7. CASE DuplicateReverse
  <2>1. popup.item \in ReverseProxy
    BY <1>7 DEF DuplicateReverse, EditorInv, EditorOK, PopupOK
  <2>2. PICK tag \in {t \in Typed : ~Blank(t)} :
           Change(Sync([Current EXCEPT !.reverses = Append(@, [popup.item EXCEPT !.tag = Trimmed[tag]])]))
    BY <1>7 DEF DuplicateReverse
  <2> DEFINE x == [popup.item EXCEPT !.tag = Trimmed[tag]]
  <2>3. x \in ReverseProxy
    BY <2>1, EditorAssumption, Texts DEF ReverseProxy
  <2> HIDE DEF x
  <2>4. Append(Current.reverses, x) \in Seq(ReverseProxy)
    BY <2>3, CurrentParts
  <2>5. Change(Sync([Current EXCEPT !.reverses = Append(Current.reverses, x)]))
    BY <2>2 DEF x
  <2> QED
    BY <2>4, <2>5, EditedParts, SyncedChange
<1>8. CASE ToggleReverse
  <2>1. PICK i \in DOMAIN Current.reverses : Change(Sync([Current EXCEPT !.reverses[i].enabled = ~@]))
    BY <1>8 DEF ToggleReverse
  <2> DEFINE old == Current.reverses
             s   == [old EXCEPT ![i].enabled = ~@]
  <2>2. old \in Seq(ReverseProxy) /\ i \in DOMAIN old
    BY CurrentParts
  <2>3. Change(Sync([Current EXCEPT !.reverses = s]))
    BY <2>1
  <2> HIDE DEF old
  <2>4. old[i] \in ReverseProxy
    BY <2>2
  <2>5. [old[i] EXCEPT !.enabled = ~@] \in ReverseProxy
    BY <2>4 DEF ReverseProxy
  <2>6. s \in Seq(ReverseProxy)
    BY <2>2, <2>5
  <2> HIDE DEF s
  <2> QED
    BY <2>3, <2>6, EditedParts, SyncedChange
<1> QED
  BY <1>1, <1>2, <1>3, <1>4, <1>5, <1>6, <1>7, <1>8 DEF ReverseTab

\* A row of the DNS tab stands for a server that is equal to it.
LEMMA FirstAlikeIs ==
    ASSUME NEW S, NEW s \in Seq(S), NEW x \in ToSet(s)
    PROVE  FirstAlike(s, x) \in DOMAIN s /\ s[FirstAlike(s, x)] = x
<1> DEFINE I == {i \in 1..Len(s) : s[i] = x}
<1>1. FirstAlike(s, x) = IF I # {} THEN Min(I) ELSE 0
  BY DEF FirstAlike, SelectInSeq
<1>2. I \in SUBSET Nat /\ I # {} /\ \A i \in I : i \in DOMAIN s /\ s[i] = x
  BY DEF ToSet
<1> HIDE DEF I
<1> QED
  BY <1>1, <1>2, LeastIsOne

\* While no account was deleted, a rule saved with users keeps one at least.
LEMMA EditedRuleIs ==
    ASSUME NEW rule \in Rule, NEW tag \in Text, NEW users \in SUBSET Account, NEW enabled \in BOOLEAN,
           accounts \subseteq Account
    PROVE  /\ EditedRule(rule, tag, users, enabled) \in Rule
           /\ accounts = Account => EditedRule(rule, tag, users, enabled) \in LimitedRule
<1> DEFINE x == EditedRule(rule, tag, users, enabled)
           limited == users # {}
<1>0. limited \in BOOLEAN
  OBVIOUS
<1>1. x = [rule EXCEPT !.tag = tag, !.enabled = enabled, !.users = users \cap accounts, !.limited = limited]
  BY DEF EditedRule
<1>2. limited <=> users # {}
  OBVIOUS
<1> HIDE DEF x, limited
<1>3. x \in Rule /\ x.users = users \cap accounts /\ x.limited = limited
  BY <1>0, <1>1 DEF Rule
<1>4. (accounts = Account /\ x.limited) => x.users # {}
  BY <1>2, <1>3
<1>5. accounts = Account => x \in LimitedRule
  BY <1>3, <1>4 DEF LimitedRule
<1> QED
  BY <1>3, <1>5 DEF x

\* The outbounds that the rule editor offers are texts.
LEMMA TagsAreTexts ==
    ASSUME EditorInv
    PROVE  TagOptions(draft) \subseteq Text
<1>1. draft.outbounds \in Seq(Outbound) /\ draft.reverses \in Seq(ReverseProxy)
  BY Parts DEF EditorInv, EditorOK, DraftOK
<1>2. \A o \in ToSet(draft.outbounds) : TagOf(o) \in Text
  <2>1. \A o \in ToSet(draft.outbounds) : o \in Outbound
    BY <1>1 DEF ToSet
  <2>2. \A o \in Outbound : o.name \in Text
    BY DEF Outbound, ItemId
  <2> QED
    BY <2>1, <2>2, Texts DEF TagOf
<1>3. \A r \in ToSet(draft.reverses) : Trimmed[r.tag] \in Text
  <2>1. \A r \in ToSet(draft.reverses) : r \in ReverseProxy
    BY <1>1 DEF ToSet
  <2>2. \A r \in ReverseProxy : r.tag \in Text
    BY DEF ReverseProxy
  <2> QED
    BY <2>1, <2>2, Texts
<1> QED
  BY <1>2, <1>3 DEF TagOptions

\* The handlers of the Routing tab keep the invariant.
LEMMA RuleStep ==
    ASSUME EditorInv, RuleTab
    PROVE  EditorInv'
<1>1. CASE NewRule
  <2> DEFINE p == Popup("rule", Len(Current.rules) + 1, DefaultRule)
  <2>1. Len(Current.rules) + 1 \notin DOMAIN Current.rules
    BY CurrentParts
  <2>2. PopupOK(p) /\ Matches(p) /\ Open(p)
    BY <1>1, <2>1, BuiltinIs DEF NewRule, PopupOK, Matches, Popup
  <2> QED
    BY <2>2, OpenKeeps
<1>2. CASE EditRule
  <2>1. PICK i \in DOMAIN Current.rules : Open(Popup("rule", i, Current.rules[i]))
    BY <1>2 DEF EditRule
  <2>2. /\ PopupOK(Popup("rule", i, Current.rules[i]))
        /\ Matches(Popup("rule", i, Current.rules[i]))
    BY CurrentParts DEF PopupOK, Matches, HasAt, Popup
  <2> QED
    BY <2>1, <2>2, OpenKeeps
<1>3. CASE AskDeleteRule
  <2>1. PICK i \in DOMAIN Current.rules : Open(Popup("deleteRule", i, Current.rules[i]))
    BY <1>3 DEF AskDeleteRule
  <2>2. /\ PopupOK(Popup("deleteRule", i, Current.rules[i]))
        /\ Matches(Popup("deleteRule", i, Current.rules[i]))
    BY CurrentParts DEF PopupOK, Matches, HasAt, Popup
  <2> QED
    BY <2>1, <2>2, OpenKeeps
<1>4. CASE SaveRule
  <2>1. popup.item \in Rule
    BY <1>4 DEF SaveRule, EditorInv, EditorOK, PopupOK
  <2>2. PICK tag \in TagChoices(popup.item), users \in UserChoices(popup.item), enabled \in BOOLEAN :
           Change(Sync([Current EXCEPT !.rules =
                            PutAt(@, popup.at, EditedRule(popup.item, tag, users, enabled))]))
    BY <1>4 DEF SaveRule
  <2> DEFINE x == EditedRule(popup.item, tag, users, enabled)
  <2>3. tag \in Text
    BY <2>1, TagsAreTexts DEF TagChoices, Rule
  <2>4. users \in SUBSET Account /\ accounts \subseteq Account
    BY <2>1 DEF UserChoices, Rule, EditorInv, EditorOK
  <2>5. x \in Rule /\ (accounts = Account => x \in LimitedRule)
    BY <2>1, <2>3, <2>4, EditedRuleIs
  <2> HIDE DEF x
  <2>6. Change(Sync([Current EXCEPT !.rules = PutAt(Current.rules, popup.at, x)]))
    BY <2>2 DEF x
  <2>7. /\ PutAt(Current.rules, popup.at, x) \in Seq(Rule)
        /\ accounts = Account => PutAt(Current.rules, popup.at, x) \in Seq(LimitedRule)
    BY <2>5, CurrentParts, PutAtIs
  <2> QED
    BY <2>6, <2>7, EditedParts, SyncedChange
<1>5. CASE DeleteRule
  <2> DEFINE s == IF popup.at \in DOMAIN Current.rules
                  THEN RemoveAt(Current.rules, popup.at) ELSE Current.rules
  <2>1. Change(Sync([Current EXCEPT !.rules = s]))
    BY <1>5 DEF DeleteRule
  <2>2. s \in Seq(Rule) /\ (accounts = Account => s \in Seq(LimitedRule))
    BY CurrentParts, RemovedAt
  <2> HIDE DEF s
  <2> QED
    BY <2>1, <2>2, EditedParts, SyncedChange
<1>6. CASE DuplicateRule
  <2>1. PICK i \in DOMAIN Current.rules :
           Change(Sync([Current EXCEPT !.rules = InsertAt(@, i + 1, Current.rules[i])]))
    BY <1>6 DEF DuplicateRule
  <2> DEFINE s == InsertAt(Current.rules, i + 1, Current.rules[i])
  <2>2. Change(Sync([Current EXCEPT !.rules = s]))
    BY <2>1
  <2>3. s \in Seq(Rule) /\ (accounts = Account => s \in Seq(LimitedRule))
    BY CurrentParts, InsertedAt
  <2> HIDE DEF s
  <2> QED
    BY <2>2, <2>3, EditedParts, SyncedChange
<1>7. CASE ToggleRule
  <2>1. PICK i \in DOMAIN Current.rules : Change(Sync([Current EXCEPT !.rules[i].enabled = ~@]))
    BY <1>7 DEF ToggleRule
  <2> DEFINE old == Current.rules
             s   == [old EXCEPT ![i].enabled = ~@]
  <2>2. old \in Seq(Rule) /\ (accounts = Account => old \in Seq(LimitedRule)) /\ i \in DOMAIN old
    BY CurrentParts
  <2>3. Change(Sync([Current EXCEPT !.rules = s]))
    BY <2>1
  <2> HIDE DEF old
  <2>4. old[i] \in Rule /\ (accounts = Account => old[i] \in LimitedRule)
    BY <2>2
  <2>5. /\ [old[i] EXCEPT !.enabled = ~@] \in Rule
        /\ accounts = Account => [old[i] EXCEPT !.enabled = ~@] \in LimitedRule
    BY <2>4 DEF Rule, LimitedRule
  <2>6. s \in Seq(Rule) /\ (accounts = Account => s \in Seq(LimitedRule))
    BY <2>2, <2>5
  <2> HIDE DEF s
  <2> QED
    BY <2>3, <2>6, EditedParts, SyncedChange
<1>8. CASE MoveRuleUp
  <2>1. PICK i \in DOMAIN Current.rules \ {1} :
           Change(Sync([Current EXCEPT !.rules = Swapped(@, i - 1, i)]))
    BY <1>8 DEF MoveRuleUp
  <2>0. i \in DOMAIN Current.rules /\ i - 1 \in DOMAIN Current.rules
    BY CurrentParts
  <2> DEFINE s == Swapped(Current.rules, i - 1, i)
  <2>2. Change(Sync([Current EXCEPT !.rules = s]))
    BY <2>1
  <2>3. s \in Seq(Rule) /\ (accounts = Account => s \in Seq(LimitedRule))
    BY CurrentParts, <2>0, SwappedIs
  <2> HIDE DEF s
  <2> QED
    BY <2>2, <2>3, EditedParts, SyncedChange
<1>9. CASE MoveRuleDown
  <2>1. PICK i \in DOMAIN Current.rules \ {Len(Current.rules)} :
           Change(Sync([Current EXCEPT !.rules = Swapped(@, i, i + 1)]))
    BY <1>9 DEF MoveRuleDown
  <2>0. i \in DOMAIN Current.rules /\ i + 1 \in DOMAIN Current.rules
    BY CurrentParts
  <2> DEFINE s == Swapped(Current.rules, i, i + 1)
  <2>2. Change(Sync([Current EXCEPT !.rules = s]))
    BY <2>1
  <2>3. s \in Seq(Rule) /\ (accounts = Account => s \in Seq(LimitedRule))
    BY CurrentParts, <2>0, SwappedIs
  <2> HIDE DEF s
  <2> QED
    BY <2>2, <2>3, EditedParts, SyncedChange
<1> QED
  BY <1>1, <1>2, <1>3, <1>4, <1>5, <1>6, <1>7, <1>8, <1>9 DEF RuleTab

\* The handlers of the DNS tab keep the invariant.
LEMMA DnsStep ==
    ASSUME EditorInv, DnsTab
    PROVE  EditorInv'
<1>1. CASE NewDns
  <2> DEFINE p == Popup("dns", Len(Current.dns) + 1, NoText)
  <2>1. Len(Current.dns) + 1 \notin DOMAIN Current.dns
    BY CurrentParts
  <2>2. PopupOK(p) /\ Matches(p) /\ Open(p)
    BY <1>1, <2>1 DEF NewDns, PopupOK, Matches, Popup
  <2> QED
    BY <2>2, OpenKeeps
<1>2. CASE EditDns
  <2>1. PICK server \in ToSet(Current.dns) :
           Open(Popup("dns", FirstAlike(Current.dns, server), server))
    BY <1>2 DEF EditDns
  <2> DEFINE p == Popup("dns", FirstAlike(Current.dns, server), server)
  <2>2. /\ FirstAlike(Current.dns, server) \in DOMAIN Current.dns
        /\ Current.dns[FirstAlike(Current.dns, server)] = server
    BY CurrentParts, FirstAlikeIs
  <2>3. PopupOK(p) /\ Matches(p)
    BY <2>2 DEF PopupOK, Matches, Popup
  <2> QED
    BY <2>1, <2>3, OpenKeeps
<1>3. CASE SaveDns
  <2>1. PICK server \in Typed : Change([Current EXCEPT !.dns = PutAt(@, popup.at, server)])
    BY <1>3 DEF SaveDns, EditedDns
  <2>2. PutAt(Current.dns, popup.at, server) \in Seq(Text)
    BY CurrentParts, EditorAssumption, PutAtIs
  <2>3. Change([Current EXCEPT !.dns = PutAt(Current.dns, popup.at, server)])
    BY <2>1
  <2> QED
    BY <2>2, <2>3, EditedParts, ChangeKeeps
<1>4. CASE DeleteDns
  <2>1. PICK server \in ToSet(Current.dns) :
           Change([Current EXCEPT !.dns = RemoveAt(@, FirstAlike(@, server))])
    BY <1>4 DEF DeleteDns
  <2>2. FirstAlike(Current.dns, server) \in DOMAIN Current.dns
    BY CurrentParts, FirstAlikeIs
  <2>3. RemoveAt(Current.dns, FirstAlike(Current.dns, server)) \in Seq(Text)
    BY <2>2, CurrentParts, RemovedAt
  <2>4. Change([Current EXCEPT !.dns = RemoveAt(Current.dns, FirstAlike(Current.dns, server))])
    BY <2>1
  <2> QED
    BY <2>3, <2>4, EditedParts, ChangeKeeps
<1> QED
  BY <1>1, <1>2, <1>3, <1>4 DEF DnsTab

-----------------------------------------------------------------------------
(***************************************************************************)
(* Certificates, and the steps together.                                   *)
(***************************************************************************)

\* Inbounds that are given another certificate are numbered as before.
LEMMA RenamedIs ==
    ASSUME NEW s \in Seq(Inbound), NEW n, Numbered(s, n), NEW name \in Text, NEW t,
           DOMAIN t = DOMAIN s, t = [i \in DOMAIN s |-> t[i]],
           \A i \in DOMAIN s : t[i] \in {s[i], [s[i] EXCEPT !.cert = name]}
    PROVE  t \in Seq(Inbound) /\ Numbered(t, n)
<1>1. \A in \in Inbound : [in EXCEPT !.cert = name] \in Inbound /\ [in EXCEPT !.cert = name].id = in.id
  BY DEF Inbound, ItemId
<1>2. \A i \in DOMAIN s : t[i] \in Inbound /\ t[i].id = s[i].id
  <2> TAKE i \in DOMAIN s
  <2>1. s[i] \in Inbound
    OBVIOUS
  <2>2. CASE t[i] = s[i]
    BY <2>1, <2>2
  <2>3. CASE t[i] = [s[i] EXCEPT !.cert = name]
    BY <1>1, <2>1, <2>3
  <2> QED
    BY <2>2, <2>3
<1>3. Len(s) \in Nat /\ DOMAIN s = 1..Len(s)
  OBVIOUS
<1>4. t \in Seq(Inbound)
  BY <1>2, <1>3
<1> QED
  BY <1>2, <1>4 DEF Numbered, Distinct, Below

\* Saving a certificate, and renaming it in the inbounds, leaves a draft well formed.
LEMMA WithCertificateIs ==
    ASSUME EditorInv, NEW cert \in Certificate, cert.id <= FreshId
    PROVE  Edited(WithCertificate(Current, cert))
<1> DEFINE at  == At(Current.certs, cert.id)
           old == Current.certs
           ins == Current.inbounds
           Follows(in) == IF at # 0 THEN in.cert = Current.certs[at].name ELSE Blank(in.cert)
           t == [i \in DOMAIN ins |-> IF Follows(ins[i]) THEN [ins[i] EXCEPT !.cert = cert.name] ELSE ins[i]]
           new == Put(old, cert)
<1>1. WithCertificate(Current, cert) = [Current EXCEPT !.certs = new, !.inbounds = t]
  BY DEF WithCertificate, Mapped
<1>2. ins \in Seq(Inbound) /\ Numbered(ins, FreshId + 1) /\ cert.name \in Text
  BY CurrentParts DEF Certificate, ItemId
<1>3. DOMAIN t = DOMAIN ins /\ t = [i \in DOMAIN ins |-> t[i]]
  OBVIOUS
<1>4. \A i \in DOMAIN ins : t[i] \in {ins[i], [ins[i] EXCEPT !.cert = cert.name]}
  OBVIOUS
<1>5. cert.id < FreshId + 1
  BY Ids, CurrentParts
<1>6. new \in Seq(Certificate) /\ Numbered(new, FreshId + 1)
  BY <1>5, Ids, CurrentParts, PutNumbers
<1> HIDE DEF t, ins, new
<1>7. t \in Seq(Inbound) /\ Numbered(t, FreshId + 1)
  BY <1>2, <1>3, <1>4, RenamedIs
<1> QED
  BY <1>1, <1>6, <1>7, EditedParts

\* So does deleting one.
LEMMA WithoutCertificateIs ==
    ASSUME EditorInv, NEW cert
    PROVE  Edited(WithoutCertificate(Current, cert))
<1> DEFINE left == Without(Current.certs, cert.id)
           name == IF left = <<>> THEN NoText ELSE Head(left).name
           ins == Current.inbounds
           t == [i \in DOMAIN ins |-> IF ins[i].cert = cert.name THEN [ins[i] EXCEPT !.cert = name] ELSE ins[i]]
<1>1. WithoutCertificate(Current, cert) = [Current EXCEPT !.certs = left, !.inbounds = t]
  BY DEF WithoutCertificate, Mapped
<1>2. left \in Seq(Certificate) /\ Numbered(left, FreshId + 1)
  BY CurrentParts, WithoutNumbers
<1> HIDE DEF left
<1>3. name \in Text
  <2>1. \A c \in Certificate : c.name \in Text
    BY DEF Certificate, ItemId
  <2> QED
    BY <1>2, <2>1, Texts
<1>4. ins \in Seq(Inbound) /\ Numbered(ins, FreshId + 1)
  BY CurrentParts
<1> HIDE DEF name
<1>5. DOMAIN t = DOMAIN ins /\ t = [i \in DOMAIN ins |-> t[i]]
  OBVIOUS
<1>6. \A i \in DOMAIN ins : t[i] \in {ins[i], [ins[i] EXCEPT !.cert = name]}
  OBVIOUS
<1> HIDE DEF t, ins
<1>7. t \in Seq(Inbound) /\ Numbered(t, FreshId + 1)
  BY <1>3, <1>4, <1>5, <1>6, RenamedIs
<1> QED
  BY <1>1, <1>2, <1>7, EditedParts

\* Marking a certificate issued leaves a draft well formed, and the others as they are.
LEMMA IssuedIs ==
    ASSUME NEW d, NEW n, NEW id, DraftOK(d, n)
    PROVE  /\ DraftOK(Issued(d, id), n) /\ (Limited(d) => Limited(Issued(d, id)))
           /\ DOMAIN Issued(d, id).certs = DOMAIN d.certs
           /\ \A i \in DOMAIN d.certs :
                 /\ Issued(d, id).certs[i].id = d.certs[i].id
                 /\ d.certs[i].issued => Issued(d, id).certs[i].issued
<1> DEFINE at == At(d.certs, id)
           old == d.certs
           new == [old EXCEPT ![at].issued = TRUE]
<1>1. d \in Draft /\ old \in Seq(Certificate) /\ Numbered(old, n)
  BY Parts DEF DraftOK
<1>2. CASE at = 0
  BY <1>2 DEF Issued
<1>3. CASE at # 0
  <2>1. Issued(d, id) = [d EXCEPT !.certs = new]
    BY <1>3 DEF Issued
  <2>2. at \in DOMAIN old
    BY <1>1, <1>3, AtIs
  <2> HIDE DEF old, at
  <2>3. old[at] \in Certificate
    BY <1>1, <2>2
  <2>4. [old[at] EXCEPT !.issued = TRUE] \in Certificate /\ [old[at] EXCEPT !.issued = TRUE].id = old[at].id
        /\ [old[at] EXCEPT !.issued = TRUE].issued
    BY <2>3 DEF Certificate, ItemId
  <2>5. /\ new \in Seq(Certificate) /\ DOMAIN new = DOMAIN old
        /\ \A i \in DOMAIN old : new[i].id = old[i].id /\ (old[i].issued => new[i].issued)
    BY <1>1, <2>2, <2>4
  <2> HIDE DEF new
  <2>6. Numbered(new, n)
    BY <1>1, <2>5 DEF Numbered, Distinct, Below
  <2>7. Issued(d, id) \in Draft /\ Issued(d, id).certs = new
        /\ Issued(d, id).inbounds = d.inbounds /\ Issued(d, id).outbounds = d.outbounds
        /\ Issued(d, id).rules = d.rules
    BY <1>1, <2>1, <2>5 DEF Draft
  <2> QED
    BY <2>5, <2>6, <2>7 DEF DraftOK, Limited, old
<1> QED
  BY <1>2, <1>3

\* The handlers of the certificates, and ACME answers that put an older draft
\* back, keep the invariant.
LEMMA CertificateStep ==
    ASSUME EditorInv, CertificateTab
    PROVE  EditorInv'
<1>1. CASE NewCertificate
  <2> DEFINE x == [id |-> FreshId, name |-> "default", acme |-> TRUE, issued |-> FALSE]
  <2>1. Open(Popup("certificate", NewAt, x))
    BY <1>1 DEF NewCertificate
  <2>2. x \in Certificate /\ x.id = FreshId
    BY CurrentParts, Texts DEF Certificate, ItemId
  <2> HIDE DEF x
  <2>3. PopupOK(Popup("certificate", NewAt, x)) /\ Matches(Popup("certificate", NewAt, x))
    BY <2>2, CurrentParts DEF PopupOK, Matches, Popup
  <2> QED
    BY <2>1, <2>3, OpenKeeps
<1>2. CASE EditCertificate
  <2>1. PICK x \in ToSet(Current.certs) : Open(Popup("certificate", x.id, x))
    BY <1>2 DEF EditCertificate
  <2>2. PopupOK(Popup("certificate", x.id, x)) /\ Matches(Popup("certificate", x.id, x))
    BY ShownItems DEF PopupOK, Matches, Has, Popup
  <2> QED
    BY <2>1, <2>2, OpenKeeps
<1>3. CASE SaveCertificate
  <2>1. popup.item \in Certificate /\ popup.item.id <= FreshId
    BY <1>3 DEF SaveCertificate, EditorInv, EditorOK, PopupOK
  <2>2. PICK name \in Typed, acme \in BOOLEAN :
           Change(WithCertificate(Current, [popup.item EXCEPT !.name = name, !.acme = acme]))
    BY <1>3 DEF SaveCertificate
  <2> DEFINE x == [popup.item EXCEPT !.name = name, !.acme = acme]
  <2>3. x \in Certificate /\ x.id = popup.item.id
    BY <2>1, EditorAssumption DEF Certificate, ItemId
  <2> HIDE DEF x
  <2>4. Edited(WithCertificate(Current, x))
    BY <2>1, <2>3, WithCertificateIs
  <2> QED
    BY <2>2, <2>4, ChangeKeeps DEF x
<1>4. CASE DeleteCertificate
  <2>1. PICK cert \in ToSet(Current.certs) : Change(WithoutCertificate(Current, cert))
    BY <1>4 DEF DeleteCertificate
  <2> QED
    BY <2>1, WithoutCertificateIs, ChangeKeeps
<1>5. CASE AskAcme
  <2>1. PICK x \in ToSet(Current.certs) : Open(Popup("acme", x.id, x))
    BY <1>5 DEF AskAcme
  <2>2. PopupOK(Popup("acme", x.id, x)) /\ Matches(Popup("acme", x.id, x))
    BY ShownItems DEF PopupOK, Matches, Has, Popup
  <2> QED
    BY <2>1, <2>2, OpenKeeps
<1>6. CASE ConfirmAcme
  <2>1. popup'.kind = "acmeLogs" /\ FreshId' = FreshId /\ jobs' = jobs \cup {[cert |-> popup.at, of |-> draft]}
        /\ UNCHANGED <<draft, accounts, edits>>
    BY <1>6 DEF ConfirmAcme, Popup, FreshId
  <2>2. PopupOK(popup)' /\ Matches(popup)'
    BY <2>1 DEF PopupOK, Matches
  <2>3. EditorOK'
    BY <2>1, <2>2 DEF EditorInv, EditorOK, DraftOK
  <2>4. LimitedOK'
    BY <2>1 DEF EditorInv, LimitedOK, Limited
  <2> QED
    BY <2>2, <2>3, <2>4 DEF EditorInv
<1>7. CASE AcmeAnswers
  <2>1. PICK job \in jobs :
           /\ jobs' = jobs \ {job}
           /\ draft' = Issued(Sync(job.of), job.cert)
           /\ stale' = (stale \/ (popup # Closed /\ Sync(draft') # Current))
           /\ UNCHANGED <<popup, accounts, edits>>
    BY <1>7 DEF AcmeAnswers
  <2>2. FreshId' = FreshId
    BY <2>1 DEF FreshId
  <2>3. DraftOK(Sync(job.of), FreshId) /\ (Limited(job.of) => Limited(Sync(job.of)))
    BY SyncKeeps, CurrentParts DEF EditorInv, EditorOK
  <2>4. DraftOK(draft', FreshId) /\ (Limited(job.of) => Limited(draft'))
    BY <2>1, <2>3, IssuedIs
  <2>5. EditorOK'
    BY <2>1, <2>2, <2>4 DEF EditorInv, EditorOK, DraftOK, PopupOK
  <2>6. LimitedOK'
    BY <2>1, <2>4 DEF EditorInv, LimitedOK, Limited
  <2>7. ASSUME ~stale' PROVE Matches(popup)'
    <3>1. CASE popup = Closed
      BY <2>1, <3>1 DEF Closed, Matches
    <3>2. CASE popup # Closed
      <4>1. Current' = Current /\ popup' = popup /\ FreshId' = FreshId /\ ~stale
        BY <2>1, <2>2, <2>7, <3>2 DEF Current
      <4>2. Matches(popup)
        BY <4>1 DEF EditorInv
      <4> QED
        BY <4>1, <4>2 DEF Matches, Has, HasAt
    <3> QED
      BY <3>1, <3>2
  <2> QED
    BY <2>5, <2>6, <2>7 DEF EditorInv
<1>8. CASE AcmeFails
  <2>1. /\ jobs' \subseteq jobs /\ FreshId' = FreshId /\ Current' = Current
        /\ UNCHANGED <<draft, popup, accounts, edits, stale>>
    BY <1>8 DEF AcmeFails, FreshId, Current
  <2> QED
    BY <2>1 DEF EditorInv, EditorOK, LimitedOK, DraftOK, Limited, PopupOK, Matches, Has, HasAt
<1> QED
  BY <1>1, <1>2, <1>3, <1>4, <1>5, <1>6, <1>7, <1>8 DEF CertificateTab

\* The page is opened with a well-formed draft.
LEMMA EditorInit ==
    ASSUME Init
    PROVE  EditorInv
<1>1. FreshId = FirstId /\ edits \in Nat /\ accounts \subseteq Account /\ jobs = {}
  BY DEF Init, FreshId, FirstId
<1>2. draft \in Loaded /\ popup.kind = "none"
  BY DEF Init, Closed
<1>3. DraftOK(draft, FreshId)
  BY <1>1, <1>2, EditorAssumption DEF DraftOK
<1>4. Limited(draft)
  <2>1. draft.rules \in Seq(Rule) /\ \A r \in ToSet(draft.rules) : r.limited => r.users # {}
    BY <1>2, EditorAssumption, Parts
  <2>2. \A i \in DOMAIN draft.rules : draft.rules[i] \in LimitedRule
    BY <2>1 DEF ToSet, LimitedRule
  <2> QED
    BY <2>1, <2>2 DEF Limited
<1>5. PopupOK(popup) /\ Matches(popup)
  BY <1>2 DEF PopupOK, Matches
<1> QED
  BY <1>1, <1>3, <1>4, <1>5 DEF EditorInv, EditorOK, LimitedOK

\* Every step of the page keeps the invariant.
LEMMA EditorNext ==
    ASSUME EditorInv, [Next]_vars
    PROVE  EditorInv'
<1>1. CASE Cancel
  <2>1. /\ popup'.kind = "none" /\ FreshId' = FreshId
        /\ UNCHANGED <<draft, jobs, accounts, edits>>
    BY <1>1 DEF Cancel, Closed, FreshId
  <2>2. PopupOK(popup)' /\ Matches(popup)'
    BY <2>1 DEF PopupOK, Matches
  <2> QED
    BY <2>1, <2>2 DEF EditorInv, EditorOK, LimitedOK, DraftOK, Limited
<1>2. CASE DeleteAccount
  <2>1. /\ popup'.kind = "none" /\ FreshId' = FreshId + 1 /\ edits' = edits + 1
        /\ draft' = Current /\ jobs' = {} /\ accounts' \subseteq Account /\ accounts' # Account
    BY <1>2 DEF DeleteAccount, Closed, FreshId, FirstId, EditorInv, EditorOK
  <2>2. PopupOK(popup)' /\ Matches(popup)'
    BY <2>1 DEF PopupOK, Matches
  <2>3. DraftOK(draft', FreshId + 1) /\ edits' \in Nat
    BY <2>1, CurrentIs, CurrentParts DEF Edited
  <2> QED
    BY <2>1, <2>2, <2>3 DEF EditorInv, EditorOK, LimitedOK, DraftOK
<1>3. CASE UNCHANGED vars
  <2>1. /\ FreshId' = FreshId /\ Current' = Current
        /\ UNCHANGED <<draft, popup, jobs, accounts, edits, stale>>
    BY <1>3 DEF vars, FreshId, Current
  <2> QED
    BY <2>1 DEF EditorInv, EditorOK, LimitedOK, DraftOK, Limited, PopupOK, Matches, Has, HasAt
<1> QED
  BY <1>1, <1>2, <1>3, CertificateStep, InboundStep, OutboundStep, ReverseStep, RuleStep, DnsStep
     DEF Next

\* The invariant holds throughout.
LEMMA EditorInvariance == Spec => []EditorInv
BY EditorInit, EditorNext, PTL DEF Spec

\* What a popup was opened on is still there when its handler runs, unless an
\* ACME answer has put another draft under it (the popups of popup_host.rs).
THEOREM PopupsAreCurrent == Spec => []PopupIsCurrent
<1>1. EditorInv => PopupIsCurrent
  BY DEF EditorInv, Matches, Has, HasAt, PopupIsCurrent
<1> QED
  BY <1>1, EditorInvariance, PTL

\* While no account is deleted, no handler leaves a rule that was limited to
\* users without any (the rule editor's save in popup_host.rs).
THEOREM LimitedStayLimited == Spec => []LimitedRulesStayLimited
<1>1. EditorInv => LimitedRulesStayLimited
  BY DEF EditorInv, LimitedOK, Limited, LimitedRule, LimitedRulesStayLimited, ToSet
<1> QED
  BY <1>1, EditorInvariance, PTL

-----------------------------------------------------------------------------
(***************************************************************************)
(* What is sent of an outbound that cannot be reached, and what the other  *)
(* tabs leave of certificates and inbounds.                                *)
(***************************************************************************)

\* A rule whose outbound is not sent ends at the BLOCK outbound on the node
\* (build_full_config and convertToConfig).
THEOREM UnroutablesAreBlocked == Spec => []UnroutableIsBlocked
<1>1. ASSUME EditorInv,
             NEW o \in ToSet(Current.outbounds), o.type = "BLOCK", o.name = "block",
             \A p \in ToSet(Current.outbounds) : Trimmed[TagOf(p)] = "block" => p = o,
             "block" \notin EnabledReverseTags(draft),
             NEW r \in ToSet(Current.rules), r.tag \notin SentTags(draft)
      PROVE  Carriers(draft, RoutedTag(draft, SentRule(draft, r))) = {"BLOCK"}
  <2>1. Trimmed["block"] = "block" /\ ~Blank("block") /\ TagOf(o) = "block"
    BY <1>1, TextAssumption DEF FixedText, NoText, Blank, TagOf
  <2>2. o \in SentOutbounds(draft) /\ SentOutbounds(draft) \subseteq ToSet(Current.outbounds)
    BY <1>1, <2>1 DEF SentOutbounds, Current
  <2>3. "block" \in SentTags(draft)
    BY <2>1, <2>2 DEF SentTags
  <2>4. SentRule(draft, r).tag = "block"
    <3>1. r \in Rule
      BY <1>1, CurrentParts DEF ToSet
    <3> QED
      BY <1>1, <3>1 DEF SentRule, Rule
  <2>5. RoutedTag(draft, SentRule(draft, r)) = "block"
    BY <2>1, <2>3, <2>4 DEF RoutedTag
  <2>6. {p \in SentOutbounds(draft) : Trimmed[TagOf(p)] = "block"} = {o}
    BY <1>1, <2>1, <2>2
  <2> QED
    BY <1>1, <2>5, <2>6 DEF Carriers
<1>2. EditorInv => UnroutableIsBlocked
  BY <1>1 DEF UnroutableIsBlocked
<1> QED
  BY <1>2, EditorInvariance, PTL

\* What a handler of another tab leaves of the certificates and the inbounds.
Left(d) ==
    /\ d.certs = draft.certs
    /\ d.inbounds \in {Current.inbounds,
                      [i \in DOMAIN Current.inbounds |-> SyncInbound(draft.certs, Current.inbounds[i])]}

\* Replacing any other list leaves the certificates alone, and the inbounds as
\* sync_draft makes them.
LEMMA LeftIs ==
    ASSUME EditorInv
    PROVE  /\ \A x : /\ Left(Sync([Current EXCEPT !.outbounds = x]))
                    /\ Left(Sync([Current EXCEPT !.reverses = x]))
                    /\ Left(Sync([Current EXCEPT !.rules = x]))
                    /\ Left([Current EXCEPT !.dns = x])
                    /\ Sync([Current EXCEPT !.inbounds = x]).certs = draft.certs
           /\ Left(Current)
<1> DEFINE c == Current
<1>1. c \in Draft /\ c.certs = draft.certs
  BY CurrentIs
<1> HIDE DEF c
<1>2. ASSUME NEW x
      PROVE  /\ Left(Sync([c EXCEPT !.outbounds = x]))
             /\ Left(Sync([c EXCEPT !.reverses = x]))
             /\ Left(Sync([c EXCEPT !.rules = x]))
             /\ Left([c EXCEPT !.dns = x])
             /\ Sync([c EXCEPT !.inbounds = x]).certs = draft.certs
  BY <1>1 DEF Left, Sync, Mapped, Draft, c
<1>3. Left(c)
  BY <1>1 DEF Left, c
<1> QED
  BY <1>2, <1>3 DEF c

\* The handlers of the outbounds leave them.
LEMMA OutboundLeaves ==
    ASSUME EditorInv, OutboundTab
    PROVE  draft' = draft \/ Left(draft')
<1>1. CASE NewOutbound \/ EditOutbound \/ AskDeleteOutbound \/ AskDuplicateOutbound \/ OpenWarp
  BY <1>1 DEF Open, NewOutbound, EditOutbound, AskDeleteOutbound, AskDuplicateOutbound, OpenWarp
<1>2. CASE SaveOutbound
  <2>1. PICK x : Change(Sync([Current EXCEPT !.outbounds = x]))
    BY <1>2 DEF SaveOutbound
  <2> QED
    BY <2>1, LeftIs DEF Change
<1>3. CASE DeleteOutbound
  <2>1. PICK x : Change(Sync([Current EXCEPT !.outbounds = x]))
    BY <1>3 DEF DeleteOutbound
  <2> QED
    BY <2>1, LeftIs DEF Change
<1>4. CASE DuplicateOutbound
  <2>1. PICK x : Change(Sync([Current EXCEPT !.outbounds = x]))
    BY <1>4 DEF DuplicateOutbound
  <2> QED
    BY <2>1, LeftIs DEF Change
<1>5. CASE ToggleOutbound
  <2>1. PICK x : Change(Sync([Current EXCEPT !.outbounds = x]))
    BY <1>5 DEF ToggleOutbound
  <2> QED
    BY <2>1, LeftIs DEF Change
<1>6. CASE CreateFromWarp
  <2>1. PICK x : Change(Sync([Current EXCEPT !.outbounds = x]))
    BY <1>6 DEF CreateFromWarp
  <2> QED
    BY <2>1, LeftIs DEF Change
<1> QED
  BY <1>1, <1>2, <1>3, <1>4, <1>5, <1>6 DEF OutboundTab

\* The handlers of the reverse proxies leave them.
LEMMA ReverseLeaves ==
    ASSUME EditorInv, ReverseTab
    PROVE  draft' = draft \/ Left(draft')
<1>1. CASE NewReverse \/ EditReverse \/ AskDeleteReverse \/ AskDuplicateReverse
  BY <1>1 DEF Open, NewReverse, EditReverse, AskDeleteReverse, AskDuplicateReverse
<1>2. CASE SaveReverse
  <2>1. PICK x : Change(Sync([Current EXCEPT !.reverses = x]))
    BY <1>2 DEF SaveReverse
  <2> QED
    BY <2>1, LeftIs DEF Change
<1>3. CASE DeleteReverse
  <2>1. PICK x : Change(Sync([Current EXCEPT !.reverses = x]))
    BY <1>3 DEF DeleteReverse
  <2> QED
    BY <2>1, LeftIs DEF Change
<1>4. CASE DuplicateReverse
  <2>1. PICK x : Change(Sync([Current EXCEPT !.reverses = x]))
    BY <1>4 DEF DuplicateReverse
  <2> QED
    BY <2>1, LeftIs DEF Change
<1>5. CASE ToggleReverse
  <2>1. PICK x : Change(Sync([Current EXCEPT !.reverses = x]))
    BY <1>5 DEF ToggleReverse
  <2> QED
    BY <2>1, LeftIs DEF Change
<1> QED
  BY <1>1, <1>2, <1>3, <1>4, <1>5 DEF ReverseTab

\* The handlers of the Routing tab leave them.
LEMMA RuleLeaves ==
    ASSUME EditorInv, RuleTab
    PROVE  draft' = draft \/ Left(draft')
<1>1. CASE NewRule \/ EditRule \/ AskDeleteRule
  BY <1>1 DEF Open, NewRule, EditRule, AskDeleteRule
<1>2. CASE SaveRule
  <2>1. PICK x : Change(Sync([Current EXCEPT !.rules = x]))
    BY <1>2 DEF SaveRule
  <2> QED
    BY <2>1, LeftIs DEF Change
<1>3. CASE DeleteRule
  <2>1. PICK x : Change(Sync([Current EXCEPT !.rules = x]))
    BY <1>3 DEF DeleteRule
  <2> QED
    BY <2>1, LeftIs DEF Change
<1>4. CASE DuplicateRule
  <2>1. PICK x : Change(Sync([Current EXCEPT !.rules = x]))
    BY <1>4 DEF DuplicateRule
  <2> QED
    BY <2>1, LeftIs DEF Change
<1>5. CASE ToggleRule
  <2>1. PICK x : Change(Sync([Current EXCEPT !.rules = x]))
    BY <1>5 DEF ToggleRule
  <2> QED
    BY <2>1, LeftIs DEF Change
<1>6. CASE MoveRuleUp
  <2>1. PICK x : Change(Sync([Current EXCEPT !.rules = x]))
    BY <1>6 DEF MoveRuleUp
  <2> QED
    BY <2>1, LeftIs DEF Change
<1>7. CASE MoveRuleDown
  <2>1. PICK x : Change(Sync([Current EXCEPT !.rules = x]))
    BY <1>7 DEF MoveRuleDown
  <2> QED
    BY <2>1, LeftIs DEF Change
<1> QED
  BY <1>1, <1>2, <1>3, <1>4, <1>5, <1>6, <1>7 DEF RuleTab

\* The handlers of the DNS tab leave them.
LEMMA DnsLeaves ==
    ASSUME EditorInv, DnsTab
    PROVE  draft' = draft \/ Left(draft')
<1>1. CASE NewDns \/ EditDns
  BY <1>1 DEF Open, NewDns, EditDns
<1>2. CASE SaveDns
  <2>1. PICK x : Change([Current EXCEPT !.dns = x])
    BY <1>2 DEF SaveDns
  <2> QED
    BY <2>1, LeftIs DEF Change
<1>3. CASE DeleteDns
  <2>1. PICK x : Change([Current EXCEPT !.dns = x])
    BY <1>3 DEF DeleteDns
  <2> QED
    BY <2>1, LeftIs DEF Change
<1> QED
  BY <1>1, <1>2, <1>3 DEF DnsTab

-----------------------------------------------------------------------------
(***************************************************************************)
(* A certificate stays issued.                                             *)
(***************************************************************************)

\* What retain leaves are the items with another id, all of them.
LEMMA WithoutItems ==
    ASSUME NEW S, NEW s \in Seq(S), NEW id
    PROVE  /\ ToSet(Without(s, id)) \subseteq ToSet(s)
           /\ \A x \in ToSet(s) : x.id # id => x \in ToSet(Without(s, id))
<1> DEFINE t == Without(s, id)
<1>1. \E at \in [DOMAIN t -> DOMAIN s] : \A n \in DOMAIN t : t[n] = s[at[n]]
  BY WithoutIs
<1>2. \A i \in DOMAIN s : s[i].id # id => \E n \in DOMAIN t : t[n] = s[i]
  BY WithoutIs
<1> HIDE DEF t
<1>3. ToSet(t) \subseteq ToSet(s) /\ \A x \in ToSet(s) : x.id # id => x \in ToSet(t)
  BY <1>1, <1>2 DEF ToSet
<1> QED
  BY <1>3 DEF t

\* Saving and deleting a certificate, list by list.
LEMMA CertificateParts ==
    ASSUME EditorInv, NEW cert
    PROVE  /\ WithCertificate(Current, cert).certs = Put(draft.certs, cert)
           /\ WithCertificate(Current, cert).inbounds =
                 [i \in DOMAIN Current.inbounds |->
                     IF IF At(draft.certs, cert.id) # 0
                        THEN Current.inbounds[i].cert = draft.certs[At(draft.certs, cert.id)].name
                        ELSE Blank(Current.inbounds[i].cert)
                     THEN [Current.inbounds[i] EXCEPT !.cert = cert.name] ELSE Current.inbounds[i]]
           /\ WithoutCertificate(Current, cert).certs = Without(draft.certs, cert.id)
           /\ WithoutCertificate(Current, cert).inbounds =
                 [i \in DOMAIN Current.inbounds |->
                     IF Current.inbounds[i].cert = cert.name
                     THEN [Current.inbounds[i] EXCEPT
                              !.cert = IF Without(draft.certs, cert.id) = <<>> THEN NoText
                                       ELSE Head(Without(draft.certs, cert.id)).name]
                     ELSE Current.inbounds[i]]
<1> DEFINE c == Current
<1>1. c \in Draft /\ c.certs = draft.certs
  BY CurrentIs
<1> HIDE DEF c
<1>2. DOMAIN c = {"certs", "inbounds", "outbounds", "reverses", "rules", "dns"}
  BY <1>1 DEF Draft
<1>3. \A s, t : [c EXCEPT !.certs = s, !.inbounds = t].certs = s /\ [c EXCEPT !.certs = s, !.inbounds = t].inbounds = t
  BY <1>2
<1>4. /\ WithCertificate(c, cert).certs = Put(draft.certs, cert)
      /\ WithCertificate(c, cert).inbounds =
            [i \in DOMAIN c.inbounds |->
                IF IF At(draft.certs, cert.id) # 0
                   THEN c.inbounds[i].cert = draft.certs[At(draft.certs, cert.id)].name
                   ELSE Blank(c.inbounds[i].cert)
                THEN [c.inbounds[i] EXCEPT !.cert = cert.name] ELSE c.inbounds[i]]
  <2> DEFINE t == [i \in DOMAIN c.inbounds |->
                     IF IF At(c.certs, cert.id) # 0
                        THEN c.inbounds[i].cert = c.certs[At(c.certs, cert.id)].name
                        ELSE Blank(c.inbounds[i].cert)
                     THEN [c.inbounds[i] EXCEPT !.cert = cert.name] ELSE c.inbounds[i]]
  <2>1. WithCertificate(c, cert) = [c EXCEPT !.certs = Put(c.certs, cert), !.inbounds = t]
    BY DEF WithCertificate, Mapped
  <2> HIDE DEF t
  <2>2. WithCertificate(c, cert).certs = Put(c.certs, cert) /\ WithCertificate(c, cert).inbounds = t
    BY <1>3, <2>1
  <2> QED
    BY <1>1, <2>2, Zenon DEF t
<1>5. /\ WithoutCertificate(c, cert).certs = Without(draft.certs, cert.id)
      /\ WithoutCertificate(c, cert).inbounds =
           [i \in DOMAIN c.inbounds |->
               IF c.inbounds[i].cert = cert.name
               THEN [c.inbounds[i] EXCEPT
                        !.cert = IF Without(draft.certs, cert.id) = <<>> THEN NoText
                                 ELSE Head(Without(draft.certs, cert.id)).name]
               ELSE c.inbounds[i]]
  <2> DEFINE t == [i \in DOMAIN c.inbounds |->
                     IF c.inbounds[i].cert = cert.name
                     THEN [c.inbounds[i] EXCEPT
                              !.cert = IF Without(c.certs, cert.id) = <<>> THEN NoText
                                       ELSE Head(Without(c.certs, cert.id)).name]
                     ELSE c.inbounds[i]]
  <2>1. WithoutCertificate(c, cert) = [c EXCEPT !.certs = Without(c.certs, cert.id), !.inbounds = t]
    BY DEF WithoutCertificate, Mapped
  <2> HIDE DEF t
  <2>2. WithoutCertificate(c, cert).certs = Without(c.certs, cert.id) /\ WithoutCertificate(c, cert).inbounds = t
    BY <1>3, <2>1
  <2> QED
    BY <1>1, <2>2 DEF t
<1> QED
  BY <1>4, <1>5 DEF c

\* A certificate is told by its id.
LEMMA SameCertificate ==
    ASSUME EditorInv, NEW c \in ToSet(draft.certs), NEW d \in ToSet(draft.certs), c.id = d.id
    PROVE  c = d
BY CurrentIs, CurrentParts DEF ToSet, Numbered, Distinct

\* A step that takes a certificate's mark away is a save from a popup that an
\* answer overtook, or the answer to a request sent before the mark was set.
LEMMA IssuedSteps ==
    ASSUME EditorInv, [Next]_vars, NEW c \in ToSet(draft.certs), NEW later \in ToSet(draft'.certs),
           c.id = later.id, c.issued, ~later.issued
    PROVE  stale \/ \E job \in jobs \ jobs' : ~ById(job.of.certs, c.id).issued
<1>1. CASE later \in ToSet(draft.certs)
  BY <1>1, SameCertificate
<1>2. CASE SaveCertificate
  <2>1. PICK name \in Typed, acme \in BOOLEAN :
           Change(WithCertificate(Current, [popup.item EXCEPT !.name = name, !.acme = acme]))
    BY <1>2 DEF SaveCertificate
  <2> DEFINE x == [popup.item EXCEPT !.name = name, !.acme = acme]
  <2>2. popup.kind = "certificate" /\ popup.item \in Certificate /\ popup.item.id <= FreshId
    BY <1>2 DEF SaveCertificate, EditorInv, EditorOK, PopupOK
  <2>3. /\ x \in Certificate /\ x.id = popup.item.id /\ x.issued = popup.item.issued
    BY <2>2, EditorAssumption DEF Certificate
  <2>4. draft'.certs = Put(draft.certs, x)
    BY <2>1, CertificateParts DEF Change
  <2> HIDE DEF x
  <2>5. later = x \/ later \in ToSet(draft.certs)
    <3>1. x.id < FreshId + 1 /\ draft.certs \in Seq(Certificate) /\ Numbered(draft.certs, FreshId) /\ FreshId \in Nat
      BY <2>2, <2>3, Ids, CurrentParts, CurrentIs
    <3> QED
      BY <2>3, <2>4, <3>1, Ids, PutNumbers DEF ToSet
  <2>6. CASE later = x /\ ~stale
    <3>1. c.id = popup.item.id /\ c.id < FreshId
      BY <2>3, <2>6, ShownItems, CurrentIs
    <3>2. Has(Current.certs, popup)
      <4>1. c.id \in Nat /\ FreshId \in Nat
        BY <2>2, <3>1, Ids, CurrentParts
      <4> QED
        BY <2>2, <2>6, <3>1, <4>1 DEF EditorInv, Matches
    <3>3. popup.item \in ToSet(draft.certs)
      BY <3>2, CurrentIs, CurrentParts, AtIs DEF Has, ById, ToSet
    <3> QED
      BY <2>3, <2>6, <3>1, <3>3, SameCertificate
  <2> QED
    BY <1>1, <2>5, <2>6
<1>3. CASE DeleteCertificate
  <2>1. PICK cert \in ToSet(Current.certs) : Change(WithoutCertificate(Current, cert))
    BY <1>3 DEF DeleteCertificate
  <2>2. draft'.certs = Without(draft.certs, cert.id)
    BY <2>1, CertificateParts DEF Change
  <2>3. later \in ToSet(draft.certs)
    BY <2>2, CurrentIs, CurrentParts, WithoutItems
  <2> QED
    BY <1>1, <2>3
<1>4. CASE AcmeAnswers
  <2>1. PICK job \in jobs : jobs' = jobs \ {job} /\ draft' = Issued(Sync(job.of), job.cert)
    BY <1>4 DEF AcmeAnswers
  <2> DEFINE old == job.of.certs
  <2>2. /\ DraftOK(job.of, FreshId) /\ DraftOK(Sync(job.of), FreshId) /\ Sync(job.of).certs = old
    BY SyncKeeps, CurrentParts, SyncIs DEF EditorInv, EditorOK, DraftOK
  <2>3. /\ DOMAIN draft'.certs = DOMAIN old
        /\ \A i \in DOMAIN old : /\ draft'.certs[i].id = old[i].id
                                 /\ old[i].issued => draft'.certs[i].issued
    <3> DEFINE s == Sync(job.of)
    <3>1. DraftOK(s, FreshId) /\ s.certs = old
      BY <2>2
    <3> HIDE DEF s, old
    <3>2. /\ DOMAIN Issued(s, job.cert).certs = DOMAIN s.certs
          /\ \A i \in DOMAIN s.certs :
                /\ Issued(s, job.cert).certs[i].id = s.certs[i].id
                /\ s.certs[i].issued => Issued(s, job.cert).certs[i].issued
      BY <3>1, IssuedIs
    <3>3. draft' = Issued(s, job.cert)
      BY <2>1 DEF s
    <3> QED
      BY <3>1, <3>2, <3>3
  <2>4. old \in Seq(Certificate) /\ Distinct(old)
    BY <2>2, Parts DEF DraftOK, Numbered
  <2> HIDE DEF old
  <2>5. PICK i \in DOMAIN old : later = draft'.certs[i]
    BY <2>3 DEF ToSet
  <2>6. ~old[i].issued /\ old[i].id = c.id /\ old[i] \in ToSet(old)
    BY <2>3, <2>5 DEF ToSet
  <2>7. ById(old, c.id) = old[i]
    BY <2>4, <2>6, FoundIs
  <2> QED
    BY <2>1, <2>6, <2>7 DEF old
<1>5. CASE draft' = draft \/ draft'.certs = draft.certs
  BY <1>1, <1>5
<1>6. CASE InboundTab
  <2>1. CASE NewInbound \/ EditInbound \/ AskDeleteInbound \/ AskDuplicateInbound
    BY <1>5, <2>1 DEF Open, NewInbound, EditInbound, AskDeleteInbound, AskDuplicateInbound
  <2>2. CASE SaveInbound
    <3>1. PICK x : Change(Sync([Current EXCEPT !.inbounds = x]))
      BY <2>2 DEF SaveInbound
    <3> QED
      BY <1>5, <3>1, LeftIs DEF Change
  <2>3. CASE DeleteInbound
    <3>1. PICK x : Change(Sync([Current EXCEPT !.inbounds = x]))
      BY <2>3 DEF DeleteInbound
    <3> QED
      BY <1>5, <3>1, LeftIs DEF Change
  <2>4. CASE DuplicateInbound
    <3>1. PICK x : Change(Sync([Current EXCEPT !.inbounds = x]))
      BY <2>4 DEF DuplicateInbound
    <3> QED
      BY <1>5, <3>1, LeftIs DEF Change
  <2>5. CASE ToggleInbound
    BY <1>5, <2>5, LeftIs DEF ToggleInbound, Change, Left
  <2> QED
    BY <1>6, <2>1, <2>2, <2>3, <2>4, <2>5 DEF InboundTab
<1>7. CASE OutboundTab \/ ReverseTab \/ RuleTab \/ DnsTab
  BY <1>5, <1>7, OutboundLeaves, ReverseLeaves, RuleLeaves, DnsLeaves DEF Left
<1>8. CASE NewCertificate \/ EditCertificate \/ AskAcme \/ ConfirmAcme \/ AcmeFails \/ Cancel \/ UNCHANGED vars
  BY <1>5, <1>8 DEF Open, NewCertificate, EditCertificate, AskAcme, ConfirmAcme, AcmeFails, Cancel, vars
<1>9. CASE DeleteAccount
  BY <1>5, <1>9, LeftIs DEF DeleteAccount, Left
<1> QED
  BY <1>2, <1>3, <1>4, <1>6, <1>7, <1>8, <1>9 DEF Next, CertificateTab

\* A certificate stays issued, whatever is edited and however answers overtake
\* each other, but for those two (render_certificate_editor_popup and
\* render_acme_confirm_popup).
THEOREM IssuedStays == Spec => IssuedStaysIssued
<1>1. EditorInv /\ [Next]_vars =>
         [\A c \in ToSet(draft.certs), later \in ToSet(draft'.certs) :
             (c.id = later.id /\ c.issued /\ ~later.issued)
               => stale \/ \E job \in jobs \ jobs' : ~ById(job.of.certs, c.id).issued]_vars
  BY IssuedSteps
<1> QED
  BY <1>1, EditorInvariance, PTL DEF Spec, IssuedStaysIssued

-----------------------------------------------------------------------------
(***************************************************************************)
(* Inbounds keep a certificate.                                            *)
(***************************************************************************)

\* A reference is found when it is not blank and some certificate has its name.
LEMMA CertificateAtIff ==
    ASSUME NEW certs \in Seq(Certificate), NEW ref
    PROVE  CertificateAt(certs, ref) # 0
              <=> ~Blank(ref) /\ \E i \in DOMAIN certs : Trimmed[certs[i].name] = Trimmed[ref]
<1> DEFINE I == {i \in 1..Len(certs) : ~Blank(ref) /\ Trimmed[certs[i].name] = Trimmed[ref]}
<1>1. CertificateAt(certs, ref) = IF I # {} THEN Min(I) ELSE 0
  BY DEF CertificateAt, SelectInSeq
<1>2. I \in SUBSET Nat /\ 0 \notin I
  OBVIOUS
<1>3. I # {} <=> ~Blank(ref) /\ \E i \in DOMAIN certs : Trimmed[certs[i].name] = Trimmed[ref]
  OBVIOUS
<1> HIDE DEF I
<1> QED
  BY <1>1, <1>2, <1>3, LeastIsOne

\* The inbounds of an id name a certificate, or nothing.
Named(certs, text) == Blank(text) \/ CertificateAt(certs, text) # 0
AllNamed(certs, s, id) == \A x \in ToSet(s) : x.id = id => Named(certs, x.cert)

\* sync_draft leaves an inbound that names a certificate, or none, naming one or none.
LEMMA SyncInboundNamed ==
    ASSUME NEW certs \in Seq(Certificate), NEW x \in Inbound, Named(certs, x.cert)
    PROVE  Named(certs, SyncInbound(certs, x).cert)
<1> DEFINE at == CertificateAt(certs, x.cert)
           y  == SyncInbound(certs, x)
<1>1. CASE at = 0
  BY <1>1 DEF SyncInbound
<1>2. CASE at # 0
  <2>1. at \in DOMAIN certs
    BY <1>2, CertificateAtIs
  <2>2. y = [x EXCEPT !.cert = Trimmed[certs[at].name]]
    BY <1>2 DEF SyncInbound
  <2> HIDE DEF at, y
  <2>3. certs[at].name \in Text
    <3>1. certs[at] \in Certificate
      BY <2>1
    <3> QED
      BY <3>1 DEF Certificate
  <2>4. y.cert = Trimmed[certs[at].name]
    BY <2>2 DEF Inbound
  <2>5. Trimmed[y.cert] = Trimmed[certs[at].name]
    BY <2>3, <2>4, TextAssumption
  <2> QED
    BY <2>1, <2>5, CertificateAtIff DEF Named, y
<1> QED
  BY <1>1, <1>2

\* So for all inbounds,
LEMMA InboundsNamed ==
    ASSUME NEW certs \in Seq(Certificate), NEW s \in Seq(Inbound), NEW id, AllNamed(certs, s, id)
    PROVE  AllNamed(certs, [i \in DOMAIN s |-> SyncInbound(certs, s[i])], id)
<1>1. \A i \in DOMAIN s : s[i] \in Inbound /\ (s[i].id = id => Named(certs, s[i].cert))
  BY DEF AllNamed, ToSet
<1>2. \A i \in DOMAIN s : SyncInbound(certs, s[i]).id = id => Named(certs, SyncInbound(certs, s[i]).cert)
  BY <1>1, SyncInboundNamed, SyncInboundIs
<1> QED
  BY <1>2 DEF AllNamed, ToSet

\* and for the draft it is run over.
LEMMA SyncNamed ==
    ASSUME NEW d \in Draft, NEW id, AllNamed(d.certs, d.inbounds, id)
    PROVE  AllNamed(Sync(d).certs, Sync(d).inbounds, id)
<1> DEFINE t == [i \in DOMAIN d.inbounds |-> SyncInbound(d.certs, d.inbounds[i])]
<1>1. d.certs \in Seq(Certificate) /\ d.inbounds \in Seq(Inbound)
  BY Parts
<1>2. AllNamed(d.certs, t, id)
  BY <1>1, InboundsNamed
<1>3. Sync(d).certs = d.certs /\ Sync(d).inbounds = t
  BY SyncIs
<1> HIDE DEF t
<1> QED
  BY <1>2, <1>3

\* When no name is padded, an inbound that is shown and names a certificate
\* holds that certificate's very name.
LEMMA NamesAName ==
    ASSUME EditorInv, Unpadded(draft), NEW in \in ToSet(Current.inbounds), Names(Current, in)
    PROVE  /\ ~Blank(in.cert)
           /\ \E j \in DOMAIN draft.certs : draft.certs[j].name = in.cert
           /\ AllNamed(draft.certs, Current.inbounds, in.id)
<1>1. draft \in Draft /\ draft.certs \in Seq(Certificate) /\ draft.inbounds \in Seq(Inbound) /\ Current.certs = draft.certs
  BY Parts, CurrentIs DEF EditorInv, EditorOK, DraftOK
<1>2. CertificateAt(draft.certs, in.cert) # 0
  BY <1>1 DEF Names
<1>3. ~Blank(in.cert)
  BY <1>1, <1>2, CertificateAtIff
<1>4. PICK i \in DOMAIN draft.inbounds : in = SyncInbound(draft.certs, draft.inbounds[i])
  <2>1. Current.inbounds = [i \in DOMAIN draft.inbounds |-> SyncInbound(draft.certs, draft.inbounds[i])]
    BY <1>1, SyncIs DEF Current
  <2> QED
    BY <2>1 DEF ToSet
<1> DEFINE raw == draft.inbounds[i]
           at  == CertificateAt(draft.certs, raw.cert)
<1>5. raw \in Inbound
  BY <1>1
<1>6. at # 0
  BY <1>2, <1>4 DEF SyncInbound
<1>7. at \in DOMAIN draft.certs /\ in = [raw EXCEPT !.cert = Trimmed[draft.certs[at].name]]
  BY <1>1, <1>4, <1>6, CertificateAtIs DEF SyncInbound
<1> HIDE DEF raw, at
<1>8. draft.certs[at].name = in.cert
  BY <1>5, <1>7 DEF Unpadded, ToSet, Inbound
<1>9. \A x \in ToSet(Current.inbounds) : x.id = in.id => x = in
  BY CurrentParts DEF ToSet, Numbered, Distinct
<1> QED
  BY <1>2, <1>3, <1>7, <1>8, <1>9 DEF AllNamed, Named

\* An inbound is told by its id.
LEMMA ShownInbound ==
    ASSUME EditorInv, NEW in \in ToSet(Current.inbounds)
    PROVE  /\ in \in Inbound /\ in.id < FreshId /\ in.id \in Nat
           /\ \A i \in DOMAIN Current.inbounds :
                 /\ Current.inbounds[i] \in Inbound
                 /\ Current.inbounds[i].id = in.id => Current.inbounds[i] = in
<1> DEFINE ins == Current.inbounds
<1>1. ins \in Seq(Inbound) /\ Distinct(ins) /\ Below(ins, FreshId) /\ in \in ToSet(ins)
  BY CurrentParts DEF Numbered
<1> HIDE DEF ins
<1>2. PICK k \in DOMAIN ins : ins[k] = in
  BY <1>1 DEF ToSet
<1>3. in \in Inbound /\ in.id < FreshId
  BY <1>1, <1>2 DEF Below
<1>4. \A i \in DOMAIN ins : ins[i] \in Inbound /\ (ins[i].id = in.id => ins[i] = in)
  BY <1>1, <1>2 DEF Distinct
<1> QED
  BY <1>3, <1>4, Ids DEF ins

\* A certificate that is saved under another name takes along the inbounds that
\* name it, and no other's name is lost.
LEMMA SavedNamed ==
    ASSUME EditorInv, Unpadded(draft), NEW in \in ToSet(Current.inbounds), Names(Current, in),
           NEW x \in Certificate, x.id <= FreshId
    PROVE  AllNamed(WithCertificate(Current, x).certs, WithCertificate(Current, x).inbounds, in.id)
<1> DEFINE old == draft.certs
           new == Put(old, x)
           ins == Current.inbounds
           at  == At(old, x.id)
           Follows(y) == IF at # 0 THEN y.cert = old[at].name ELSE Blank(y.cert)
           t   == [i \in DOMAIN ins |-> IF Follows(ins[i]) THEN [ins[i] EXCEPT !.cert = x.name] ELSE ins[i]]
<1>1. WithCertificate(Current, x).certs = new /\ WithCertificate(Current, x).inbounds = t
  BY CertificateParts
<1>2. /\ old \in Seq(Certificate) /\ new \in Seq(Certificate)
      /\ \E i \in DOMAIN new : new[i] = x
      /\ \A j \in DOMAIN old : j # at => j \in DOMAIN new /\ new[j] = old[j]
  <2>1. old \in Seq(Certificate)
    BY CurrentParts, CurrentIs
  <2> HIDE DEF old
  <2>2. at # 0 => at \in DOMAIN old
    BY <2>1, AtIs
  <2> QED
    BY <2>1, <2>2 DEF Put
<1>3. PICK j \in DOMAIN old : old[j].name = in.cert
  BY NamesAName
<1>4. ~Blank(in.cert) /\ \A i \in DOMAIN ins : ins[i] \in Inbound /\ (ins[i].id = in.id => ins[i] = in)
  BY NamesAName, ShownInbound
<1> HIDE DEF old, new, ins, at
<1>5. ASSUME NEW i \in DOMAIN ins, ins[i] = in
      PROVE  Named(new, t[i].cert)
  <2>1. CASE Follows(in)
    <3>1. t[i].cert = x.name
      BY <1>4, <1>5, <2>1 DEF Inbound
    <3> QED
      BY <1>2, <3>1, CertificateAtIff DEF Named
  <2>2. CASE ~Follows(in)
    <3>1. t[i] = in
      BY <1>5, <2>2
    <3>2. j # at
      BY <1>2, <1>3, <2>2
    <3>3. j \in DOMAIN new /\ new[j].name = in.cert
      BY <1>2, <1>3, <3>2
    <3>4. CertificateAt(new, in.cert) # 0
      BY <1>2, <1>4, <3>3, CertificateAtIff
    <3> QED
      BY <3>1, <3>4 DEF Named
  <2> QED
    BY <2>1, <2>2
<1>6. DOMAIN t = DOMAIN ins /\ \A i \in DOMAIN ins : t[i].id = ins[i].id
  BY <1>4 DEF Inbound
<1> HIDE DEF t
<1>7. AllNamed(new, t, in.id)
  BY <1>4, <1>5, <1>6 DEF AllNamed, ToSet
<1> QED
  BY <1>1, <1>7

\* The inbounds of a certificate that is deleted are given the first of those
\* left, or none.
LEMMA DeletedNamed ==
    ASSUME EditorInv, Unpadded(draft), NEW in \in ToSet(Current.inbounds), Names(Current, in),
           NEW x \in ToSet(draft.certs)
    PROVE  AllNamed(WithoutCertificate(Current, x).certs, WithoutCertificate(Current, x).inbounds, in.id)
<1> DEFINE old  == draft.certs
           left == Without(old, x.id)
           ins  == Current.inbounds
           name == IF left = <<>> THEN NoText ELSE Head(left).name
           t    == [i \in DOMAIN ins |-> IF ins[i].cert = x.name THEN [ins[i] EXCEPT !.cert = name] ELSE ins[i]]
<1>1. WithoutCertificate(Current, x).certs = left /\ WithoutCertificate(Current, x).inbounds = t
  BY CertificateParts
<1>2. /\ old \in Seq(Certificate) /\ left \in Seq(Certificate)
      /\ \A y \in ToSet(old) : y.id # x.id => y \in ToSet(left)
  BY CurrentParts, CurrentIs, WithoutIs, WithoutItems
<1>3. PICK j \in DOMAIN old : old[j].name = in.cert
  BY NamesAName
<1>4. ~Blank(in.cert) /\ \A i \in DOMAIN ins : ins[i] \in Inbound /\ (ins[i].id = in.id => ins[i] = in)
  BY NamesAName, ShownInbound
<1>5. in.cert # x.name => old[j] \in ToSet(left)
  <2>1. old[j] \in ToSet(draft.certs)
    BY DEF ToSet
  <2> QED
    BY <1>2, <1>3, <2>1, SameCertificate
<1>6. Named(left, name)
  <2>1. CASE left = <<>>
    BY <2>1, TextAssumption DEF Named, Blank, NoText, FixedText
  <2>2. CASE left # <<>>
    <3>1. 1 \in DOMAIN left /\ name = left[1].name
      BY <1>2, <2>2
    <3> HIDE DEF name, left
    <3> QED
      BY <1>2, <3>1, CertificateAtIff DEF Named
  <2> QED
    BY <2>1, <2>2
<1> HIDE DEF old, left, ins, name
<1>7. ASSUME NEW i \in DOMAIN ins, ins[i] = in
      PROVE  Named(left, t[i].cert)
  <2>1. CASE in.cert = x.name
    <3>1. t[i].cert = name
      BY <1>4, <1>7, <2>1 DEF Inbound
    <3> QED
      BY <1>6, <3>1
  <2>2. CASE in.cert # x.name
    <3>1. t[i] = in
      BY <1>7, <2>2
    <3>2. PICK k \in DOMAIN left : left[k].name = in.cert
      BY <1>3, <1>5, <2>2 DEF ToSet
    <3>3. CertificateAt(left, in.cert) # 0
      BY <1>2, <1>4, <3>2, CertificateAtIff
    <3> QED
      BY <3>1, <3>3 DEF Named
  <2> QED
    BY <2>1, <2>2
<1>8. DOMAIN t = DOMAIN ins /\ \A i \in DOMAIN ins : t[i].id = ins[i].id
  BY <1>4 DEF Inbound
<1> HIDE DEF t
<1>9. AllNamed(left, t, in.id)
  BY <1>4, <1>7, <1>8 DEF AllNamed, ToSet
<1> QED
  BY <1>1, <1>9

\* The handlers of the Inbounds tab leave every inbound its certificate, or one
\* that the editor offered.
LEMMA InboundNamed ==
    ASSUME EditorInv, ~stale, InboundTab, draft' # draft,
           NEW in \in ToSet(Current.inbounds), Names(Current, in)
    PROVE  AllNamed(draft'.certs, draft'.inbounds, in.id)
<1> DEFINE ins == Current.inbounds
<1>1. /\ ins \in Seq(Inbound) /\ Numbered(ins, FreshId) /\ FreshId \in Nat
      /\ draft.certs \in Seq(Certificate) /\ Current \in Draft /\ Current.certs = draft.certs
      /\ in.id < FreshId /\ in \in Inbound
  BY CurrentParts, CurrentIs DEF ToSet, Numbered, Below
<1>2. Named(draft.certs, in.cert)
  BY <1>1 DEF Names, Named
<1>3. \A x \in ToSet(ins) : x.id = in.id => x = in
  BY <1>1 DEF ToSet, Numbered, Distinct
<1>4. ASSUME NEW s \in Seq(Inbound), draft' = Sync([Current EXCEPT !.inbounds = s]),
             \A x \in ToSet(s) : x.id = in.id => Named(draft.certs, x.cert)
      PROVE  AllNamed(draft'.certs, draft'.inbounds, in.id)
  <2> DEFINE d == [Current EXCEPT !.inbounds = s]
  <2>1. d \in Draft /\ d.certs = draft.certs /\ d.inbounds = s
    BY <1>1 DEF Draft
  <2>2. AllNamed(d.certs, d.inbounds, in.id)
    BY <1>4, <2>1 DEF AllNamed
  <2> HIDE DEF d
  <2>3. draft' = Sync(d)
    BY <1>4 DEF d
  <2> QED
    BY <2>1, <2>2, <2>3, SyncNamed
<1>5. CASE SaveInbound
  <2>1. popup.kind = "inbound" /\ popup.item \in Inbound /\ popup.item.id <= FreshId
    BY <1>5 DEF SaveInbound, EditorInv, EditorOK, PopupOK
  <2>2. PICK cert \in {popup.item.cert} \cup {c.name : c \in ToSet(draft.certs)} :
           Change(Sync([Current EXCEPT !.inbounds = Put(@, [popup.item EXCEPT !.cert = cert])]))
    BY <1>5 DEF SaveInbound
  <2> DEFINE y == [popup.item EXCEPT !.cert = cert]
             s == Put(ins, y)
  <2>3. draft' = Sync([Current EXCEPT !.inbounds = s])
    BY <2>2 DEF Change
  <2>4. y \in Inbound /\ y.id = popup.item.id /\ y.cert = cert
    <3>1. cert \in Text
      <4>1. \A c \in ToSet(draft.certs) : c \in Certificate
        BY <1>1 DEF ToSet
      <4> QED
        BY <2>1, <4>1 DEF Inbound, Certificate
    <3> QED
      BY <2>1, <3>1 DEF Inbound
  <2> HIDE DEF y
  <2>5. y.id = in.id => Named(draft.certs, y.cert)
    <3>1. CASE cert = popup.item.cert /\ y.id = in.id
      <4>1. in.id \in Nat
        BY <1>1, Ids
      <4>2. Has(ins, popup)
        BY <1>1, <2>1, <2>4, <3>1, <4>1 DEF EditorInv, Matches
      <4>3. popup.item \in ToSet(ins)
        BY <1>1, <4>2, AtIs DEF Has, ById, ToSet
      <4>4. popup.item = in
        BY <1>3, <2>4, <3>1, <4>3
      <4> QED
        BY <1>2, <2>4, <3>1, <4>4
    <3>2. CASE cert \in {c.name : c \in ToSet(draft.certs)}
      <4>1. PICK k \in DOMAIN draft.certs : cert = draft.certs[k].name
        BY <3>2 DEF ToSet
      <4> QED
        BY <1>1, <2>4, <4>1, CertificateAtIff DEF Named
    <3> QED
      BY <2>2, <3>1, <3>2
  <2>6. s \in Seq(Inbound) /\ \A i \in DOMAIN s : s[i] = y \/ s[i] \in ToSet(ins)
    <3>1. y.id < FreshId + 1
      BY <1>1, <2>1, <2>4, Ids
    <3> HIDE DEF ins
    <3> QED
      BY <1>1, <2>4, <3>1, Ids, PutNumbers DEF ToSet
  <2> HIDE DEF s
  <2>7. \A x \in ToSet(s) : x.id = in.id => Named(draft.certs, x.cert)
    BY <1>2, <1>3, <2>5, <2>6 DEF ToSet
  <2> QED
    BY <1>4, <2>3, <2>6, <2>7
<1>6. CASE DeleteInbound
  <2> DEFINE s == Without(ins, popup.at)
  <2>1. draft' = Sync([Current EXCEPT !.inbounds = s])
    BY <1>6 DEF DeleteInbound, Change
  <2>2. s \in Seq(Inbound) /\ ToSet(s) \subseteq ToSet(ins)
    BY <1>1, WithoutIs, WithoutItems
  <2> HIDE DEF s
  <2> QED
    BY <1>2, <1>3, <1>4, <2>1, <2>2
<1>7. CASE DuplicateInbound
  <2> DEFINE y == [popup.item EXCEPT !.id = FreshId]
             s == Append(ins, y)
  <2>1. popup.item \in Inbound
    BY <1>7 DEF DuplicateInbound, EditorInv, EditorOK, PopupOK
  <2>2. y \in Inbound /\ y.id = FreshId
    BY <2>1, CurrentParts DEF Inbound
  <2>3. draft' = Sync([Current EXCEPT !.inbounds = s])
    BY <1>7 DEF DuplicateInbound, Change
  <2> HIDE DEF y
  <2>4. s \in Seq(Inbound) /\ \A i \in DOMAIN s : s[i] = y \/ s[i] \in ToSet(ins)
    BY <1>1, <2>2, AppendIs DEF ToSet
  <2> HIDE DEF s
  <2>5. y.id # in.id
    BY <1>1, <2>2, Ids
  <2>6. \A x \in ToSet(s) : x.id = in.id => Named(draft.certs, x.cert)
    BY <1>2, <1>3, <2>4, <2>5 DEF ToSet
  <2> QED
    BY <1>4, <2>3, <2>4, <2>6
<1>8. CASE ToggleInbound
  <2>1. draft' = Current
    BY <1>8 DEF ToggleInbound, Change
  <2> QED
    BY <1>1, <1>2, <1>3, <2>1 DEF AllNamed
<1>9. CASE NewInbound \/ EditInbound \/ AskDeleteInbound \/ AskDuplicateInbound
  BY <1>9 DEF Open, NewInbound, EditInbound, AskDeleteInbound, AskDuplicateInbound
<1> QED
  BY <1>5, <1>6, <1>7, <1>8, <1>9 DEF InboundTab

\* So does every step but an ACME answer.
LEMMA NamedSteps ==
    ASSUME EditorInv, [Next]_vars, draft' # draft, jobs' = jobs, Unpadded(draft), ~stale,
           NEW in \in ToSet(Current.inbounds), Names(Current, in)
    PROVE  AllNamed(draft'.certs, draft'.inbounds, in.id)
<1>1. CASE Left(draft')
  <2>1. AllNamed(draft.certs, Current.inbounds, in.id)
    BY NamesAName
  <2>2. draft.certs \in Seq(Certificate) /\ Current.inbounds \in Seq(Inbound)
    BY CurrentParts, CurrentIs
  <2> QED
    BY <1>1, <2>1, <2>2, InboundsNamed DEF Left
<1>2. CASE SaveCertificate
  <2>1. PICK name \in Typed, acme \in BOOLEAN :
           Change(WithCertificate(Current, [popup.item EXCEPT !.name = name, !.acme = acme]))
    BY <1>2 DEF SaveCertificate
  <2> DEFINE x == [popup.item EXCEPT !.name = name, !.acme = acme]
  <2>2. popup.item \in Certificate /\ popup.item.id <= FreshId
    BY <1>2 DEF SaveCertificate, EditorInv, EditorOK, PopupOK
  <2>3. x \in Certificate /\ x.id <= FreshId
    BY <2>2, EditorAssumption DEF Certificate
  <2>4. draft' = WithCertificate(Current, x)
    BY <2>1 DEF Change
  <2> HIDE DEF x
  <2> QED
    BY <2>3, <2>4, SavedNamed
<1>3. CASE DeleteCertificate
  <2>1. PICK cert \in ToSet(draft.certs) : draft' = WithoutCertificate(Current, cert)
    BY <1>3, CurrentIs DEF DeleteCertificate, Change
  <2> QED
    BY <2>1, DeletedNamed
<1>4. CASE AcmeAnswers
  BY <1>4 DEF AcmeAnswers
<1>5. CASE InboundTab
  BY <1>5, InboundNamed
<1>6. CASE OutboundTab \/ ReverseTab \/ RuleTab \/ DnsTab
  BY <1>1, <1>6, OutboundLeaves, ReverseLeaves, RuleLeaves, DnsLeaves
<1>7. CASE NewCertificate \/ EditCertificate \/ AskAcme \/ ConfirmAcme \/ AcmeFails \/ Cancel \/ UNCHANGED vars
  BY <1>7 DEF Open, NewCertificate, EditCertificate, AskAcme, ConfirmAcme, AcmeFails, Cancel, vars
<1>8. CASE DeleteAccount
  BY <1>1, <1>8, LeftIs DEF DeleteAccount
<1> QED
  BY <1>2, <1>3, <1>4, <1>5, <1>6, <1>7, <1>8 DEF Next, CertificateTab

\* No handler of the page leaves an inbound naming a certificate that is gone
\* (render_certificate_editor_popup, the Settings tab's delete, sync_draft).
THEOREM InboundsKeepCertificates == Spec => InboundsKeepTheirCertificate
<1> DEFINE Keeps == (draft' # draft /\ jobs' = jobs /\ Unpadded(draft) /\ ~stale) =>
                       LET now  == Current
                           then == Current'
                       IN  \A in \in ToSet(now.inbounds), later \in ToSet(then.inbounds) :
                              (later.id = in.id /\ Names(now, in))
                                  => Names(then, later) \/ Blank(later.cert)
<1>1. EditorInv /\ EditorInv' /\ [Next]_vars => [Keeps]_vars
  <2> SUFFICES ASSUME EditorInv, EditorInv', [Next]_vars,
                      draft' # draft, jobs' = jobs, Unpadded(draft), ~stale,
                      NEW in \in ToSet(Current.inbounds), NEW later \in ToSet(Current'.inbounds),
                      later.id = in.id, Names(Current, in)
               PROVE  Names(Current', later) \/ Blank(later.cert)
    OBVIOUS
  <2>1. AllNamed(draft'.certs, draft'.inbounds, in.id)
    BY NamedSteps
  <2>2. draft' \in Draft
    BY DEF EditorInv, EditorOK, DraftOK
  <2>3. AllNamed(Current'.certs, Current'.inbounds, in.id)
    BY <2>1, <2>2, SyncNamed DEF Current
  <2> QED
    BY <2>3 DEF AllNamed, Named, Names
<1> QED
  BY <1>1, EditorInvariance, PTL DEF Spec, InboundsKeepTheirCertificate

=============================================================================
