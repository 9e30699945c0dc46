----------------------------- MODULE IndexProofs -----------------------------
(***************************************************************************)
(* What the hash index and the full-text index promise, for any keys, row  *)
(* ids, documents, texts, buckets and hash function, and for calls without *)
(* a bound.                                                                *)
(*                                                                         *)
(* The invariant of the full-text index (TextIs): the posting list of a    *)
(* term has each document whose text has the term once, with the number    *)
(* of times it occurs there.  That of the hash index (HashIs): an entry is *)
(* at as many spots of its bucket's chain as it was inserted, less the     *)
(* times it was removed; no more is said of the bucket under the page      *)
(* checksum.  The steps map the spots before an operation to those after   *)
(* it, one to one but for the entry that comes or goes.                    *)
(***************************************************************************)
EXTENDS IndexCalls, FiniteSetTheorems, WellFoundedInduction, TLAPS

\* A set of numbers that is not empty has a least one,
LEMMA LeastNumber ==
  ASSUME NEW T \in SUBSET Nat, T # {}
  PROVE  \E x \in T : \A y \in T : x <= y
<1>1. \A y, z \in Nat : y < z => <<y, z>> \in OpToRel(<, Nat)
  BY Zenon DEF OpToRel
<1>2. PICK x \in T : \A y \in T : ~ (<<y, x>> \in OpToRel(<, Nat))
  BY NatLessThanWellFounded, WFMin, Zenon
<1>3. \A y \in T : ~(y < x)
  BY <1>1, <1>2, Zenon
<1> QED
  BY <1>3

\* which Min takes.
LEMMA MinIs ==
  ASSUME NEW T \in SUBSET Nat, T # {}
  PROVE  Min(T) \in T
BY LeastNumber, Zenon DEF Min

\* A sequence without the element at a position.
LEMMA ShortenedIs ==
  ASSUME NEW S, NEW s \in Seq(S), NEW i \in 1..Len(s), NEW r, r = Shortened(s, i)
  PROVE  /\ r \in Seq(S) /\ Len(r) = Len(s) - 1
         /\ \A j \in 1..(Len(s) - 1) : r[j] = IF j < i THEN s[j] ELSE s[j + 1]
<1>1. PICK n \in Nat : n = Len(s)
  BY SMT
<1>2. PICK a : a = SubSeq(s, 1, i - 1)
  BY Zenon
<1>3. PICK b : b = SubSeq(s, i + 1, n)
  BY Zenon
<1>4. a \in Seq(S) /\ Len(a) = i - 1 /\ \A j \in 1..(i - 1) : a[j] = s[j]
  BY <1>1, <1>2, SMT
<1>5. b \in Seq(S) /\ Len(b) = n - i /\ \A j \in 1..(n - i) : b[j] = s[i + j]
  BY <1>1, <1>3, SMT
<1>6. r = a \o b
  BY <1>1, <1>2, <1>3, Zenon DEF Shortened
<1>7. r \in Seq(S) /\ Len(r) = n - 1
  BY <1>1, <1>4, <1>5, <1>6, SMT
<1>8. ASSUME NEW j \in 1..(n - 1)
      PROVE  r[j] = IF j < i THEN s[j] ELSE s[j + 1]
  <2>1. CASE j < i
    BY <1>1, <1>4, <1>5, <1>6, <2>1, SMT
  <2>2. CASE ~(j < i)
    <3>1. r[j] = b[j - (i - 1)]
      BY <1>1, <1>4, <1>5, <1>6, <2>2, SMT
    <3> QED
      BY <1>1, <1>5, <2>2, <3>1, SMT
  <2> QED
    BY <2>1, <2>2, Zenon
<1> QED
  BY <1>1, <1>7, <1>8, Zenon
-----------------------------------------------------------------------------
\* The full-text index.

\* The documents with tokens, and those that have a term.
KnownDocs(e) == {d \in DOMAIN e : tokenizeWithDuplicates(e[d]) # <<>>}

HasTerm(e, d, term) == d \in KnownDocs(e) /\ term \in Range(tokenizeWithDuplicates(e[d]))

TermCount(e, d, term) == Occurrences(term, tokenizeWithDuplicates(e[d]))

\* What a posting can be.
CountsIn(t) == {Occurrences(term, tokenizeWithDuplicates(t)) : term \in Range(tokenizeWithDuplicates(t))}

Counts == UNION {CountsIn(t) : t \in Texts}

Posting == [docId : Documents, tf : Counts]

\* The posting list of a term has each of its documents once.
IsListOf(l, e, term) ==
  /\ l.postings \in Seq(Posting) /\ l.postings # <<>> /\ l.df = Len(l.postings)
  /\ \A i \in 1..Len(l.postings) :
       HasTerm(e, l.postings[i].docId, term) /\ l.postings[i].tf = TermCount(e, l.postings[i].docId, term)
  /\ \A i, j \in 1..Len(l.postings) : l.postings[i].docId = l.postings[j].docId => i = j
  /\ \A d \in Documents : HasTerm(e, d, term) => \E i \in 1..Len(l.postings) : l.postings[i].docId = d

IsText(x) ==
  x = [index |-> x.index, docLengths |-> x.docLengths, totalDocuments |-> x.totalDocuments, ok |-> x.ok]

AreTexts(e) == DOMAIN e \subseteq Documents /\ \A d \in DOMAIN e : e[d] \in Texts

\* The inductive invariant: the index x is that of the texts e.
TextIs(x, e) ==
  /\ IsText(x) /\ AreTexts(e)
  /\ DOMAIN x.docLengths = KnownDocs(e)
  /\ IsFiniteSet(KnownDocs(e)) /\ x.totalDocuments = Cardinality(KnownDocs(e))
  /\ \A term \in DOMAIN x.index : IsListOf(x.index[term], e, term)
  /\ \A term : \A d \in Documents : HasTerm(e, d, term) => term \in DOMAIN x.index

\* The fields of a record that is written out.
LEMMA TextRecord ==
  ASSUME NEW a, NEW f, NEW n, NEW b, NEW y,
         y = [index |-> a, docLengths |-> f, totalDocuments |-> n, ok |-> b]
  PROVE  y.index = a /\ y.docLengths = f /\ y.totalDocuments = n /\ y.ok = b /\ IsText(y)
<1>1. y.index = a /\ y.docLengths = f /\ y.totalDocuments = n /\ y.ok = b
  BY Zenon
<1>2. y = [index |-> y.index, docLengths |-> y.docLengths, totalDocuments |-> y.totalDocuments, ok |-> y.ok]
  BY <1>1, Zenon
<1> QED
  BY <1>1, <1>2, Zenon DEF IsText

\* The result of the last operation is no part of that.
LEMMA OkKeeps ==
  ASSUME NEW x, NEW e, TextIs(x, e), NEW b, NEW y, y = [x EXCEPT !.ok = b]
  PROVE  TextIs(y, e) /\ y.ok = b
<1>1. PICK a, f, n, c : x = [index |-> a, docLengths |-> f, totalDocuments |-> n, ok |-> c]
  BY Zenon DEF TextIs, IsText
<1>2. y = [index |-> a, docLengths |-> f, totalDocuments |-> n, ok |-> b]
  BY <1>1, Zenon
<1>3. y.index = x.index /\ y.docLengths = x.docLengths /\ y.totalDocuments = x.totalDocuments
      /\ y.ok = b /\ IsText(y)
  BY <1>1, <1>2, Zenon DEF IsText
<1> QED
  BY <1>3, Zenon DEF TextIs

\* The texts g are e with another text of a document.
Entered(e, d, t, g) == g = With(e, d, t)

\* The terms are those of e, and of the document those of t.
TermsGrow(e, d, t, g) ==
  /\ AreTexts(g) /\ g[d] = t
  /\ \A c, term : HasTerm(g, c, term) <=>
       \/ c # d /\ HasTerm(e, c, term)
       \/ c = d /\ tokenizeWithDuplicates(t) # <<>> /\ term \in Range(tokenizeWithDuplicates(t))
  /\ \A c, term : HasTerm(e, c, term) => c # d /\ TermCount(g, c, term) = TermCount(e, c, term)
  /\ KnownDocs(g) = KnownDocs(e) \cup (IF tokenizeWithDuplicates(t) = <<>> THEN {} ELSE {d})

\* So it is for a document that has no tokens before.
LEMMA WithText ==
  ASSUME NEW e, AreTexts(e), NEW d \in Documents, d \notin KnownDocs(e), NEW t \in Texts,
         NEW g, Entered(e, d, t, g)
  PROVE  TermsGrow(e, d, t, g)
<1>1. DOMAIN g = DOMAIN e \cup {d} /\ g[d] = t /\ \A c \in DOMAIN e : c # d => g[c] = e[c]
  BY Zenon DEF Entered, With
<1>2. AreTexts(g)
  BY <1>1, Zenon DEF AreTexts
<1>3. \A c : c \in KnownDocs(e) => c # d /\ c \in KnownDocs(g) /\ g[c] = e[c]
  BY <1>1, Zenon DEF KnownDocs
<1>4. \A c : c \in KnownDocs(g) => c = d \/ c \in KnownDocs(e)
  BY <1>1, Zenon DEF KnownDocs
<1>5. d \in KnownDocs(g) <=> tokenizeWithDuplicates(t) # <<>>
  BY <1>1, Zenon DEF KnownDocs
<1>6. KnownDocs(g) = KnownDocs(e) \cup (IF tokenizeWithDuplicates(t) = <<>> THEN {} ELSE {d})
  BY <1>3, <1>4, <1>5, Zenon
<1>7. \A c, term : HasTerm(g, c, term) <=>
        \/ c # d /\ HasTerm(e, c, term)
        \/ c = d /\ tokenizeWithDuplicates(t) # <<>> /\ term \in Range(tokenizeWithDuplicates(t))
  BY <1>1, <1>3, <1>4, <1>5, Zenon DEF HasTerm
<1>8. \A c, term : HasTerm(e, c, term) => c # d /\ TermCount(g, c, term) = TermCount(e, c, term)
  BY <1>3, Zenon DEF HasTerm, TermCount
<1> QED
  BY <1>1, <1>2, <1>6, <1>7, <1>8, Zenon DEF TermsGrow
\* The posting list of a term stays that of the term if its documents do.
LEMMA ListStays ==
  ASSUME NEW e, NEW g, NEW term, \A c : HasTerm(g, c, term) <=> HasTerm(e, c, term),
         \A c : HasTerm(e, c, term) => TermCount(g, c, term) = TermCount(e, c, term),
         NEW l, IsListOf(l, e, term)
  PROVE  IsListOf(l, g, term)
<1>1. \A i \in 1..Len(l.postings) : HasTerm(g, l.postings[i].docId, term)
        /\ l.postings[i].tf = TermCount(g, l.postings[i].docId, term)
  <2>1. \A i \in 1..Len(l.postings) : HasTerm(e, l.postings[i].docId, term)
          /\ l.postings[i].tf = TermCount(e, l.postings[i].docId, term)
    BY Zenon DEF IsListOf
  <2> QED
    BY <2>1, Zenon
<1>2. \A c \in Documents : HasTerm(g, c, term) => \E i \in 1..Len(l.postings) : l.postings[i].docId = c
  BY Zenon DEF IsListOf
<1>3. /\ l.postings \in Seq(Posting) /\ l.postings # <<>> /\ l.df = Len(l.postings)
      /\ \A i, j \in 1..Len(l.postings) : l.postings[i].docId = l.postings[j].docId => i = j
  BY Zenon DEF IsListOf
<1> QED
  BY <1>1, <1>2, <1>3, Zenon DEF IsListOf

\* A document without tokens leaves the index as it is.
LEMMA EmptyTextKeeps ==
  ASSUME NEW x, NEW e, TextIs(x, e), NEW d \in Documents, d \notin KnownDocs(e), NEW t \in Texts,
         tokenizeWithDuplicates(t) = <<>>, NEW g, Entered(e, d, t, g)
  PROVE  TextIs(x, g)
<1>1. AreTexts(e)
  BY Zenon DEF TextIs
<1>2. TermsGrow(e, d, t, g)
  BY <1>1, WithText
<1>3. AreTexts(g) /\ KnownDocs(g) = KnownDocs(e)
  BY <1>2, Zenon DEF TermsGrow
<1>4. \A c, term : HasTerm(g, c, term) <=> HasTerm(e, c, term)
  BY <1>2, Zenon DEF TermsGrow, HasTerm
<1>5. \A c, term : HasTerm(e, c, term) => TermCount(g, c, term) = TermCount(e, c, term)
  BY <1>2, Zenon DEF TermsGrow
<1>6. \A term \in DOMAIN x.index : IsListOf(x.index[term], g, term)
  BY <1>4, <1>5, ListStays DEF TextIs
<1> QED
  BY <1>3, <1>4, <1>6, Zenon DEF TextIs

\* What the postings of a term are, before there are some as well.
ArePostings(s, e, term) ==
  /\ s \in Seq(Posting)
  /\ \A i \in 1..Len(s) : HasTerm(e, s[i].docId, term) /\ s[i].tf = TermCount(e, s[i].docId, term)
  /\ \A i, j \in 1..Len(s) : s[i].docId = s[j].docId => i = j
  /\ \A c \in Documents : HasTerm(e, c, term) => \E i \in 1..Len(s) : s[i].docId = c

\* A document is new among those with a term.
OneMore(e, d, term, g) ==
  /\ HasTerm(g, d, term) /\ TermCount(g, d, term) \in Counts
  /\ \A c : HasTerm(g, c, term) <=> c = d \/ HasTerm(e, c, term)
  /\ \A c : HasTerm(e, c, term) => c # d /\ TermCount(g, c, term) = TermCount(e, c, term)

IsGrown(s, d, n, l) == l = [postings |-> Append(s, [docId |-> d, tf |-> n]), df |-> Len(s) + 1]

\* A document enters the posting list of a term.
LEMMA ListGrows ==
  ASSUME NEW e, NEW g, NEW term, NEW d \in Documents, OneMore(e, d, term, g),
         NEW s, ArePostings(s, e, term), NEW l, IsGrown(s, d, TermCount(g, d, term), l)
  PROVE  IsListOf(l, g, term)
<1>0. PICK p : p = [docId |-> d, tf |-> TermCount(g, d, term)]
  BY Zenon
<1>1. p \in Posting /\ p.docId = d /\ p.tf = TermCount(g, d, term)
  BY <1>0, Zenon DEF Posting, OneMore
<1>2. PICK r : r = Append(s, p)
  BY Zenon
<1>3. PICK n \in Nat : n = Len(s)
  BY SMT DEF ArePostings
<1>4. r \in Seq(Posting) /\ Len(r) = n + 1 /\ r # <<>> /\ r[n + 1] = p /\ \A i \in 1..n : r[i] = s[i]
  BY <1>1, <1>2, <1>3, SMT DEF ArePostings
<1>5. l.postings = r /\ l.df = n + 1
  BY <1>0, <1>2, <1>3, Zenon DEF IsGrown
<1>6. \A i \in 1..(n + 1) : i = n + 1 \/ i \in 1..n
  BY SMT
<1>7. n + 1 \in 1..(n + 1) /\ \A i \in 1..n : i \in 1..(n + 1)
  BY SMT
<1>8. \A i \in 1..(n + 1) : HasTerm(g, r[i].docId, term) /\ r[i].tf = TermCount(g, r[i].docId, term)
  <2>1. \A i \in 1..n : HasTerm(e, r[i].docId, term) /\ r[i].tf = TermCount(e, r[i].docId, term)
    BY <1>3, <1>4, Zenon DEF ArePostings
  <2> QED
    BY <1>1, <1>4, <1>6, <2>1, Zenon DEF OneMore
<1>9. \A i, j \in 1..(n + 1) : r[i].docId = r[j].docId => i = j
  <2>1. \A i \in 1..n : r[i].docId # d /\ r[n + 1].docId = d
    BY <1>1, <1>3, <1>4, Zenon DEF ArePostings, OneMore
  <2>2. \A i, j \in 1..n : r[i].docId = r[j].docId => i = j
    BY <1>3, <1>4, Zenon DEF ArePostings
  <2> QED
    BY <1>6, <2>1, <2>2, Zenon
<1>10. \A c \in Documents : HasTerm(g, c, term) => \E i \in 1..(n + 1) : r[i].docId = c
  <2>1. \A c \in Documents : HasTerm(e, c, term) => \E i \in 1..n : r[i].docId = c
    BY <1>3, <1>4, Zenon DEF ArePostings
  <2>2. \A c : HasTerm(g, c, term) => c = d \/ HasTerm(e, c, term)
    BY Zenon DEF OneMore
  <2> QED
    BY <1>1, <1>4, <1>7, <2>1, <2>2, Zenon
<1> QED
  BY <1>4, <1>5, <1>8, <1>9, <1>10, Zenon DEF IsListOf

\* insert
LEMMA TextInsertKeeps ==
  ASSUME NEW x, NEW e, TextIs(x, e), NEW d \in Documents, NEW t \in Texts,
         NEW y, y = TextInsert(x, d, t)
  PROVE  TextIs(y, IF y.ok THEN With(e, d, t) ELSE e)
<1>1. PICK tokens : tokens = tokenizeWithDuplicates(t)
  BY Zenon
<1>2. PICK g : Entered(e, d, t, g)
  BY Zenon DEF Entered
<1>3. CASE t = <<>> \/ d \in DOMAIN x.docLengths
  <2>1. y = [x EXCEPT !.ok = FALSE]
    BY <1>3, Zenon DEF TextInsert
  <2>2. TextIs(y, e) /\ y.ok = FALSE
    BY <2>1, OkKeeps, Zenon
  <2> QED
    BY <2>2, Zenon
<1>4. CASE ~(t = <<>> \/ d \in DOMAIN x.docLengths) /\ tokens = <<>>
  <2>1. y = [x EXCEPT !.ok = TRUE]
    BY <1>1, <1>4, Zenon DEF TextInsert
  <2>2. d \notin KnownDocs(e)
    BY <1>4, Zenon DEF TextIs
  <2>3. TextIs(x, g)
    BY <1>1, <1>2, <1>4, <2>2, EmptyTextKeeps
  <2>4. TextIs(y, g) /\ y.ok = TRUE
    BY <2>1, <2>3, OkKeeps, Zenon
  <2> QED
    BY <1>2, <2>4, Zenon DEF Entered
<1>5. CASE ~(t = <<>> \/ d \in DOMAIN x.docLengths) /\ tokens # <<>>
  <2>1. PICK index : index = [term \in DOMAIN x.index \cup Range(tokens) |->
                       IF term \notin Range(tokens) THEN x.index[term]
                       ELSE [postings |-> Append(Postings(x, term), [docId |-> d, tf |-> Occurrences(term, tokens)]),
                             df |-> Len(Postings(x, term)) + 1]]
    BY Zenon
  <2>2. y = [index |-> index, docLengths |-> With(x.docLengths, d, Len(tokens)),
             totalDocuments |-> x.totalDocuments + 1, ok |-> TRUE]
    BY <1>1, <1>5, <2>1, Zenon DEF TextInsert
  <2>3. d \notin KnownDocs(e) /\ AreTexts(e)
    BY <1>5, Zenon DEF TextIs
  <2>4. TermsGrow(e, d, t, g)
    BY <1>2, <2>3, WithText
  <2>5. KnownDocs(g) = KnownDocs(e) \cup {d}
    BY <1>1, <1>5, <2>4, Zenon DEF TermsGrow
  <2>6. IsFiniteSet(KnownDocs(g)) /\ Cardinality(KnownDocs(g)) = Cardinality(KnownDocs(e)) + 1
    <3>1. PICK K : K = KnownDocs(e)
      BY Zenon
    <3>2. IsFiniteSet(K) /\ d \notin K
      BY <2>3, <3>1, Zenon DEF TextIs
    <3>3. IsFiniteSet(K \cup {d}) /\ Cardinality(K \cup {d}) = Cardinality(K) + 1
      BY <3>2, FS_AddElement, Zenon
    <3> QED
      BY <2>5, <3>1, <3>3, Zenon
  <2>7. /\ DOMAIN y.docLengths = KnownDocs(g) /\ y.totalDocuments = Cardinality(KnownDocs(g))
        /\ IsText(y) /\ y.ok /\ y.index = index
    <3>0. PICK f, n, b : f = With(x.docLengths, d, Len(tokens)) /\ n = x.totalDocuments + 1 /\ b = TRUE
      BY Zenon
    <3>1. y.docLengths = f /\ y.totalDocuments = n /\ y.ok = b /\ y.index = index /\ IsText(y)
      <4>1. y = [index |-> index, docLengths |-> f, totalDocuments |-> n, ok |-> b]
        BY <2>2, <3>0, Zenon
      <4> QED
        BY <4>1, TextRecord
    <3>3. DOMAIN y.docLengths = DOMAIN x.docLengths \cup {d}
      BY <3>0, <3>1, Zenon DEF With
    <3> QED
      BY <2>5, <2>6, <3>0, <3>1, <3>3, Zenon DEF TextIs
  <2>8. \A term : term \in Range(tokens) => OneMore(e, d, term, g)
    <3>1. \A term : term \in Range(tokens) => TermCount(g, d, term) \in Counts
      <4>1. ASSUME NEW term, term \in Range(tokens)
            PROVE  TermCount(g, d, term) \in Counts
        <5>1. TermCount(g, d, term) = Occurrences(term, tokenizeWithDuplicates(t))
          BY <2>4, Zenon DEF TermsGrow, TermCount
        <5>2. TermCount(g, d, term) \in CountsIn(t)
          BY <1>1, <4>1, <5>1, Zenon DEF CountsIn
        <5> QED
          BY <5>2, Zenon DEF Counts
      <4> QED
        BY <4>1, Zenon
    <3>2. \A term : term \in Range(tokens) => HasTerm(g, d, term)
      BY <1>1, <1>5, <2>4, Zenon DEF TermsGrow
    <3>3. \A c, term : HasTerm(g, c, term) <=> (c = d /\ term \in Range(tokens)) \/ HasTerm(e, c, term)
      BY <1>1, <1>5, <2>3, <2>4, Zenon DEF TermsGrow, HasTerm
    <3> QED
      BY <3>1, <3>2, <3>3, <2>4, Zenon DEF OneMore, TermsGrow
  <2>9. \A c, term : term \notin Range(tokens) => (HasTerm(g, c, term) <=> HasTerm(e, c, term))
    BY <1>1, <2>3, <2>4, Zenon DEF TermsGrow, HasTerm
  <2>10. ASSUME NEW term \in DOMAIN index
         PROVE  IsListOf(index[term], g, term)
    <3>1. CASE term \in Range(tokens)
      <4>1. PICK s : s = Postings(x, term)
        BY Zenon
      <4>2. ArePostings(s, e, term)
        <5>1. CASE term \in DOMAIN x.index
          <6>1. s = x.index[term].postings /\ IsListOf(x.index[term], e, term)
            BY <4>1, <5>1, Zenon DEF Postings, TextIs
          <6> QED
            BY <6>1, Zenon DEF IsListOf, ArePostings
        <5>2. CASE term \notin DOMAIN x.index
          <6>1. s = <<>>
            BY <4>1, <5>2, Zenon DEF Postings
          <6>2. \A c \in Documents : ~HasTerm(e, c, term)
            BY <5>2, Zenon DEF TextIs
          <6>3. s \in Seq(Posting) /\ \A i \in 1..Len(s) : FALSE
            BY <6>1, SMT
          <6> QED
            BY <6>2, <6>3, Zenon DEF ArePostings
        <5> QED
          BY <5>1, <5>2, Zenon
      <4>3. TermCount(g, d, term) = Occurrences(term, tokens)
        BY <1>1, <2>4, Zenon DEF TermsGrow, TermCount
      <4>4. IsGrown(s, d, TermCount(g, d, term), index[term])
        BY <2>1, <2>10, <3>1, <4>1, <4>3, Zenon DEF IsGrown
      <4> QED
        BY <2>8, <3>1, <4>2, <4>4, ListGrows
    <3>2. CASE term \notin Range(tokens)
      <4>1. IsListOf(x.index[term], e, term) /\ index[term] = x.index[term]
        BY <2>1, <2>10, <3>2, Zenon DEF TextIs
      <4>2. \A c : HasTerm(e, c, term) => TermCount(g, c, term) = TermCount(e, c, term)
        BY <2>4, Zenon DEF TermsGrow
      <4> QED
        BY <2>9, <3>2, <4>1, <4>2, ListStays
    <3> QED
      BY <3>1, <3>2, Zenon
  <2>11. \A term : \A c \in Documents : HasTerm(g, c, term) => term \in DOMAIN index
    <3>1. DOMAIN index = DOMAIN x.index \cup Range(tokens)
      BY <2>1, Zenon
    <3> QED
      BY <2>9, <3>1, Zenon DEF TextIs
  <2>12. TextIs(y, g)
    <3>1. AreTexts(g)
      BY <2>4, Zenon DEF TermsGrow
    <3> QED
      BY <2>6, <2>7, <2>10, <2>11, <3>1, Zenon DEF TextIs
  <2> QED
    BY <1>2, <2>7, <2>12, Zenon DEF Entered
<1> QED
  BY <1>3, <1>4, <1>5, Zenon

\* The documents with a term, without one of them.
OneLess(e, d, term, g) ==
  /\ \A c : HasTerm(g, c, term) <=> c # d /\ HasTerm(e, c, term)
  /\ \A c : HasTerm(g, c, term) => TermCount(g, c, term) = TermCount(e, c, term)

IsShrunk(l, d, m) == m = WithoutDocument(l, d)

\* A document leaves the posting list of a term, which may be left empty.
LEMMA ListShrinks ==
  ASSUME NEW e, NEW g, NEW term, NEW d \in Documents, OneLess(e, d, term, g),
         NEW l, IsListOf(l, e, term), NEW m, IsShrunk(l, d, m)
  PROVE  ArePostings(m.postings, g, term) /\ m.df = Len(m.postings)
<1>1. PICK s : s = l.postings
  BY Zenon
<1>2. s \in Seq(Posting) /\ l.df = Len(s) /\ ArePostings(s, e, term)
  BY <1>1, Zenon DEF IsListOf, ArePostings
<1>3. PICK n \in Nat : n = Len(s) /\ DOMAIN s = 1..n
  BY <1>2, SMT
<1>4. PICK at : at = {i \in DOMAIN s : s[i].docId = d}
  BY Zenon
<1>5. CASE at = {}
  <2>1. m = l
    BY <1>1, <1>4, <1>5, Zenon DEF IsShrunk, WithoutDocument
  <2>2. \A i \in 1..n : s[i].docId # d
    BY <1>3, <1>4, <1>5, Zenon
  <2>3. \A i \in 1..n : HasTerm(g, s[i].docId, term) /\ s[i].tf = TermCount(g, s[i].docId, term)
    <3>1. \A i \in 1..n : HasTerm(e, s[i].docId, term) /\ s[i].tf = TermCount(e, s[i].docId, term)
      BY <1>2, <1>3, Zenon DEF ArePostings
    <3> QED
      BY <2>2, <3>1, Zenon DEF OneLess
  <2>4. \A c \in Documents : HasTerm(g, c, term) => \E i \in 1..n : s[i].docId = c
    BY <1>2, <1>3, Zenon DEF ArePostings, OneLess
  <2>5. ArePostings(s, g, term)
    BY <1>2, <1>3, <2>3, <2>4, Zenon DEF ArePostings
  <2> QED
    BY <1>1, <1>2, <2>1, <2>5, Zenon
<1>6. CASE at # {}
  <2>1. PICK k : k = Min(at)
    BY Zenon
  <2>2. k \in 1..n /\ s[k].docId = d
    <3>1. at \in SUBSET Nat
      BY <1>3, <1>4, SMT
    <3>2. k \in at
      BY <1>6, <2>1, <3>1, MinIs, Zenon
    <3> QED
      BY <1>3, <1>4, <3>2, Zenon
  <2>3. PICK r : r = Shortened(s, k)
    BY Zenon
  <2>4. m.postings = r /\ m.df = n - 1
    <3>1. m = [postings |-> Shortened(s, k), df |-> Len(s) - 1]
      BY <1>1, <1>2, <1>4, <1>6, <2>1, Zenon DEF IsShrunk, WithoutDocument, Shortened
    <3> QED
      BY <1>3, <2>3, <3>1, Zenon
  <2>5. r \in Seq(Posting) /\ Len(r) = n - 1 /\ \A j \in 1..(n - 1) : r[j] = IF j < k THEN s[j] ELSE s[j + 1]
    BY <1>2, <1>3, <2>2, <2>3, ShortenedIs
  <2>6. PICK f : f = [j \in 1..(n - 1) |-> IF j < k THEN j ELSE j + 1]
    BY Zenon
  <2>7. \A j \in 1..(n - 1) : f[j] \in 1..n /\ f[j] # k
    BY <2>2, <2>6, SMT
  <2>8. \A i, j \in 1..(n - 1) : f[i] = f[j] => i = j
    BY <2>2, <2>6, SMT
  <2>9. \A i \in 1..n : i # k => \E j \in 1..(n - 1) : f[j] = i
    <3>1. \A i \in 1..n : i # k => LET j == IF i < k THEN i ELSE i - 1 IN j \in 1..(n - 1) /\ f[j] = i
      BY <2>2, <2>6, SMT
    <3> QED
      BY <3>1, Zenon
  <2>10. \A j \in 1..(n - 1) : r[j] = s[f[j]]
    BY <2>5, <2>6, Zenon
  <2>11. \A i, j \in 1..n : s[i].docId = s[j].docId => i = j
    BY <1>2, <1>3, Zenon DEF ArePostings
  <2>12. \A i \in 1..n : HasTerm(e, s[i].docId, term) /\ s[i].tf = TermCount(e, s[i].docId, term)
    BY <1>2, <1>3, Zenon DEF ArePostings
  <2>13. \A j \in 1..(n - 1) : HasTerm(g, r[j].docId, term) /\ r[j].tf = TermCount(g, r[j].docId, term)
    <3>1. \A j \in 1..(n - 1) : s[f[j]].docId # d
      BY <2>2, <2>7, <2>11, Zenon
    <3>2. \A i \in 1..n : s[i].docId # d => HasTerm(g, s[i].docId, term) /\ s[i].tf = TermCount(g, s[i].docId, term)
      BY <2>12, Zenon DEF OneLess
    <3> QED
      BY <2>7, <2>10, <3>1, <3>2, Zenon
  <2>14. \A i, j \in 1..(n - 1) : r[i].docId = r[j].docId => i = j
    <3>1. ASSUME NEW i \in 1..(n - 1), NEW j \in 1..(n - 1), r[i].docId = r[j].docId
          PROVE  i = j
      <4>1. s[f[i]].docId = s[f[j]].docId
        BY <2>10, <3>1, Zenon
      <4>2. f[i] = f[j]
        BY <2>7, <2>11, <4>1, Zenon
      <4> QED
        BY <2>8, <4>2, Zenon
    <3> QED
      BY <3>1, Zenon
  <2>15. \A c \in Documents : HasTerm(g, c, term) => \E j \in 1..(n - 1) : r[j].docId = c
    <3>1. ASSUME NEW c \in Documents, HasTerm(g, c, term)
          PROVE  \E j \in 1..(n - 1) : r[j].docId = c
      <4>1. c # d /\ HasTerm(e, c, term)
        BY <3>1, Zenon DEF OneLess
      <4>2. PICK i \in 1..n : s[i].docId = c
        BY <1>2, <1>3, <4>1, Zenon DEF ArePostings
      <4>3. i # k
        BY <2>2, <4>1, <4>2, Zenon
      <4>4. PICK j \in 1..(n - 1) : f[j] = i
        BY <2>9, <4>3, Zenon
      <4> QED
        BY <2>10, <4>2, <4>4, Zenon
    <3> QED
      BY <3>1, Zenon
  <2>16. ArePostings(r, g, term)
    BY <2>5, <2>13, <2>14, <2>15, Zenon DEF ArePostings
  <2> QED
    BY <2>4, <2>5, <2>16, Zenon
<1> QED
  BY <1>5, <1>6, Zenon

\* Without the text of a document, the others keep their terms.
LEMMA WithoutText ==
  ASSUME NEW e, AreTexts(e), NEW d
  PROVE  /\ AreTexts(Without(e, d)) /\ KnownDocs(Without(e, d)) = KnownDocs(e) \ {d}
         /\ \A term : OneLess(e, d, term, Without(e, d))
<1>1. PICK g : g = Without(e, d)
  BY Zenon
<1>2. DOMAIN g = DOMAIN e \ {d} /\ \A c \in DOMAIN g : g[c] = e[c]
  BY <1>1, Zenon DEF Without
<1>3. AreTexts(g)
  BY <1>2, Zenon DEF AreTexts
<1>4. KnownDocs(g) = KnownDocs(e) \ {d}
  <2>1. \A c : c \in KnownDocs(g) => c \in KnownDocs(e) /\ c # d
    BY <1>2, Zenon DEF KnownDocs
  <2>2. \A c : c \in KnownDocs(e) /\ c # d => c \in KnownDocs(g)
    BY <1>2, Zenon DEF KnownDocs
  <2> QED
    BY <2>1, <2>2, Zenon
<1>5. \A c \in KnownDocs(g) : g[c] = e[c]
  BY <1>2, Zenon DEF KnownDocs
<1>6. ASSUME NEW c, NEW term
      PROVE  HasTerm(g, c, term) <=> c # d /\ HasTerm(e, c, term)
  <2>1. c \in KnownDocs(g) <=> c # d /\ c \in KnownDocs(e)
    BY <1>4, Zenon
  <2> QED
    BY <1>5, <2>1, Zenon DEF HasTerm
<1>7. \A c, term : HasTerm(g, c, term) => TermCount(g, c, term) = TermCount(e, c, term)
  BY <1>5, Zenon DEF HasTerm, TermCount
<1>8. \A term : OneLess(e, d, term, g)
  BY <1>6, <1>7, Zenon DEF OneLess
<1> QED
  BY <1>1, <1>3, <1>4, <1>8, Zenon

\* remove
LEMMA TextRemoveKeeps ==
  ASSUME NEW x, NEW e, TextIs(x, e), NEW d \in Documents, NEW y, y = TextRemove(x, d)
  PROVE  TextIs(y, IF y.ok THEN Without(e, d) ELSE e)
<1>1. PICK g : g = Without(e, d)
  BY Zenon
<1>2. AreTexts(g) /\ KnownDocs(g) = KnownDocs(e) \ {d} /\ \A term : OneLess(e, d, term, g)
  BY <1>1, WithoutText, Zenon DEF TextIs
<1>3. CASE d \notin DOMAIN x.docLengths
  <2>1. y = [x EXCEPT !.ok = FALSE]
    BY <1>3, Zenon DEF TextRemove
  <2>2. TextIs(y, e) /\ y.ok = FALSE
    BY <2>1, OkKeeps, Zenon
  <2> QED
    BY <2>2, Zenon
<1>4. CASE d \in DOMAIN x.docLengths
  <2>1. PICK h : h = [term \in DOMAIN x.index |-> WithoutDocument(x.index[term], d)]
    BY Zenon
  <2>2. PICK index : index = [term \in {u \in DOMAIN h : h[u].postings # <<>>} |-> h[term]]
    BY Zenon
  <2>3. PICK f, n, b : f = Without(x.docLengths, d) /\ n = x.totalDocuments - 1 /\ b = TRUE
    BY Zenon
  <2>4. y = [index |-> index, docLengths |-> f, totalDocuments |-> n, ok |-> b]
    BY <1>4, <2>1, <2>2, <2>3, Zenon DEF TextRemove
  <2>5. y.docLengths = f /\ y.totalDocuments = n /\ y.ok = b /\ y.index = index /\ IsText(y)
    BY <2>4, TextRecord
  <2>6. DOMAIN f = KnownDocs(g)
    <3>1. DOMAIN f = DOMAIN x.docLengths \ {d}
      BY <2>3, Zenon DEF Without
    <3> QED
      BY <1>2, <3>1, Zenon DEF TextIs
  <2>7. IsFiniteSet(KnownDocs(g)) /\ n = Cardinality(KnownDocs(g))
    <3>1. PICK K : K = KnownDocs(e)
      BY Zenon
    <3>2. IsFiniteSet(K) /\ d \in K /\ x.totalDocuments = Cardinality(K)
      BY <1>4, <3>1, Zenon DEF TextIs
    <3>3. IsFiniteSet(K \ {d}) /\ Cardinality(K \ {d}) = Cardinality(K) - 1
      BY <3>2, FS_RemoveElement, Zenon
    <3> QED
      BY <1>2, <2>3, <3>1, <3>2, <3>3, Zenon
  <2>8. ASSUME NEW term \in DOMAIN x.index
        PROVE  ArePostings(h[term].postings, g, term) /\ h[term].df = Len(h[term].postings)
    <3>1. IsShrunk(x.index[term], d, h[term]) /\ IsListOf(x.index[term], e, term)
      BY <2>1, <2>8, Zenon DEF IsShrunk, TextIs
    <3> QED
      BY <1>2, <3>1, ListShrinks
  <2>9. ASSUME NEW term \in DOMAIN index
        PROVE  IsListOf(index[term], g, term)
    <3>1. term \in DOMAIN x.index /\ index[term] = h[term] /\ h[term].postings # <<>>
      BY <2>1, <2>2, <2>9, Zenon
    <3>2. PICK l : l = h[term]
      BY Zenon
    <3>3. ArePostings(l.postings, g, term) /\ l.df = Len(l.postings) /\ l.postings # <<>>
      BY <2>8, <3>1, <3>2, Zenon
    <3>4. IsListOf(l, g, term)
      BY <3>3, Zenon DEF IsListOf, ArePostings
    <3> QED
      BY <3>1, <3>2, <3>4, Zenon
  <2>10. ASSUME NEW c \in Documents, NEW term, HasTerm(g, c, term)
         PROVE  term \in DOMAIN index
    <3>1. HasTerm(e, c, term)
      BY <1>2, <2>10, Zenon DEF OneLess
    <3>2. term \in DOMAIN x.index
      BY <3>1, Zenon DEF TextIs
    <3>3. PICK i \in 1..Len(h[term].postings) : h[term].postings[i].docId = c
      <4>1. ArePostings(h[term].postings, g, term)
        BY <2>8, <3>2, Zenon
      <4> QED
        BY <2>10, <4>1, Zenon DEF ArePostings
    <3>4. h[term].postings # <<>>
      BY <3>3, SMT
    <3> QED
      BY <2>1, <2>2, <3>2, <3>4, Zenon
  <2>11. TextIs(y, g)
    BY <1>2, <2>5, <2>6, <2>7, <2>9, <2>10, Zenon DEF TextIs
  <2> QED
    BY <1>1, <2>3, <2>5, <2>11, Zenon
<1> QED
  BY <1>3, <1>4, Zenon

\* The documents in the posting list of a term are those that have it,
LEMMA HitsAre ==
  ASSUME NEW x, NEW e, TextIs(x, e), NEW term
  PROVE  Hits(x, term) = {d \in Documents : HasTerm(e, d, term)}
<1>1. CASE term \in DOMAIN x.index
  <2>1. PICK s : s = x.index[term].postings
    BY Zenon
  <2>2. IsListOf(x.index[term], e, term)
    BY <1>1, Zenon DEF TextIs
  <2>3. s \in Seq(Posting) /\ DOMAIN s = 1..Len(s) /\ \A i \in 1..Len(s) : s[i] \in Posting
    <3>1. s \in Seq(Posting)
      BY <2>1, <2>2, Zenon DEF IsListOf
    <3> QED
      BY <3>1, SMT
  <2>4. Hits(x, term) = {s[i].docId : i \in 1..Len(s)}
    <3>1. Postings(x, term) = s
      BY <1>1, <2>1, Zenon DEF Postings
    <3>2. Range(s) = {s[i] : i \in 1..Len(s)}
      BY <2>3, Zenon DEF Range
    <3>3. Hits(x, term) = {p.docId : p \in Range(s)}
      BY <3>1, Zenon DEF Hits
    <3> QED
      BY <3>2, <3>3, Zenon
  <2>5. \A i \in 1..Len(s) : s[i].docId \in Documents /\ HasTerm(e, s[i].docId, term)
    <3>1. \A p \in Posting : p.docId \in Documents
      BY Zenon DEF Posting
    <3> QED
      BY <2>1, <2>2, <2>3, <3>1, Zenon DEF IsListOf
  <2>6. \A d \in Documents : HasTerm(e, d, term) => \E i \in 1..Len(s) : s[i].docId = d
    BY <2>1, <2>2, Zenon DEF IsListOf
  <2> QED
    BY <2>4, <2>5, <2>6, Zenon
<1>2. CASE term \notin DOMAIN x.index
  <2>1. Postings(x, term) = <<>>
    BY <1>2, Zenon DEF Postings
  <2>2. Range(<<>>) = {}
    BY SMT DEF Range
  <2>3. Hits(x, term) = {}
    BY <2>1, <2>2, Zenon DEF Hits
  <2>4. \A d \in Documents : ~HasTerm(e, d, term)
    BY <1>2, Zenon DEF TextIs
  <2> QED
    BY <2>3, <2>4, Zenon
<1> QED
  BY <1>1, <1>2, Zenon

\* f maps S to T one to one.
IsOneToOne(f, S, T) ==
  /\ f \in [S -> T]
  /\ \A a, b \in S : f[a] = f[b] => a = b
  /\ \A t \in T : \E s \in S : f[s] = t

\* Two sets with such a map have the same size.
LEMMA SameSize ==
  ASSUME NEW S, IsFiniteSet(S), NEW T, NEW f, IsOneToOne(f, S, T)
  PROVE  IsFiniteSet(T) /\ Cardinality(T) = Cardinality(S)
<1>1. f \in Injection(S, T) /\ f \in Surjection(S, T)
  BY Zenon DEF IsOneToOne, Injection, Surjection, IsInjective
<1>2. ExistsBijection(S, T)
  BY <1>1, Zenon DEF ExistsBijection, Bijection
<1> QED
  BY <1>2, FS_Bijection, Zenon

\* as many documents have a term as its posting list says,
LEMMA FrequencyIs ==
  ASSUME NEW x, NEW e, TextIs(x, e), NEW term \in DOMAIN x.index,
         NEW T, T = {d \in Documents : HasTerm(e, d, term)}
  PROVE  DocumentFrequency(x, term) = Cardinality(T)
<1>1. PICK l : l = x.index[term]
  BY Zenon
<1>2. IsListOf(l, e, term)
  BY <1>1, Zenon DEF TextIs
<1>3. PICK s : s = l.postings
  BY Zenon
<1>4. PICK n \in Nat : n = Len(s) /\ \A i \in 1..n : s[i] \in Posting
  <2>1. s \in Seq(Posting)
    BY <1>2, <1>3, Zenon DEF IsListOf
  <2> QED
    BY <2>1, SMT
<1>5. PICK f : f = [i \in 1..n |-> s[i].docId]
  BY Zenon
<1>6. \A i \in 1..n : s[i].docId \in Documents /\ HasTerm(e, s[i].docId, term)
  BY <1>2, <1>3, <1>4, Zenon DEF IsListOf, Posting
<1>7. \A i, j \in 1..n : s[i].docId = s[j].docId => i = j
  BY <1>2, <1>3, <1>4, Zenon DEF IsListOf
<1>8. \A d \in Documents : HasTerm(e, d, term) => \E i \in 1..n : s[i].docId = d
  BY <1>2, <1>3, <1>4, Zenon DEF IsListOf
<1>9. IsOneToOne(f, 1..n, T)
  BY <1>5, <1>6, <1>7, <1>8, Zenon DEF IsOneToOne
<1>10. IsFiniteSet(1..n) /\ Cardinality(1..n) = n
  BY FS_Interval, SMT
<1>11. Cardinality(T) = n
  BY <1>9, <1>10, SameSize, Zenon
<1>12. l.df = n
  BY <1>2, <1>3, <1>4, Zenon DEF IsListOf
<1> QED
  BY <1>1, <1>11, <1>12, Zenon DEF DocumentFrequency

\* and its posting list has how often it occurs in each.
LEMMA TermsAre ==
  ASSUME NEW x, NEW e, TextIs(x, e), NEW d \in KnownDocs(e)
  PROVE  DocumentTerms(x, d) =
           [term \in Range(tokenizeWithDuplicates(e[d])) |-> Occurrences(term, tokenizeWithDuplicates(e[d]))]
<1>1. PICK T : T = Range(tokenizeWithDuplicates(e[d]))
  BY Zenon
<1>2. d \in Documents
  BY Zenon DEF TextIs, AreTexts, KnownDocs
<1>3. \A term : term \in T <=> HasTerm(e, d, term)
  BY <1>1, Zenon DEF HasTerm
<1>4. {term \in DOMAIN x.index : d \in Hits(x, term)} = T
  <2>1. \A term : d \in Hits(x, term) <=> HasTerm(e, d, term)
    BY <1>2, HitsAre, Zenon
  <2>2. \A term : HasTerm(e, d, term) => term \in DOMAIN x.index
    BY <1>2, Zenon DEF TextIs
  <2> QED
    BY <1>3, <2>1, <2>2, Zenon
<1>5. ASSUME NEW term \in T
      PROVE  LET l == x.index[term].postings
             IN  l[Min({i \in DOMAIN l : l[i].docId = d})].tf = TermCount(e, d, term)
  <2>1. PICK s : s = x.index[term].postings
    BY Zenon
  <2>2. HasTerm(e, d, term) /\ IsListOf(x.index[term], e, term)
    BY <1>2, <1>3, <1>5, Zenon DEF TextIs
  <2>3. PICK n \in Nat : n = Len(s) /\ DOMAIN s = 1..n
    <3>1. s \in Seq(Posting)
      BY <2>1, <2>2, Zenon DEF IsListOf
    <3> QED
      BY <3>1, SMT
  <2>4. PICK at : at = {i \in DOMAIN s : s[i].docId = d}
    BY Zenon
  <2>5. at # {}
    BY <1>2, <2>1, <2>2, <2>3, <2>4, Zenon DEF IsListOf
  <2>6. at \in SUBSET Nat
    BY <2>3, <2>4, SMT
  <2>7. PICK k : k = Min(at)
    BY Zenon
  <2>8. k \in at
    BY <2>5, <2>6, <2>7, MinIs, Zenon
  <2>9. k \in 1..n /\ s[k].docId = d
    BY <2>3, <2>4, <2>8, Zenon
  <2>10. s[k].tf = TermCount(e, d, term)
    BY <2>1, <2>2, <2>3, <2>9, Zenon DEF IsListOf
  <2> QED
    BY <2>1, <2>4, <2>7, <2>10, Zenon
<1>6. DocumentTerms(x, d) = [term \in T |-> TermCount(e, d, term)]
  BY <1>4, <1>5, Zenon DEF DocumentTerms
<1> QED
  BY <1>1, <1>6, Zenon DEF TermCount
\* A document has a term if the term is a token of its text.
LEMMA TokenIsTerm ==
  ASSUME NEW e, NEW d, NEW term
  PROVE  HasTerm(e, d, term) <=> d \in DOMAIN e /\ term \in tokenize(e[d])
<1>1. Range(<<>>) = {}
  BY SMT DEF Range
<1> QED
  BY <1>1, Zenon DEF HasTerm, KnownDocs, tokenize

\* searchOr and searchAnd.
LEMMA OrFinds ==
  ASSUME NEW x, NEW e, TextIs(x, e), NEW terms, NEW d
  PROVE  d \in SearchOr(x, terms) <=> d \in Documents /\ \E term \in terms : HasTerm(e, d, term)
<1>1. \A term : Hits(x, term) = {c \in Documents : HasTerm(e, c, term)}
  BY HitsAre, Zenon
<1>2. d \in SearchOr(x, terms) <=> \E term \in terms : d \in Hits(x, term)
  BY Zenon DEF SearchOr
<1> QED
  BY <1>1, <1>2, Zenon

\* and MATCH ... AND those that have all of them.
LEMMA AndFinds ==
  ASSUME NEW x, NEW e, TextIs(x, e), NEW terms, terms # {}, NEW d
  PROVE  d \in SearchAnd(x, terms) <=> d \in Documents /\ \A term \in terms : HasTerm(e, d, term)
<1>1. \A term : Hits(x, term) = {c \in Documents : HasTerm(e, c, term)}
  BY HitsAre, Zenon
<1>2. d \in SearchOr(x, terms) <=> d \in Documents /\ \E term \in terms : HasTerm(e, d, term)
  BY OrFinds
<1>3. CASE \E term \in terms : term \notin DOMAIN x.index
  <2>1. SearchAnd(x, terms) = {}
    BY <1>3, Zenon DEF SearchAnd
  <2>2. d \in Documents => \E term \in terms : ~HasTerm(e, d, term)
    BY <1>3, Zenon DEF TextIs
  <2> QED
    BY <2>1, <2>2, Zenon
<1>4. CASE ~\E term \in terms : term \notin DOMAIN x.index
  <2>1. SearchAnd(x, terms) = {c \in SearchOr(x, terms) : \A term \in terms : c \in Hits(x, term)}
    BY <1>4, Zenon DEF SearchAnd
  <2>2. d \in SearchAnd(x, terms) <=>
          /\ d \in Documents /\ \E term \in terms : HasTerm(e, d, term)
          /\ \A term \in terms : d \in Documents /\ HasTerm(e, d, term)
    BY <1>1, <1>2, <2>1, Zenon
  <2> QED
    BY <2>2, Zenon
<1> QED
  BY <1>3, <1>4, Zenon

\* The invariant of the full-text index.
TextInv == kind = "fulltext" => TextIs(text, expected) /\ updating \in [Threads -> {<<>>} \cup Documents \X Texts]

\* What is said of the posting lists follows from the invariant,
LEMMA PostingsFollow == TextInv => PostingsMatchTexts
<1> SUFFICES ASSUME TextInv, kind = "fulltext" PROVE PostingsMatchTexts
  BY Zenon DEF PostingsMatchTexts
<1>1. PICK x, e : x = text /\ e = expected
  BY Zenon
<1>2. TextIs(x, e)
  BY <1>1, Zenon DEF TextInv
<1>3. DOMAIN x.docLengths = KnownDocs(e) /\ x.totalDocuments = Cardinality(KnownDocs(e))
  BY <1>2, Zenon DEF TextIs
<1>4. ASSUME NEW d \in KnownDocs(e)
      PROVE  DocumentTerms(x, d) =
               [term \in Range(tokenizeWithDuplicates(e[d])) |-> Occurrences(term, tokenizeWithDuplicates(e[d]))]
  BY <1>2, <1>4, TermsAre
<1>5. ASSUME NEW term \in DOMAIN x.index
      PROVE  DocumentFrequency(x, term) =
               Cardinality({d \in KnownDocs(e) : term \in Range(tokenizeWithDuplicates(e[d]))})
  <2>1. PICK T : T = {d \in Documents : HasTerm(e, d, term)}
    BY Zenon
  <2>2. DocumentFrequency(x, term) = Cardinality(T)
    BY <1>2, <1>5, <2>1, FrequencyIs
  <2>3. KnownDocs(e) \subseteq Documents
    BY <1>2, Zenon DEF TextIs, AreTexts, KnownDocs
  <2>4. T = {d \in KnownDocs(e) : term \in Range(tokenizeWithDuplicates(e[d]))}
    BY <2>1, <2>3, Zenon DEF HasTerm
  <2> QED
    BY <2>2, <2>4, Zenon
<1>6. KnownDocs(e) = {d \in DOMAIN expected : tokenizeWithDuplicates(expected[d]) # <<>>}
  BY <1>1, Zenon DEF KnownDocs
<1>7. /\ DOMAIN text.docLengths = KnownDocs(expected)
      /\ text.totalDocuments = Cardinality(KnownDocs(expected))
      /\ \A d \in KnownDocs(expected) : DocumentTerms(text, d) =
           [term \in Range(tokenizeWithDuplicates(expected[d])) |->
              Occurrences(term, tokenizeWithDuplicates(expected[d]))]
      /\ \A term \in DOMAIN text.index : DocumentFrequency(text, term) =
           Cardinality({d \in KnownDocs(expected) : term \in Range(tokenizeWithDuplicates(expected[d]))})
  BY <1>1, <1>3, <1>4, <1>5
<1> QED
  BY <1>7, Zenon DEF PostingsMatchTexts, KnownDocs

\* and what is said of the searches.
LEMMA SearchesFollow == TextInv => SearchesAgree
<1> SUFFICES ASSUME TextInv, kind = "fulltext" PROVE SearchesAgree
  BY Zenon DEF SearchesAgree
<1>1. PICK x, e : x = text /\ e = expected
  BY Zenon
<1>2. TextIs(x, e)
  BY <1>1, Zenon DEF TextInv
<1>3. ASSUME NEW terms
      PROVE  /\ SearchOr(x, terms) =
                  {d \in Documents : \E term \in terms : d \in DOMAIN e /\ term \in tokenize(e[d])}
             /\ terms # {} => SearchAnd(x, terms) =
                  {d \in Documents : \A term \in terms : d \in DOMAIN e /\ term \in tokenize(e[d])}
  <2>1. \A d, term : HasTerm(e, d, term) <=> d \in DOMAIN e /\ term \in tokenize(e[d])
    BY TokenIsTerm, Zenon
  <2>2. \A d : d \in SearchOr(x, terms) <=> d \in Documents /\ \E term \in terms : HasTerm(e, d, term)
    BY <1>2, OrFinds
  <2>3. terms # {} => \A d : d \in SearchAnd(x, terms) <=>
                              d \in Documents /\ \A term \in terms : HasTerm(e, d, term)
    BY <1>2, AndFinds
  <2>4. \A d : d \in SearchOr(x, terms) <=>
          d \in Documents /\ \E term \in terms : d \in DOMAIN e /\ term \in tokenize(e[d])
    BY <2>1, <2>2, Zenon
  <2>5. terms # {} => \A d : d \in SearchAnd(x, terms) <=>
          d \in Documents /\ \A term \in terms : d \in DOMAIN e /\ term \in tokenize(e[d])
    BY <2>1, <2>3, Zenon
  <2> QED
    BY <2>4, <2>5
<1>4. ASSUME NEW q \in Texts
      PROVE  /\ SearchOr(text, tokenize(q)) = {d \in Documents : \E term \in tokenize(q) :
                  d \in DOMAIN expected /\ term \in tokenize(expected[d])}
             /\ tokenize(q) # {} => SearchAnd(text, tokenize(q)) =
                  {d \in Documents : \A term \in tokenize(q) :
                     d \in DOMAIN expected /\ term \in tokenize(expected[d])}
  BY <1>1, <1>3
<1> QED
  BY <1>4, Zenon DEF SearchesAgree

-----------------------------------------------------------------------------
\* The hash index.

\* What an entry can be: a key as it is written, and a row id.
WrittenKeys == UNION {{Written(type, k) : k \in HashKeys[type]} : type \in DOMAIN HashKeys}

Entries == WrittenKeys \X RowIds

\* The entry x is in the chain c at a place, and all the places it is at.
IsAt(c, i, j, x) == i \in DOMAIN c /\ j \in DOMAIN c[i] /\ c[i][j] = x

Spots(c, x) == {p \in UNION {{i} \X DOMAIN c[i] : i \in DOMAIN c} : EntryAt(c, p) = x}

\* An entry is exactly at its spots.
LEMMA SpotIs ==
  ASSUME NEW c, NEW x, NEW p
  PROVE  p \in Spots(c, x) <=> \E i, j : p = <<i, j>> /\ IsAt(c, i, j, x)
<1>1. ASSUME p \in Spots(c, x)
      PROVE  \E i, j : p = <<i, j>> /\ IsAt(c, i, j, x)
  <2>1. PICK i \in DOMAIN c : p \in {i} \X DOMAIN c[i] /\ EntryAt(c, p) = x
    BY <1>1, Zenon DEF Spots
  <2>2. p = <<i, p[2]>> /\ p[1] = i /\ p[2] \in DOMAIN c[i]
    BY <2>1, SMT
  <2> QED
    BY <2>1, <2>2, Zenon DEF IsAt, EntryAt
<1>2. ASSUME NEW i, NEW j, p = <<i, j>>, IsAt(c, i, j, x)
      PROVE  p \in Spots(c, x)
  <2>1. p \in {i} \X DOMAIN c[i] /\ p[1] = i /\ p[2] = j
    BY <1>2, SMT DEF IsAt
  <2> QED
    BY <1>2, <2>1, Zenon DEF IsAt, Spots, EntryAt
<1> QED
  BY <1>1, <1>2, Zenon

\* An entry is put where there is none.
Gains(c, m, n, x, f) ==
  /\ \A z : ~IsAt(c, m, n, z)
  /\ \A i, j, z : IsAt(f, i, j, z) <=> IsAt(c, i, j, z) \/ (i = m /\ j = n /\ z = x)

\* The spots of every other entry stay,
LEMMA SpotsStay ==
  ASSUME NEW c, NEW m, NEW n, NEW x, NEW f, Gains(c, m, n, x, f), NEW y, y # x
  PROVE  Spots(f, y) = Spots(c, y)
<1>1. \A i, j : IsAt(f, i, j, y) <=> IsAt(c, i, j, y)
  BY SMT DEF Gains
<1>2. ASSUME NEW p
      PROVE  p \in Spots(f, y) <=> p \in Spots(c, y)
  <2>1. p \in Spots(f, y) <=> \E i, j : p = <<i, j>> /\ IsAt(f, i, j, y)
    BY SpotIs
  <2>2. p \in Spots(c, y) <=> \E i, j : p = <<i, j>> /\ IsAt(c, i, j, y)
    BY SpotIs
  <2> QED
    BY <1>1, <2>1, <2>2, Zenon
<1> QED
  BY <1>2, Zenon

\* and the entry has one spot more.
LEMMA SpotsGrow ==
  ASSUME NEW c, NEW m, NEW n, NEW x, NEW f, Gains(c, m, n, x, f)
  PROVE  Spots(f, x) = Spots(c, x) \cup {<<m, n>>} /\ <<m, n>> \notin Spots(c, x)
<1>1. \A i, j : IsAt(f, i, j, x) <=> IsAt(c, i, j, x) \/ (i = m /\ j = n)
  BY SMT DEF Gains
<1>2. ASSUME NEW p
      PROVE  p \in Spots(f, x) <=> p \in Spots(c, x) \/ p = <<m, n>>
  <2>1. p \in Spots(f, x) <=> \E i, j : p = <<i, j>> /\ IsAt(f, i, j, x)
    BY SpotIs
  <2>2. p \in Spots(c, x) <=> \E i, j : p = <<i, j>> /\ IsAt(c, i, j, x)
    BY SpotIs
  <2> QED
    BY <1>1, <2>1, <2>2
<1>3. <<m, n>> \notin Spots(c, x)
  <2>1. \A i, j : <<m, n>> = <<i, j>> => i = m /\ j = n
    BY SMT
  <2>2. ~IsAt(c, m, n, x)
    BY Zenon DEF Gains
  <2>3. <<m, n>> \in Spots(c, x) => \E i, j : <<m, n>> = <<i, j>> /\ IsAt(c, i, j, x)
    BY SpotIs
  <2> QED
    BY <2>1, <2>2, <2>3, Zenon
<1> QED
  BY <1>2, <1>3, Zenon

\* An entry behind the last one of a page,
LEMMA AppendGains ==
  ASSUME NEW c, NEW m \in DOMAIN c, c = [i \in DOMAIN c |-> c[i]], NEW S, c[m] \in Seq(S),
         NEW x \in S, NEW f, f = [c EXCEPT ![m] = Append(c[m], x)]
  PROVE  Gains(c, m, Len(c[m]) + 1, x, f)
<1>1. PICK s : s = c[m]
  BY Zenon
<1>2. PICK n \in Nat : n = Len(s) /\ DOMAIN s = 1..n
  BY <1>1, SMT
<1>3. PICK r : r = Append(s, x)
  BY Zenon
<1>4. DOMAIN r = DOMAIN s \cup {n + 1} /\ r[n + 1] = x /\ n + 1 \notin DOMAIN s /\ \A j \in DOMAIN s : r[j] = s[j]
  BY <1>1, <1>2, <1>3, SMT
<1>5. DOMAIN f = DOMAIN c /\ f[m] = r /\ \A i \in DOMAIN c : i # m => f[i] = c[i]
  BY <1>1, <1>3, Zenon
<1>6. \A i, j, y : i # m => (IsAt(f, i, j, y) <=> IsAt(c, i, j, y))
  BY <1>5, Zenon DEF IsAt
<1>7. \A j, y : IsAt(f, m, j, y) <=> IsAt(c, m, j, y) \/ (j = n + 1 /\ y = x)
  BY <1>1, <1>4, <1>5, Zenon DEF IsAt
<1>8. \A y : ~IsAt(c, m, n + 1, y)
  BY <1>1, <1>4, Zenon DEF IsAt
<1> QED
  BY <1>1, <1>2, <1>6, <1>7, <1>8, Zenon DEF Gains

\* and one on a new page.
LEMMA NewPageGains ==
  ASSUME NEW S, NEW c \in Seq(S), NEW x, <<x>> \in S, NEW f, f = Append(c, <<x>>)
  PROVE  Gains(c, Len(c) + 1, 1, x, f)
<1>1. PICK n \in Nat : n = Len(c) /\ DOMAIN c = 1..n
  BY SMT
<1>2. PICK r : r = <<x>>
  BY Zenon
<1>3. DOMAIN r = {1} /\ r[1] = x
  BY <1>2, SMT
<1>4. DOMAIN f = DOMAIN c \cup {n + 1} /\ f[n + 1] = r /\ n + 1 \notin DOMAIN c /\ \A i \in DOMAIN c : f[i] = c[i]
  BY <1>1, <1>2, SMT
<1>5. \A i, j, y : IsAt(f, i, j, y) <=> IsAt(c, i, j, y) \/ (i = n + 1 /\ j = 1 /\ y = x)
  BY <1>3, <1>4, Zenon DEF IsAt
<1>6. \A y : ~IsAt(c, n + 1, 1, y)
  BY <1>4, Zenon DEF IsAt
<1>7. Gains(c, n + 1, 1, x, f)
  BY <1>5, <1>6, Zenon DEF Gains
<1> QED
  BY <1>1, <1>7
\* Where an entry of a chain is once the entry at <<m, n>> has gone.
MovedUp(m, n, i, j) == IF i = m /\ j > n THEN j - 1 ELSE j

\* Two entries of a page do not move to the same place.
LEMMA MovesApart ==
  ASSUME NEW m, NEW n \in Nat, NEW i, NEW j \in Nat, NEW k \in Nat,
         ~(i = m /\ j = n), ~(i = m /\ k = n), MovedUp(m, n, i, j) = MovedUp(m, n, i, k)
  PROVE  j = k
BY SMT DEF MovedUp

Loses(c, m, n, f) ==
  /\ \A i, j, z : IsAt(c, i, j, z) /\ ~(i = m /\ j = n) => j \in Nat /\ IsAt(f, i, MovedUp(m, n, i, j), z)
  /\ \A i, j, z : IsAt(f, i, j, z) =>
       \E k \in Nat : IsAt(c, i, k, z) /\ ~(i = m /\ k = n) /\ MovedUp(m, n, i, k) = j

\* The spots of an entry are then as many as they were, not counting <<m, n>>.
LEMMA SpotsShrink ==
  ASSUME NEW c, NEW m, NEW n \in Nat, NEW f, Loses(c, m, n, f), NEW y, IsFiniteSet(Spots(c, y))
  PROVE  /\ IsFiniteSet(Spots(f, y))
         /\ Cardinality(Spots(f, y)) = Cardinality(Spots(c, y) \ {<<m, n>>})
<1>1. PICK S : S = Spots(c, y) \ {<<m, n>>}
  BY Zenon
<1>2. PICK T : T = Spots(f, y)
  BY Zenon
<1>3. \A p : p \in S => \E i, j : p = <<i, j>> /\ IsAt(c, i, j, y) /\ ~(i = m /\ j = n)
  <2> SUFFICES ASSUME NEW p \in S
               PROVE  \E i, j : p = <<i, j>> /\ IsAt(c, i, j, y) /\ ~(i = m /\ j = n)
    BY Zenon
  <2>1. p \in Spots(c, y) /\ p # <<m, n>>
    BY <1>1, Zenon
  <2>2. PICK i, j : p = <<i, j>> /\ IsAt(c, i, j, y)
    BY <2>1, SpotIs
  <2> QED
    BY <2>1, <2>2, Zenon
<1>4. \A i, j : IsAt(c, i, j, y) /\ ~(i = m /\ j = n) => <<i, j>> \in S
  <2> SUFFICES ASSUME NEW i, NEW j, IsAt(c, i, j, y), ~(i = m /\ j = n) PROVE <<i, j>> \in S
    BY Zenon
  <2>1. <<i, j>> \in Spots(c, y)
    BY SpotIs
  <2>2. <<i, j>> # <<m, n>>
    BY SMT
  <2> QED
    BY <1>1, <2>1, <2>2, Zenon
<1>5. PICK g : g = [p \in S |-> <<p[1], MovedUp(m, n, p[1], p[2])>>]
  BY Zenon
<1>6. ASSUME NEW i, NEW j, <<i, j>> \in S
      PROVE  /\ g[<<i, j>>] = <<i, MovedUp(m, n, i, j)>> /\ j \in Nat /\ ~(i = m /\ j = n)
             /\ g[<<i, j>>] \in T
  <2>1. \A h, k : <<i, j>> = <<h, k>> => h = i /\ k = j
    BY SMT
  <2>2. IsAt(c, i, j, y) /\ ~(i = m /\ j = n)
    BY <1>3, <1>6, <2>1, Zenon
  <2>3. <<i, j>>[1] = i /\ <<i, j>>[2] = j
    BY SMT
  <2>4. g[<<i, j>>] = <<i, MovedUp(m, n, i, j)>>
    BY <1>5, <1>6, <2>3, Zenon
  <2>5. j \in Nat /\ IsAt(f, i, MovedUp(m, n, i, j), y)
    BY <2>2, Zenon DEF Loses
  <2>6. <<i, MovedUp(m, n, i, j)>> \in T
    BY <1>2, <2>5, SpotIs
  <2> QED
    BY <2>2, <2>4, <2>5, <2>6, Zenon
<1>7. g \in [S -> T]
  <2>1. \A p \in S : g[p] \in T
    <3> SUFFICES ASSUME NEW p \in S PROVE g[p] \in T
      BY Zenon
    <3>1. PICK i, j : p = <<i, j>>
      BY <1>3, Zenon
    <3>2. g[<<i, j>>] \in T
      BY <1>6, <3>1, Zenon
    <3> QED
      BY <3>1, <3>2, Zenon
  <2> QED
    BY <1>5, <2>1
<1>8. ASSUME NEW a \in S, NEW b \in S, g[a] = g[b]
      PROVE  a = b
  <2>1. PICK i, j : a = <<i, j>>
    BY <1>3, <1>8, Zenon
  <2>2. PICK h, k : b = <<h, k>>
    BY <1>3, <1>8, Zenon
  <2>3. g[a] = <<i, MovedUp(m, n, i, j)>> /\ j \in Nat /\ ~(i = m /\ j = n)
    BY <1>6, <1>8, <2>1, Zenon
  <2>4. g[b] = <<h, MovedUp(m, n, h, k)>> /\ k \in Nat /\ ~(h = m /\ k = n)
    BY <1>6, <1>8, <2>2, Zenon
  <2>5. i = h /\ MovedUp(m, n, i, j) = MovedUp(m, n, h, k)
    <3>1. PICK u, v : u = MovedUp(m, n, i, j) /\ v = MovedUp(m, n, h, k)
      BY Zenon
    <3>2. <<i, u>> = <<h, v>>
      BY <1>8, <2>3, <2>4, <3>1, Zenon
    <3>3. i = h /\ u = v
      BY <3>2, SMT
    <3> QED
      BY <3>1, <3>3, Zenon
  <2>6. j = k
    BY <2>3, <2>4, <2>5, MovesApart
  <2> QED
    BY <2>1, <2>2, <2>5, <2>6, Zenon
<1>9. ASSUME NEW t \in T
      PROVE  \E s \in S : g[s] = t
  <2>1. PICK i, j : t = <<i, j>> /\ IsAt(f, i, j, y)
    BY <1>2, <1>9, SpotIs
  <2>2. PICK k \in Nat : IsAt(c, i, k, y) /\ ~(i = m /\ k = n) /\ MovedUp(m, n, i, k) = j
    BY <2>1, Zenon DEF Loses
  <2>3. <<i, k>> \in S
    BY <1>4, <2>2, Zenon
  <2> QED
    BY <1>6, <2>1, <2>2, <2>3, Zenon
<1>10. IsOneToOne(g, S, T)
  BY <1>7, <1>8, <1>9, Zenon DEF IsOneToOne
<1>11. IsFiniteSet(S)
  BY <1>1, FS_Subset, Zenon
<1> QED
  BY <1>1, <1>2, <1>10, <1>11, SameSize

\* Taking an entry off a page is such a loss.
LEMMA RemoveLoses ==
  ASSUME NEW c, NEW m \in DOMAIN c, c = [i \in DOMAIN c |-> c[i]], NEW S,
         \A i \in DOMAIN c : c[i] \in Seq(S), NEW n \in DOMAIN c[m],
         NEW f, f = [c EXCEPT ![m] = Shortened(c[m], n)]
  PROVE  Loses(c, m, n, f) /\ n \in Nat /\ f[m] \in Seq(S)
<1>1. PICK s : s = c[m]
  BY Zenon
<1>2. s \in Seq(S)
  BY <1>1, Zenon
<1>3. PICK w \in Nat : w = Len(s) /\ DOMAIN s = 1..w /\ n \in 1..w
  BY <1>1, <1>2, SMT
<1>4. PICK r : r = Shortened(s, n)
  BY Zenon
<1>5. /\ r \in Seq(S) /\ Len(r) = w - 1
      /\ \A j \in 1..(w - 1) : r[j] = IF j < n THEN s[j] ELSE s[j + 1]
  BY <1>2, <1>3, <1>4, ShortenedIs
<1>6. DOMAIN r = 1..(w - 1)
  BY <1>5, SMT
<1>7. DOMAIN f = DOMAIN c /\ f[m] = r /\ \A i \in DOMAIN c : i # m => f[i] = c[i]
  BY <1>1, <1>4, Zenon
<1>8. ASSUME NEW j \in DOMAIN s, j # n
      PROVE  /\ j \in Nat /\ MovedUp(m, n, m, j) \in DOMAIN r
             /\ r[MovedUp(m, n, m, j)] = s[j]
  <2>1. j \in 1..w /\ j \in Nat /\ n \in Nat
    BY <1>3, <1>8, SMT
  <2>2. PICK k : k = MovedUp(m, n, m, j)
    BY Zenon
  <2>3. k \in 1..(w - 1) /\ (IF k < n THEN k ELSE k + 1) = j
    BY <1>3, <1>8, <2>1, <2>2, SMT DEF MovedUp
  <2>4. r[k] = s[IF k < n THEN k ELSE k + 1]
    BY <1>5, <2>3, Zenon
  <2> QED
    BY <1>6, <2>1, <2>2, <2>3, <2>4, Zenon
<1>9. ASSUME NEW j \in DOMAIN r
      PROVE  \E k \in Nat : k \in DOMAIN s /\ k # n /\ MovedUp(m, n, m, k) = j /\ s[k] = r[j]
  <2>1. PICK k : k = IF j < n THEN j ELSE j + 1
    BY Zenon
  <2>2. k \in Nat /\ k \in DOMAIN s /\ k # n /\ MovedUp(m, n, m, k) = j /\ s[k] = r[j]
    BY <1>3, <1>5, <1>6, <1>9, <2>1, SMT DEF MovedUp
  <2> QED
    BY <2>2, Zenon
<1>10. \A i, j : i # m => MovedUp(m, n, i, j) = j
  BY Zenon DEF MovedUp
<1>11. ASSUME NEW i \in DOMAIN c, NEW j \in DOMAIN c[i]
       PROVE  j \in Nat
  <2>1. PICK q : q = c[i] /\ q \in Seq(S)
    BY <1>11, Zenon
  <2> QED
    BY <1>11, <2>1, SMT
<1>12. ASSUME NEW i, NEW j, NEW z, IsAt(c, i, j, z), ~(i = m /\ j = n)
       PROVE  j \in Nat /\ IsAt(f, i, MovedUp(m, n, i, j), z)
  <2>1. CASE i = m
    <3>1. j \in DOMAIN s /\ j # n /\ s[j] = z
      BY <1>1, <1>12, <2>1, Zenon DEF IsAt
    <3>2. PICK k : k = MovedUp(m, n, m, j)
      BY Zenon
    <3>3. j \in Nat /\ k \in DOMAIN r /\ r[k] = z
      BY <1>8, <3>1, <3>2, Zenon
    <3> QED
      BY <1>7, <2>1, <3>2, <3>3, Zenon DEF IsAt
  <2>2. CASE i # m
    <3>1. i \in DOMAIN c /\ j \in DOMAIN c[i] /\ c[i][j] = z
      BY <1>12, Zenon DEF IsAt
    <3>2. IsAt(f, i, j, z)
      BY <1>7, <2>2, <3>1, Zenon DEF IsAt
    <3> QED
      BY <1>10, <1>11, <2>2, <3>1, <3>2, Zenon
  <2> QED
    BY <2>1, <2>2, Zenon
<1>13. ASSUME NEW i, NEW j, NEW z, IsAt(f, i, j, z)
       PROVE  \E k \in Nat : IsAt(c, i, k, z) /\ ~(i = m /\ k = n) /\ MovedUp(m, n, i, k) = j
  <2>1. CASE i = m
    BY <1>1, <1>7, <1>9, <1>13, <2>1, Zenon DEF IsAt
  <2>2. CASE i # m
    BY <1>7, <1>10, <1>11, <1>13, <2>2, Zenon DEF IsAt
  <2> QED
    BY <2>1, <2>2, Zenon
<1> QED
  <2>1. Loses(c, m, n, f)
    BY <1>12, <1>13, Zenon DEF Loses
  <2>2. n \in Nat
    BY <1>3, SMT
  <2> QED
    BY <1>5, <1>7, <2>1, <2>2, Zenon

\* A hash index, and what it is to hold every entry as often as e says: all but
\* those of the buckets X.
IsHash(h, X) ==
  /\ h = [type |-> h.type, dir |-> h.dir, ok |-> h.ok, fault |-> h.fault]
  /\ h.type \in DOMAIN HashKeys
  /\ h.dir = [b \in Buckets |-> h.dir[b]]
  /\ \A b \in Buckets : b \notin X => h.dir[b] \in Seq(Seq(Entries))

CountOf(e, x) == IF x \in DOMAIN e THEN e[x] ELSE 0

IsCounted(c, e, x) == IsFiniteSet(Spots(c, x)) /\ Cardinality(Spots(c, x)) = CountOf(e, x)

HashIs(h, e, X) ==
  /\ IsHash(h, X)
  /\ e = [x \in DOMAIN e |-> e[x]]
  /\ \A x \in Entries, b \in Buckets :
       b \notin X /\ b = BucketOf(h.type, x[1]) => IsCounted(h.dir[b], e, x)

\* The fields of a hash index that is written out.
LEMMA HashRecord ==
  ASSUME NEW t, NEW d, NEW o, NEW w, NEW y, y = [type |-> t, dir |-> d, ok |-> o, fault |-> w]
  PROVE  /\ y.type = t /\ y.dir = d /\ y.ok = o /\ y.fault = w
         /\ y = [type |-> y.type, dir |-> y.dir, ok |-> y.ok, fault |-> y.fault]
BY Zenon

\* Another result leaves the entries alone,
LEMMA ResultKeeps ==
  ASSUME NEW X, NEW h, NEW e, HashIs(h, e, X), NEW o, NEW w, NEW y,
         y = [type |-> h.type, dir |-> h.dir, ok |-> o, fault |-> w]
  PROVE  HashIs(y, e, X) /\ y.ok = o /\ y.type = h.type
<1>1. y.type = h.type /\ y.dir = h.dir /\ y.ok = o /\ y.fault = w
  BY HashRecord, Zenon
<1>2. y = [type |-> y.type, dir |-> y.dir, ok |-> y.ok, fault |-> y.fault]
  BY HashRecord, Zenon
<1>3. IsHash(y, X)
  BY <1>1, <1>2, Zenon DEF IsHash, HashIs
<1> QED
  BY <1>1, <1>3, Zenon DEF HashIs

\* and another chain of one bucket those of the others.
Moves(t, b, f, e, g, X) ==
  /\ g = [x \in DOMAIN g |-> g[x]]
  /\ b \notin X =>
       /\ f \in Seq(Seq(Entries))
       /\ \A x \in Entries : BucketOf(t, x[1]) = b => IsCounted(f, g, x)
  /\ \A x \in Entries : BucketOf(t, x[1]) # b => CountOf(g, x) = CountOf(e, x)

\* Such a move keeps a hash index one of its entries.
LEMMA ChainKeeps ==
  ASSUME NEW X, NEW h, NEW e, HashIs(h, e, X), NEW b \in Buckets, NEW f, NEW g, Moves(h.type, b, f, e, g, X),
         NEW o, NEW y, y = WithChain(h, b, f, o)
  PROVE  HashIs(y, g, X) /\ y.ok = o /\ y.type = h.type
<1>1. IsHash(h, X)
  BY Zenon DEF HashIs
<1>2. PICK d : d = [h.dir EXCEPT ![b] = f]
  BY Zenon
<1>3. /\ d = [a \in Buckets |-> d[a]] /\ d[b] = f
      /\ \A a \in Buckets : a # b => d[a] = h.dir[a]
  BY <1>1, <1>2, Zenon DEF IsHash
<1>4. y = [type |-> h.type, dir |-> d, ok |-> o, fault |-> h.fault]
  <2>1. PICK t, k, w : t = h.type /\ k = h.ok /\ w = h.fault
    BY Zenon
  <2>2. h = [type |-> t, dir |-> h.dir, ok |-> k, fault |-> w]
    BY <1>1, <2>1, Zenon DEF IsHash
  <2>3. y = [h EXCEPT !.ok = o, !.dir = d]
    BY <1>2, Zenon DEF WithChain
  <2> QED
    BY <2>1, <2>2, <2>3
<1>5. /\ y.type = h.type /\ y.dir = d /\ y.ok = o
      /\ y = [type |-> y.type, dir |-> y.dir, ok |-> y.ok, fault |-> y.fault]
  <2>1. PICK t, w : t = h.type /\ w = h.fault
    BY Zenon
  <2>2. y = [type |-> t, dir |-> d, ok |-> o, fault |-> w]
    BY <1>4, <2>1, Zenon
  <2> QED
    BY <2>1, <2>2, HashRecord
<1>6. \A a \in Buckets : a \notin X => d[a] \in Seq(Seq(Entries))
  BY <1>1, <1>3, Zenon DEF IsHash, Moves
<1>7. IsHash(y, X)
  BY <1>1, <1>3, <1>5, <1>6, Zenon DEF IsHash
<1>8. ASSUME NEW x \in Entries, NEW a \in Buckets, a \notin X, a = BucketOf(h.type, x[1])
      PROVE  IsCounted(d[a], g, x)
  <2>1. CASE a = b
    BY <1>3, <1>8, <2>1, Zenon DEF Moves
  <2>2. CASE a # b
    <3>1. IsCounted(h.dir[a], e, x)
      BY <1>8, Zenon DEF HashIs
    <3>2. CountOf(g, x) = CountOf(e, x)
      BY <1>8, <2>2, Zenon DEF Moves
    <3> QED
      BY <1>3, <2>2, <3>1, <3>2, Zenon DEF IsCounted
  <2> QED
    BY <2>1, <2>2, Zenon
<1>9. g = [x \in DOMAIN g |-> g[x]]
  BY Zenon DEF Moves
<1> QED
  BY <1>5, <1>7, <1>8, <1>9, Zenon DEF HashIs

\* A chain of a bucket is no Lost one.
LEMMA NotLost ==
  ASSUME NEW c \in Seq(Seq(Entries))
  PROVE  c # Lost
<1> SUFFICES ASSUME c = Lost PROVE FALSE
  BY Zenon
<1>1. PICK l : l = <<"lost">>
  BY Zenon
<1>2. c = << <<l>> >>
  BY <1>1, Zenon DEF Lost
<1>3. c[1][1] = l /\ c[1][1] \in Entries
  BY <1>2, SMT
<1>4. l \in WrittenKeys \X RowIds
  BY <1>3, Zenon DEF Entries
<1>5. DOMAIN l = 1..2
  BY <1>4, SMT
<1>6. DOMAIN l = 1..1
  BY <1>1, SMT
<1> QED
  BY <1>5, <1>6, SMT

\* An absent bucket that is created holds what it held: nothing.
LEMMA BucketIsChain ==
  ASSUME NEW X, NEW h, NEW e, HashIs(h, e, X), NEW b \in Buckets, b \notin X, NEW c, c = BucketChain(h, b)
  PROVE  /\ c \in Seq(Seq(Entries))
         /\ \A x : Spots(c, x) = Spots(h.dir[b], x)
<1>1. PICK s : s = h.dir[b]
  BY Zenon
<1>2. s \in Seq(Seq(Entries))
  BY <1>1, Zenon DEF HashIs, IsHash
<1>3. CASE s # <<>>
  BY <1>1, <1>2, <1>3, Zenon DEF BucketChain
<1>4. CASE s = <<>>
  <2>1. PICK z : z = <<>>
    BY Zenon
  <2>2. c = <<z>> /\ s = z
    BY <1>1, <1>4, <2>1, Zenon DEF BucketChain
  <2>3. z \in Seq(Entries) /\ DOMAIN z = {} /\ DOMAIN c = {1} /\ c[1] = z
    BY <2>1, <2>2, SMT
  <2>4. c \in Seq(Seq(Entries))
    BY <2>2, <2>3, SMT
  <2>5. \A i, j, y : ~IsAt(c, i, j, y) /\ ~IsAt(s, i, j, y)
    BY <2>2, <2>3, Zenon DEF IsAt
  <2>6. \A x, p : p \notin Spots(c, x) /\ p \notin Spots(s, x)
    <3> SUFFICES ASSUME NEW x, NEW p PROVE p \notin Spots(c, x) /\ p \notin Spots(s, x)
      BY Zenon
    <3>1. p \in Spots(c, x) <=> \E i, j : p = <<i, j>> /\ IsAt(c, i, j, x)
      BY SpotIs
    <3>2. p \in Spots(s, x) <=> \E i, j : p = <<i, j>> /\ IsAt(s, i, j, x)
      BY SpotIs
    <3> QED
      BY <2>5, <3>1, <3>2, Zenon
  <2>7. \A x : Spots(c, x) = Spots(s, x)
    BY <2>6
  <2> QED
    BY <1>1, <2>4, <2>7, Zenon
<1> QED
  BY <1>3, <1>4, Zenon
\* A key that is written is a key of entries, and has a bucket.
LEMMA KeyIs ==
  ASSUME NEW t \in DOMAIN HashKeys, NEW k \in HashKeys[t], NEW key, key = Written(t, k)
  PROVE  /\ BucketOf(t, key) \in Buckets /\ key \in WrittenKeys
         /\ \A v \in RowIds : <<key, v>> \in Entries /\ <<key, v>>[1] = key
<1>1. BucketOf(t, key) \in Buckets /\ key \in WrittenKeys
  <2>1. key \in {Written(t, j) : j \in HashKeys[t]}
    BY Zenon
  <2> QED
    BY <2>1, HashAssumption, Zenon DEF WrittenKeys
<1>2. \A v \in RowIds : <<key, v>> \in WrittenKeys \X RowIds /\ <<key, v>>[1] = key
  BY <1>1, SMT
<1> QED
  BY <1>1, <1>2, Zenon DEF Entries

\* One more of an entry.
IsOneMoreOf(e, x, g) ==
  /\ g = [z \in DOMAIN g |-> g[z]]
  /\ CountOf(g, x) = CountOf(e, x) + 1
  /\ \A z : z # x => CountOf(g, z) = CountOf(e, z)

\* This is what an insertion does to the record of what was inserted,
LEMMA WithOneMore ==
  ASSUME NEW e, NEW x, NEW g, g = With(e, x, CountOf(e, x) + 1)
  PROVE  IsOneMoreOf(e, x, g)
<1>1. PICK n : n = CountOf(e, x) + 1
  BY Zenon
<1>2. /\ g = [z \in DOMAIN e \cup {x} |-> IF z = x THEN n ELSE e[z]]
  BY <1>1, Zenon DEF With
<1>3. g = [z \in DOMAIN g |-> g[z]] /\ x \in DOMAIN g /\ g[x] = n
  BY <1>2, Zenon
<1>4. \A z : z # x => (z \in DOMAIN g <=> z \in DOMAIN e) /\ (z \in DOMAIN e => g[z] = e[z])
  BY <1>2, Zenon
<1>5. CountOf(g, x) = n
  BY <1>3, Zenon DEF CountOf
<1>6. \A z : z # x => CountOf(g, z) = CountOf(e, z)
  BY <1>4, Zenon DEF CountOf
<1> QED
  BY <1>1, <1>3, <1>5, <1>6, Zenon DEF IsOneMoreOf

\* and a chain that gains the entry stays counted.
LEMMA GainIsCounted ==
  ASSUME NEW c, NEW m, NEW n, NEW x, NEW f, Gains(c, m, n, x, f), NEW e, NEW g, IsOneMoreOf(e, x, g),
         NEW y, IsCounted(c, e, y)
  PROVE  IsCounted(f, g, y)
<1>1. CASE y # x
  <2>1. Spots(f, y) = Spots(c, y)
    BY <1>1, SpotsStay
  <2>2. CountOf(g, y) = CountOf(e, y)
    BY <1>1, Zenon DEF IsOneMoreOf
  <2> QED
    BY <2>1, <2>2, Zenon DEF IsCounted
<1>2. CASE y = x
  <2>1. PICK S, p : S = Spots(c, x) /\ p = <<m, n>>
    BY Zenon
  <2>2. Spots(f, x) = S \cup {p} /\ p \notin S
    BY <2>1, SpotsGrow
  <2>3. IsFiniteSet(S) /\ Cardinality(S) = CountOf(e, x)
    BY <1>2, <2>1, Zenon DEF IsCounted
  <2>4. IsFiniteSet(S \cup {p}) /\ Cardinality(S \cup {p}) = Cardinality(S) + 1
    BY <2>2, <2>3, FS_AddElement, Zenon
  <2>5. CountOf(g, x) = CountOf(e, x) + 1
    BY Zenon DEF IsOneMoreOf
  <2> QED
    BY <1>2, <2>2, <2>3, <2>4, <2>5, Zenon DEF IsCounted
<1> QED
  BY <1>1, <1>2, Zenon

\* The chain after an insertion.
Extended(t, c, key, x) ==
  LET at == {i \in DOMAIN c : PageTakes(t, c[i], key)}
  IN IF at = {} THEN Append(c, <<x>>) ELSE [c EXCEPT ![Min(at)] = Append(@, x)]

\* The page that takes the entry, or the new one at the end, gains it.
LEMMA ExtendedGains ==
  ASSUME NEW c \in Seq(Seq(Entries)), NEW x \in Entries, NEW t, NEW key, NEW f, f = Extended(t, c, key, x)
  PROVE  f \in Seq(Seq(Entries)) /\ \E m, n : Gains(c, m, n, x, f)
<1>1. PICK at : at = {i \in DOMAIN c : PageTakes(t, c[i], key)}
  BY Zenon
<1>2. f = IF at = {} THEN Append(c, <<x>>) ELSE [c EXCEPT ![Min(at)] = Append(c[Min(at)], x)]
  BY <1>1, Zenon DEF Extended
<1>3. PICK P : P = Seq(Entries)
  BY Zenon
<1>4. CASE at = {}
  <2>1. <<x>> \in P
    BY <1>3, SMT
  <2>2. PICK z : z = <<x>>
    BY Zenon
  <2>3. Append(c, z) \in Seq(P)
    BY <1>3, <2>1, <2>2, SMT
  <2>4. Gains(c, Len(c) + 1, 1, x, f)
    BY <1>2, <1>3, <1>4, <2>1, NewPageGains
  <2> QED
    BY <1>2, <1>3, <1>4, <2>2, <2>3, <2>4, Zenon
<1>5. CASE at # {}
  <2>1. PICK m : m = Min(at)
    BY Zenon
  <2>2. at \in SUBSET Nat
    BY <1>1, SMT
  <2>3. m \in DOMAIN c
    BY <1>1, <1>5, <2>1, <2>2, MinIs, Zenon
  <2>4. PICK s : s = c[m]
    BY Zenon
  <2>5. s \in Seq(Entries) /\ c = [i \in DOMAIN c |-> c[i]]
    BY <2>3, <2>4, SMT
  <2>6. PICK r : r = Append(s, x)
    BY Zenon
  <2>7. r \in P
    BY <1>3, <2>5, <2>6, SMT
  <2>8. f = [c EXCEPT ![m] = r]
    BY <1>2, <1>5, <2>1, <2>4, <2>6, Zenon
  <2>9. f \in Seq(P)
    BY <1>3, <2>3, <2>7, <2>8, SMT
  <2>10. Gains(c, m, Len(s) + 1, x, f)
    BY <2>3, <2>4, <2>5, <2>6, <2>8, AppendGains
  <2> QED
    BY <1>3, <2>9, <2>10, Zenon
<1> QED
  BY <1>4, <1>5, Zenon

\* An operation that gives up changes no bucket.
HasGivenUp(h, y) ==
  y = Strayed(h) \/ y = [h EXCEPT !.ok = FALSE, !.fault = "endless"]

\* It keeps the index one of its entries.
LEMMA GivesUp ==
  ASSUME NEW X, NEW h, NEW e, HashIs(h, e, X), NEW y, HasGivenUp(h, y)
  PROVE  HashIs(y, e, X) /\ ~y.ok /\ y.type = h.type
<1>1. PICK t, d, o, w : t = h.type /\ d = h.dir /\ o = h.ok /\ w = h.fault
  BY Zenon
<1>2. h = [type |-> t, dir |-> d, ok |-> o, fault |-> w]
  BY <1>1, Zenon DEF HashIs, IsHash
<1>3. \E v : y = [type |-> t, dir |-> d, ok |-> FALSE, fault |-> v]
  <2>1. CASE y = Strayed(h)
    <3>1. y = [type |-> t, dir |-> d, ok |-> FALSE, fault |-> "strayed"]
      BY <1>2, <2>1 DEF Strayed
    <3> QED
      BY <3>1, Zenon
  <2>2. CASE y = [h EXCEPT !.ok = FALSE, !.fault = "endless"]
    <3>1. y = [type |-> t, dir |-> d, ok |-> FALSE, fault |-> "endless"]
      BY <1>2, <2>2
    <3> QED
      BY <3>1, Zenon
  <2> QED
    BY <2>1, <2>2, Zenon DEF HasGivenUp
<1>4. PICK v : y = [type |-> t, dir |-> d, ok |-> FALSE, fault |-> v]
  BY <1>3, Zenon
<1>5. PICK z : z = FALSE
  BY Zenon
<1>6. y = [type |-> h.type, dir |-> h.dir, ok |-> z, fault |-> v]
  BY <1>1, <1>4, <1>5, Zenon
<1>7. HashIs(y, e, X) /\ y.ok = z /\ y.type = h.type
  BY <1>6, ResultKeeps
<1> QED
  BY <1>5, <1>7, Zenon

\* A chain that is left as it is.
LEMMA SameChain ==
  ASSUME NEW X, NEW h, NEW e, HashIs(h, e, X), NEW b \in Buckets, NEW c, c = BucketChain(h, b)
  PROVE  Moves(h.type, b, c, e, e, X)
<1>1. e = [x \in DOMAIN e |-> e[x]]
  BY Zenon DEF HashIs
<1>2. ASSUME b \notin X
      PROVE  c \in Seq(Seq(Entries)) /\ \A x : Spots(c, x) = Spots(h.dir[b], x)
  BY <1>2, BucketIsChain
<1>3. ASSUME b \notin X, NEW x \in Entries, BucketOf(h.type, x[1]) = b
      PROVE  IsCounted(c, e, x)
  <2>1. IsCounted(h.dir[b], e, x)
    BY <1>3, Zenon DEF HashIs
  <2>2. Spots(c, x) = Spots(h.dir[b], x)
    BY <1>2, <1>3, Zenon
  <2> QED
    BY <2>1, <2>2, Zenon DEF IsCounted
<1> QED
  BY <1>1, <1>2, <1>3, Zenon DEF Moves

\* An insertion that succeeds adds one entry.
LEMMA InsertMoves ==
  ASSUME NEW X, NEW h, NEW e, HashIs(h, e, X), NEW b \in Buckets, NEW c, c = BucketChain(h, b),
         NEW x \in Entries, BucketOf(h.type, x[1]) = b, NEW key, NEW f, f = Extended(h.type, c, key, x),
         NEW g, IsOneMoreOf(e, x, g)
  PROVE  Moves(h.type, b, f, e, g, X)
<1>1. Moves(h.type, b, c, e, e, X)
  BY SameChain
<1>2. ASSUME b \notin X
      PROVE  f \in Seq(Seq(Entries)) /\ \E m, n : Gains(c, m, n, x, f)
  <2>1. c \in Seq(Seq(Entries))
    BY <1>1, <1>2, Zenon DEF Moves
  <2> QED
    BY <2>1, ExtendedGains
<1>3. ASSUME b \notin X, NEW y \in Entries, BucketOf(h.type, y[1]) = b
      PROVE  IsCounted(f, g, y)
  <2>1. IsCounted(c, e, y)
    BY <1>1, <1>3, Zenon DEF Moves
  <2>2. PICK m, n : Gains(c, m, n, x, f)
    BY <1>2, <1>3, Zenon
  <2> QED
    BY <2>1, <2>2, GainIsCounted
<1>4. ASSUME NEW y \in Entries, BucketOf(h.type, y[1]) # b
      PROVE  CountOf(g, y) = CountOf(e, y)
  BY <1>4, Zenon DEF IsOneMoreOf
<1>5. g = [z \in DOMAIN g |-> g[z]]
  BY Zenon DEF IsOneMoreOf
<1> QED
  BY <1>2, <1>3, <1>4, <1>5, Zenon DEF Moves

\* HashIndex::insert: the index has one more of the entry, or fails and has what it had.
LEMMA HashInsertKeeps ==
  ASSUME NEW X, NEW h, NEW e, HashIs(h, e, X), NEW k \in HashKeys[h.type], NEW v \in RowIds,
         NEW y, y = HashInsert(h, k, v), NEW x, x = <<Written(h.type, k), v>>
  PROVE  HashIs(y, IF y.ok THEN With(e, x, CountOf(e, x) + 1) ELSE e, X) /\ y.type = h.type
<1>1. PICK key : key = Written(h.type, k)
  BY Zenon
<1>2. h.type \in DOMAIN HashKeys
  BY Zenon DEF HashIs, IsHash
<1>3. BucketOf(h.type, key) \in Buckets /\ x \in Entries /\ x[1] = key /\ x = <<key, v>>
  BY <1>1, <1>2, KeyIs
<1>4. PICK b \in Buckets : b = BucketOf(h.type, key)
  BY <1>3, Zenon
<1>5. PICK c : c = BucketChain(h, b)
  BY Zenon
<1>6. PICK f : f = Extended(h.type, c, key, x)
  BY Zenon
<1>7. y = IF h.dir[b] = Lost THEN Strayed(h)
          ELSE IF IsFull(h.type, <<>>, key) THEN [h EXCEPT !.ok = FALSE, !.fault = "endless"]
          ELSE WithChain(h, b, f, TRUE)
  BY <1>1, <1>3, <1>4, <1>5, <1>6, Zenon DEF HashInsert, Extended
<1>8. CASE HasGivenUp(h, y)
  <2>1. HashIs(y, e, X) /\ ~y.ok /\ y.type = h.type
    BY <1>8, GivesUp
  <2> QED
    BY <2>1, Zenon
<1>9. CASE y = WithChain(h, b, f, TRUE)
  <2>1. PICK g : g = With(e, x, CountOf(e, x) + 1)
    BY Zenon
  <2>2. IsOneMoreOf(e, x, g)
    BY <2>1, WithOneMore
  <2>3. Moves(h.type, b, f, e, g, X)
    BY <1>3, <1>4, <1>5, <1>6, <2>2, InsertMoves
  <2>4. PICK o : o = TRUE
    BY Zenon
  <2>5. y = WithChain(h, b, f, o)
    BY <1>9, <2>4, Zenon
  <2>6. HashIs(y, g, X) /\ y.ok = o /\ y.type = h.type
    BY <2>3, <2>5, ChainKeeps
  <2> QED
    BY <2>1, <2>4, <2>6, Zenon
<1> QED
  BY <1>7, <1>8, <1>9, Zenon DEF HasGivenUp

\* A search creates its bucket.
LEMMA HashLookupKeeps ==
  ASSUME NEW X, NEW h, NEW e, HashIs(h, e, X), NEW k \in HashKeys[h.type], NEW y, y = HashLookup(h, k)
  PROVE  HashIs(y, e, X) /\ y.type = h.type
<1>1. PICK key : key = Written(h.type, k)
  BY Zenon
<1>2. h.type \in DOMAIN HashKeys
  BY Zenon DEF HashIs, IsHash
<1>3. BucketOf(h.type, key) \in Buckets
  BY <1>1, <1>2, KeyIs
<1>4. PICK b \in Buckets : b = BucketOf(h.type, key)
  BY <1>3, Zenon
<1>5. PICK c, o : c = BucketChain(h, b) /\ o = (HashSearchAll(h, k) # {})
  BY Zenon
<1>6. y = IF h.dir[b] = Lost THEN Strayed(h) ELSE WithChain(h, b, c, o)
  BY <1>1, <1>4, <1>5, Zenon DEF HashLookup
<1>7. CASE HasGivenUp(h, y)
  BY <1>7, GivesUp
<1>8. CASE y = WithChain(h, b, c, o)
  <2>1. Moves(h.type, b, c, e, e, X)
    BY <1>5, SameChain
  <2> QED
    BY <1>8, <2>1, ChainKeeps
<1> QED
  BY <1>6, <1>7, <1>8, Zenon DEF HasGivenUp

\* The first of some places is one of them.
LEMMA FirstPlaceIs ==
  ASSUME NEW P \in SUBSET (Nat \X Nat), P # {}
  PROVE  FirstPlace(P) \in P
<1>1. PICK A : A = {p[1] : p \in P}
  BY Zenon
<1>2. \A p \in P : p[1] \in Nat /\ p[2] \in Nat
  BY SMT
<1>3. A \in SUBSET Nat /\ A # {}
  BY <1>1, <1>2, Zenon
<1>4. PICK a \in A : \A i \in A : a <= i
  BY <1>3, LeastNumber, Zenon
<1>5. PICK B : B = {p[2] : p \in {q \in P : q[1] = a}}
  BY Zenon
<1>6. B \in SUBSET Nat /\ B # {}
  BY <1>1, <1>2, <1>5, Zenon
<1>7. PICK n \in B : \A j \in B : n <= j
  BY <1>6, LeastNumber, Zenon
<1>8. PICK p \in P : p[1] = a /\ p[2] = n
  BY <1>5, <1>7, Zenon
<1>9. ASSUME NEW q \in P
      PROVE  p[1] < q[1] \/ (p[1] = q[1] /\ p[2] <= q[2])
  <2>1. a <= q[1] /\ q[1] \in Nat /\ a \in Nat
    BY <1>1, <1>2, <1>3, <1>4, Zenon
  <2>2. q[1] = a => n <= q[2]
    BY <1>5, <1>7, Zenon
  <2>3. a < q[1] \/ a = q[1]
    BY <2>1, SMT
  <2> QED
    BY <1>8, <2>2, <2>3, Zenon
<1>10. \E z \in P : \A q \in P : z[1] < q[1] \/ (z[1] = q[1] /\ z[2] <= q[2])
  BY <1>9, Zenon
<1> QED
  BY <1>10, Zenon DEF FirstPlace

\* Where a key is in a chain.
LEMMA PlaceIs ==
  ASSUME NEW c, NEW key, NEW p
  PROVE  p \in Places(c, key) <=>
           \E i, j : p = <<i, j>> /\ i \in DOMAIN c /\ j \in DOMAIN c[i] /\ c[i][j][1] = key
<1>1. ASSUME p \in Places(c, key)
      PROVE  \E i, j : p = <<i, j>> /\ i \in DOMAIN c /\ j \in DOMAIN c[i] /\ c[i][j][1] = key
  <2>1. PICK i \in DOMAIN c : p \in {i} \X DOMAIN c[i] /\ c[p[1]][p[2]][1] = key
    BY <1>1, Zenon DEF Places
  <2>2. p = <<i, p[2]>> /\ p[1] = i /\ p[2] \in DOMAIN c[i]
    BY <2>1, SMT
  <2> QED
    BY <2>1, <2>2, Zenon
<1>2. ASSUME NEW i \in DOMAIN c, NEW j \in DOMAIN c[i], p = <<i, j>>, c[i][j][1] = key
      PROVE  p \in Places(c, key)
  <2>1. p \in {i} \X DOMAIN c[i] /\ p[1] = i /\ p[2] = j
    BY <1>2, SMT
  <2> QED
    BY <1>2, <2>1, Zenon DEF Places
<1> QED
  BY <1>1, <1>2, Zenon

\* The places of a key are pairs of numbers.
LEMMA PlacesArePairs ==
  ASSUME NEW c \in Seq(Seq(Entries)), NEW key
  PROVE  Places(c, key) \in SUBSET (Nat \X Nat)
<1> SUFFICES ASSUME NEW p \in Places(c, key) PROVE p \in Nat \X Nat
  BY Zenon
<1>1. PICK i, j : p = <<i, j>> /\ i \in DOMAIN c /\ j \in DOMAIN c[i]
  BY PlaceIs
<1>2. PICK s : s = c[i] /\ s \in Seq(Entries)
  BY <1>1, SMT
<1>3. i \in Nat /\ j \in Nat
  BY <1>1, <1>2, SMT
<1> QED
  BY <1>1, <1>3, SMT

\* One less of an entry.
IsOneLessOf(e, x, g) ==
  /\ g = [z \in DOMAIN g |-> g[z]]
  /\ CountOf(g, x) = IF x \in DOMAIN e THEN CountOf(e, x) - 1 ELSE 0
  /\ \A z : z # x => CountOf(g, z) = CountOf(e, z)

\* This is what a removal does to the record of what was inserted,
LEMMA WithOneLess ==
  ASSUME NEW e, e = [z \in DOMAIN e |-> e[z]], NEW x, NEW g, g = [e EXCEPT ![x] = e[x] - 1]
  PROVE  IsOneLessOf(e, x, g)
<1>1. PICK n : n = e[x] - 1
  BY Zenon
<1>2. g = [e EXCEPT ![x] = n]
  BY <1>1, Zenon
<1>3. g = [z \in DOMAIN g |-> g[z]] /\ DOMAIN g = DOMAIN e
  BY <1>2, Zenon
<1>4. x \in DOMAIN e => g[x] = n
  BY <1>2, Zenon
<1>5. \A z \in DOMAIN e : z # x => g[z] = e[z]
  BY <1>2, Zenon
<1>6. CountOf(g, x) = IF x \in DOMAIN e THEN CountOf(e, x) - 1 ELSE 0
  BY <1>1, <1>3, <1>4, Zenon DEF CountOf
<1>7. \A z : z # x => CountOf(g, z) = CountOf(e, z)
  BY <1>3, <1>5, Zenon DEF CountOf
<1> QED
  BY <1>3, <1>6, <1>7, Zenon DEF IsOneLessOf

\* and a chain that loses the entry stays counted.
LEMMA LossIsCounted ==
  ASSUME NEW c, NEW m, NEW n \in Nat, NEW f, Loses(c, m, n, f), NEW x, IsAt(c, m, n, x),
         NEW e, IsCounted(c, e, x), NEW g, IsOneLessOf(e, x, g), NEW y, IsCounted(c, e, y)
  PROVE  IsCounted(f, g, y)
<1>1. PICK S, p, T : S = Spots(c, y) /\ p = <<m, n>> /\ T = Spots(f, y)
  BY Zenon
<1>2. IsFiniteSet(S) /\ Cardinality(S) = CountOf(e, y)
  BY <1>1, Zenon DEF IsCounted
<1>3. IsFiniteSet(T) /\ Cardinality(T) = Cardinality(S \ {p})
  BY <1>1, <1>2, SpotsShrink
<1>4. CASE y # x
  <2>1. p \notin S
    <3>1. p \in Spots(c, y) => \E i, j : p = <<i, j>> /\ IsAt(c, i, j, y)
      BY SpotIs
    <3>2. \A i, j : p = <<i, j>> => i = m /\ j = n
      BY <1>1, SMT
    <3>3. ~IsAt(c, m, n, y)
      BY <1>4, Zenon DEF IsAt
    <3> QED
      BY <1>1, <3>1, <3>2, <3>3, Zenon
  <2>2. S \ {p} = S
    BY <2>1, Zenon
  <2>3. CountOf(g, y) = CountOf(e, y)
    BY <1>4, Zenon DEF IsOneLessOf
  <2> QED
    BY <1>1, <1>2, <1>3, <2>2, <2>3, Zenon DEF IsCounted
<1>5. CASE y = x
  <2>1. p \in S
    BY <1>1, <1>5, SpotIs
  <2>2. Cardinality(S \ {p}) = Cardinality(S) - 1
    BY <1>2, <2>1, FS_RemoveElement, Zenon
  <2>3. x \in DOMAIN e
    <3>1. Cardinality(S) # 0
      BY <1>2, <2>1, FS_EmptySet, Zenon
    <3> QED
      BY <1>2, <1>5, <3>1, Zenon DEF CountOf
  <2>4. CountOf(g, x) = CountOf(e, x) - 1
    BY <2>3, Zenon DEF IsOneLessOf
  <2> QED
    BY <1>1, <1>2, <1>3, <1>5, <2>2, <2>4, Zenon DEF IsCounted
<1> QED
  BY <1>4, <1>5, Zenon

\* What HashIndex::remove takes out of a chain, and what it leaves.
HitsOf(c, key, v) == {p \in Places(c, key) : v \in {AnyRow, EntryAt(c, p)[2]}}

Cut(c, hit) == [c EXCEPT ![hit[1]] = Shortened(c[hit[1]], hit[2])]

\* A chain with another page is a chain.
LEMMA ReplacedIsSeq ==
  ASSUME NEW P, NEW c \in Seq(P), NEW m \in DOMAIN c, NEW r \in P, NEW f, f = [c EXCEPT ![m] = r]
  PROVE  f \in Seq(P)
BY SMT

\* A chain that is cut at a place of the key loses an entry of the key.
LEMMA CutLoses ==
  ASSUME NEW c \in Seq(Seq(Entries)), NEW key, NEW hit \in Places(c, key), NEW f, f = Cut(c, hit)
  PROVE  /\ f \in Seq(Seq(Entries)) /\ EntryAt(c, hit) \in Entries /\ EntryAt(c, hit)[1] = key
         /\ \E m, n : n \in Nat /\ Loses(c, m, n, f) /\ IsAt(c, m, n, EntryAt(c, hit))
<1>1. PICK m, n : hit = <<m, n>> /\ m \in DOMAIN c /\ n \in DOMAIN c[m] /\ c[m][n][1] = key
  BY PlaceIs
<1>2. hit[1] = m /\ hit[2] = n
  BY <1>1, SMT
<1>3. EntryAt(c, hit) = c[m][n]
  BY <1>2, Zenon DEF EntryAt
<1>4. f = [c EXCEPT ![m] = Shortened(c[m], n)]
  BY <1>2, Zenon DEF Cut
<1>5. c = [i \in DOMAIN c |-> c[i]] /\ \A i \in DOMAIN c : c[i] \in Seq(Entries)
  BY SMT
<1>6. Loses(c, m, n, f) /\ n \in Nat /\ f[m] \in Seq(Entries)
  BY <1>1, <1>4, <1>5, RemoveLoses
<1>7. c[m][n] \in Entries
  <2>1. PICK s : s = c[m] /\ s \in Seq(Entries)
    BY <1>1, <1>5, Zenon
  <2> QED
    BY <1>1, <2>1, SMT
<1>8. f \in Seq(Seq(Entries))
  <2>1. PICK r : r = Shortened(c[m], n)
    BY Zenon
  <2>2. f = [c EXCEPT ![m] = r]
    BY <1>4, <2>1, Zenon
  <2>3. r \in Seq(Entries)
    BY <1>1, <1>6, <2>2, Zenon
  <2>4. PICK P : P = Seq(Entries)
    BY Zenon
  <2>5. c \in Seq(P) /\ r \in P
    BY <2>3, <2>4, Zenon
  <2>6. f \in Seq(P)
    BY <1>1, <2>2, <2>5, ReplacedIsSeq
  <2> QED
    BY <2>4, <2>6, Zenon
<1>9. IsAt(c, m, n, c[m][n])
  BY <1>1, Zenon DEF IsAt
<1> QED
  BY <1>1, <1>3, <1>6, <1>7, <1>8, <1>9, Zenon

\* A removal that succeeds takes one entry, the one that is found.
LEMMA RemoveMoves ==
  ASSUME NEW X, NEW h, NEW e, HashIs(h, e, X), NEW b \in Buckets, NEW c, c = BucketChain(h, b),
         NEW key, BucketOf(h.type, key) = b, NEW hit, NEW f, f = Cut(c, hit),
         NEW x, x[1] = key, b \notin X => hit \in Places(c, key) /\ EntryAt(c, hit) = x,
         NEW g, IsOneLessOf(e, x, g)
  PROVE  Moves(h.type, b, f, e, g, X)
<1>1. Moves(h.type, b, c, e, e, X)
  BY SameChain
<1>2. ASSUME b \notin X
      PROVE  /\ f \in Seq(Seq(Entries)) /\ x \in Entries
             /\ \E m, n : n \in Nat /\ Loses(c, m, n, f) /\ IsAt(c, m, n, x)
  <2>1. c \in Seq(Seq(Entries))
    BY <1>1, <1>2, Zenon DEF Moves
  <2>2. /\ f \in Seq(Seq(Entries)) /\ EntryAt(c, hit) \in Entries
        /\ \E m, n : n \in Nat /\ Loses(c, m, n, f) /\ IsAt(c, m, n, EntryAt(c, hit))
    BY <1>2, <2>1, CutLoses
  <2> QED
    BY <1>2, <2>2, Zenon
<1>3. ASSUME b \notin X, NEW y \in Entries, BucketOf(h.type, y[1]) = b
      PROVE  IsCounted(f, g, y)
  <2>1. x \in Entries
    BY <1>2, <1>3, Zenon
  <2>2. IsCounted(c, e, y) /\ IsCounted(c, e, x)
    BY <1>1, <1>3, <2>1, Zenon DEF Moves
  <2>3. PICK m, n : n \in Nat /\ Loses(c, m, n, f) /\ IsAt(c, m, n, x)
    BY <1>2, <1>3, Zenon
  <2> QED
    BY <2>2, <2>3, LossIsCounted
<1>4. ASSUME NEW y \in Entries, BucketOf(h.type, y[1]) # b
      PROVE  CountOf(g, y) = CountOf(e, y)
  BY <1>4, Zenon DEF IsOneLessOf
<1>5. g = [z \in DOMAIN g |-> g[z]]
  BY Zenon DEF IsOneLessOf
<1> QED
  BY <1>2, <1>3, <1>4, <1>5, Zenon DEF Moves

\* The row id that is asked for, or the one a search would find.
GoneRow(h, k, v) == IF v # AnyRow THEN v ELSE CHOOSE r \in HashSearch(h, k) : TRUE

\* The first hit is the entry with that row id.
LEMMA GoneIsHit ==
  ASSUME NEW X, NEW h, NEW e, HashIs(h, e, X), NEW k, NEW key, key = Written(h.type, k),
         NEW b \in Buckets, b = BucketOf(h.type, key), b \notin X,
         NEW c, c = BucketChain(h, b), NEW v, NEW hits, hits = HitsOf(c, key, v), hits # {},
         NEW hit, hit = FirstPlace(hits)
  PROVE  hit \in Places(c, key) /\ EntryAt(c, hit) = <<key, GoneRow(h, k, v)>>
<1>1. c \in Seq(Seq(Entries))
  BY BucketIsChain
<1>2. hits \in SUBSET (Nat \X Nat)
  <2>1. Places(c, key) \in SUBSET (Nat \X Nat)
    BY <1>1, PlacesArePairs
  <2> QED
    BY <2>1, Zenon DEF HitsOf
<1>3. hit \in hits
  BY <1>2, FirstPlaceIs
<1>4. hit \in Places(c, key) /\ v \in {AnyRow, EntryAt(c, hit)[2]}
  BY <1>3, Zenon DEF HitsOf
<1>5. EntryAt(c, hit) \in Entries /\ EntryAt(c, hit)[1] = key
  BY <1>1, <1>4, CutLoses
<1>6. PICK x : x = EntryAt(c, hit)
  BY Zenon
<1>7. x = <<key, x[2]>>
  <2>1. x \in WrittenKeys \X RowIds /\ x[1] = key
    BY <1>5, <1>6, Zenon DEF Entries
  <2> QED
    BY <2>1, SMT
<1>8. x[2] = GoneRow(h, k, v)
  <2>1. CASE v # AnyRow
    BY <1>4, <1>6, <2>1, Zenon DEF GoneRow
  <2>2. CASE v = AnyRow
    <3>1. hits = Places(c, key)
      BY <2>2, Zenon DEF HitsOf
    <3>2. c = h.dir[b]
      <4>1. CASE h.dir[b] = <<>>
        <5>1. PICK z : z = <<>>
          BY Zenon
        <5>2. c = <<z>>
          BY <4>1, <5>1, Zenon DEF BucketChain
        <5>3. DOMAIN z = {} /\ DOMAIN c = {1} /\ c[1] = z
          BY <5>1, <5>2, SMT
        <5>4. PICK i, j : i \in DOMAIN c /\ j \in DOMAIN c[i]
          BY <1>4, PlaceIs
        <5> QED
          BY <5>3, <5>4, Zenon
      <4>2. CASE h.dir[b] # <<>>
        BY <4>2, Zenon DEF BucketChain
      <4> QED
        BY <4>1, <4>2, Zenon
    <3>3. c # Lost
      BY <1>1, NotLost
    <3>4. HashSearchAll(h, k) = hits
      BY <3>1, <3>2, <3>3, Zenon DEF HashSearchAll
    <3>5. RowAt(h, k, hit) = x[2]
      BY <1>6, <3>2, Zenon DEF RowAt
    <3>6. HashSearch(h, k) = {x[2]}
      BY <3>4, <3>5, Zenon DEF HashSearch
    <3>7. (CHOOSE r \in {x[2]} : TRUE) = x[2]
      BY Zenon
    <3> QED
      BY <2>2, <3>6, <3>7, Zenon DEF GoneRow
  <2> QED
    BY <2>1, <2>2, Zenon
<1> QED
  BY <1>4, <1>6, <1>7, <1>8, Zenon
\* HashIndex::remove: the index has one less of the entry, or fails and has what it had.
LEMMA HashRemoveKeeps ==
  ASSUME NEW X, NEW h, NEW e, HashIs(h, e, X), NEW k \in HashKeys[h.type], NEW v,
         NEW y, y = HashRemove(h, k, v), NEW x, x = <<Written(h.type, k), GoneRow(h, k, v)>>
  PROVE  HashIs(y, IF y.ok THEN [e EXCEPT ![x] = e[x] - 1] ELSE e, X) /\ y.type = h.type
<1>1. PICK key : key = Written(h.type, k)
  BY Zenon
<1>2. h.type \in DOMAIN HashKeys
  BY Zenon DEF HashIs, IsHash
<1>3. BucketOf(h.type, key) \in Buckets
  BY <1>1, <1>2, KeyIs
<1>4. PICK b \in Buckets : b = BucketOf(h.type, key)
  BY <1>3, Zenon
<1>5. PICK c : c = BucketChain(h, b)
  BY Zenon
<1>6. PICK hits : hits = HitsOf(c, key, v)
  BY Zenon
<1>7. PICK hit : hit = FirstPlace(hits)
  BY Zenon
<1>8. PICK f : f = Cut(c, hit)
  BY Zenon
<1>9. y = IF h.dir[b] = Lost THEN Strayed(h)
          ELSE IF hits = {} THEN WithChain(h, b, c, FALSE)
          ELSE WithChain(h, b, f, TRUE)
  BY <1>1, <1>4, <1>5, <1>6, <1>7, <1>8, Zenon DEF HashRemove, HitsOf, Cut
<1>10. CASE HasGivenUp(h, y)
  <2>1. HashIs(y, e, X) /\ ~y.ok /\ y.type = h.type
    BY <1>10, GivesUp
  <2> QED
    BY <2>1, Zenon
<1>11. CASE y = WithChain(h, b, c, FALSE)
  <2>1. Moves(h.type, b, c, e, e, X)
    BY <1>5, SameChain
  <2>2. PICK o : o = FALSE
    BY Zenon
  <2>3. y = WithChain(h, b, c, o)
    BY <1>11, <2>2, Zenon
  <2>4. HashIs(y, e, X) /\ y.ok = o /\ y.type = h.type
    BY <2>1, <2>3, ChainKeeps
  <2> QED
    BY <2>2, <2>4, Zenon
<1>12. CASE hits # {} /\ y = WithChain(h, b, f, TRUE)
  <2>1. PICK g : g = [e EXCEPT ![x] = e[x] - 1]
    BY Zenon
  <2>2. IsOneLessOf(e, x, g)
    <3>1. e = [z \in DOMAIN e |-> e[z]]
      BY Zenon DEF HashIs
    <3> QED
      BY <2>1, <3>1, WithOneLess
  <2>3. b \notin X => hit \in Places(c, key) /\ EntryAt(c, hit) = x
    <3> SUFFICES ASSUME b \notin X PROVE hit \in Places(c, key) /\ EntryAt(c, hit) = x
      BY Zenon
    <3>1. hit \in Places(c, key) /\ EntryAt(c, hit) = <<key, GoneRow(h, k, v)>>
      BY <1>1, <1>4, <1>5, <1>6, <1>7, <1>12, GoneIsHit
    <3> QED
      BY <1>1, <3>1, Zenon
  <2>4. x[1] = key
    BY <1>1, SMT
  <2>5. Moves(h.type, b, f, e, g, X)
    BY <1>4, <1>5, <1>8, <2>2, <2>3, <2>4, RemoveMoves
  <2>6. PICK o : o = TRUE
    BY Zenon
  <2>7. y = WithChain(h, b, f, o)
    BY <1>12, <2>6, Zenon
  <2>8. HashIs(y, g, X) /\ y.ok = o /\ y.type = h.type
    BY <2>5, <2>7, ChainKeeps
  <2> QED
    BY <2>1, <2>6, <2>8, Zenon
<1> QED
  BY <1>9, <1>10, <1>11, <1>12, Zenon DEF HasGivenUp

\* The directory page that is written loses no bucket but the one.
LEMMA FlushKeeps ==
  ASSUME NEW X, NEW h, NEW e, HashIs(h, e, X), NEW y, y = FlushDirectory(h)
  PROVE  HashIs(y, e, X \cup {ChecksumBucket}) /\ y.type = h.type
<1>1. PICK f : f = IF \E b \in Buckets \ {ChecksumBucket} : h.dir[b] # <<>> THEN Lost ELSE <<>>
  BY Zenon
<1>2. y = WithChain(h, ChecksumBucket, f, h.ok)
  BY <1>1, Zenon DEF FlushDirectory
<1> DEFINE Y == X \cup {ChecksumBucket}
<1>0. HashIs(h, e, Y)
  BY Zenon DEF HashIs, IsHash
<1> HIDE DEF Y
<1>3. CASE ChecksumBucket \in Buckets
  <2>1. e = [x \in DOMAIN e |-> e[x]]
    BY Zenon DEF HashIs
  <2>2. Moves(h.type, ChecksumBucket, f, e, e, Y)
    BY <2>1, Zenon DEF Moves, Y
  <2>3. PICK b \in Buckets : b = ChecksumBucket
    BY <1>3, Zenon
  <2>4. PICK o : o = h.ok
    BY Zenon
  <2>5. y = WithChain(h, b, f, o) /\ Moves(h.type, b, f, e, e, Y)
    BY <1>2, <2>2, <2>3, <2>4, Zenon
  <2> QED
    BY <1>0, <2>5, ChainKeeps DEF Y
<1>4. CASE ChecksumBucket \notin Buckets
  <2>1. PICK d : d = h.dir
    BY Zenon
  <2>2. d = [b \in Buckets |-> d[b]]
    BY <2>1, Zenon DEF HashIs, IsHash
  <2>3. [d EXCEPT ![ChecksumBucket] = f] = d
    BY <1>4, <2>2, Zenon
  <2>4. PICK t, o, w : t = h.type /\ o = h.ok /\ w = h.fault
    BY Zenon
  <2>5. h = [type |-> t, dir |-> d, ok |-> o, fault |-> w]
    BY <2>1, <2>4, Zenon DEF HashIs, IsHash
  <2>6. y = [h EXCEPT !.ok = o, !.dir = d]
    BY <1>2, <2>1, <2>3, <2>4, Zenon DEF WithChain
  <2>7. y = h
    BY <2>5, <2>6
  <2> QED
    BY <1>0, <2>7, Zenon DEF Y
<1> QED
  BY <1>3, <1>4, Zenon

-----------------------------------------------------------------------------
\* The places where a key is found with a row id are those of the entry.
LEMMA FoundAre ==
  ASSUME NEW X, NEW h, NEW e, HashIs(h, e, X), NEW k \in HashKeys[h.type], NEW v \in RowIds,
         BucketOf(h.type, Written(h.type, k)) \notin X
  PROVE  {p \in HashSearchAll(h, k) : RowAt(h, k, p) = v} =
           Spots(h.dir[BucketOf(h.type, Written(h.type, k))], <<Written(h.type, k), v>>)
<1>3. h.type \in DOMAIN HashKeys
  BY Zenon DEF HashIs, IsHash
<1>4. PICK key : key = Written(h.type, k)
  BY Zenon
<1>5. PICK x : x = <<key, v>>
  BY Zenon
<1>6. BucketOf(h.type, key) \in Buckets /\ x \in Entries /\ x[1] = key
  BY <1>3, <1>4, <1>5, KeyIs
<1>7. PICK c : c = h.dir[BucketOf(h.type, key)]
  BY Zenon
<1>9. c \in Seq(Seq(Entries)) /\ c # Lost
  <2>1. c \in Seq(Seq(Entries))
    BY <1>4, <1>6, <1>7, Zenon DEF HashIs, IsHash
  <2> QED
    BY <2>1, NotLost
<1>10. HashSearchAll(h, k) = Places(c, key)
  BY <1>4, <1>7, <1>9, Zenon DEF HashSearchAll
<1>11. \A p : RowAt(h, k, p) = EntryAt(c, p)[2]
  BY <1>4, <1>7, Zenon DEF RowAt
<1>12. ASSUME NEW p
       PROVE  p \in Places(c, key) /\ EntryAt(c, p)[2] = v <=> p \in Spots(c, x)
  <2>1. ASSUME p \in Places(c, key), EntryAt(c, p)[2] = v
        PROVE  p \in Spots(c, x)
    <3>1. PICK i, j : p = <<i, j>> /\ i \in DOMAIN c /\ j \in DOMAIN c[i] /\ c[i][j][1] = key
      BY <2>1, PlaceIs
    <3>2. PICK z : z = c[i][j]
      BY Zenon
    <3>3. z \in WrittenKeys \X RowIds
      <4>1. PICK s : s = c[i] /\ s \in Seq(Entries)
        BY <1>9, <3>1, SMT
      <4>2. s[j] \in Entries
        BY <3>1, <4>1, SMT
      <4> QED
        BY <3>2, <4>1, <4>2, Zenon DEF Entries
    <3>4. z[1] = key /\ z[2] = v
      <4>1. p[1] = i /\ p[2] = j
        BY <3>1, SMT
      <4> QED
        BY <2>1, <3>1, <3>2, <4>1, Zenon DEF EntryAt
    <3>5. z = x
      BY <1>5, <3>3, <3>4, SMT
    <3>6. IsAt(c, i, j, x)
      BY <3>1, <3>2, <3>5, Zenon DEF IsAt
    <3> QED
      BY <3>1, <3>6, SpotIs
  <2>2. ASSUME p \in Spots(c, x)
        PROVE  p \in Places(c, key) /\ EntryAt(c, p)[2] = v
    <3>1. PICK i, j : p = <<i, j>> /\ IsAt(c, i, j, x)
      BY <2>2, SpotIs
    <3>2. i \in DOMAIN c /\ j \in DOMAIN c[i] /\ c[i][j] = x
      BY <3>1, Zenon DEF IsAt
    <3>3. p[1] = i /\ p[2] = j /\ x[1] = key /\ x[2] = v
      BY <1>5, <3>1, SMT
    <3>4. EntryAt(c, p) = x
      BY <3>2, <3>3, Zenon DEF EntryAt
    <3>5. c[i][j][1] = key
      BY <3>2, <3>3, Zenon
    <3>6. p \in Places(c, key)
      BY <3>1, <3>2, <3>5, PlaceIs
    <3> QED
      BY <3>3, <3>4, <3>6, Zenon
  <2> QED
    BY <2>1, <2>2, Zenon
<1>13. {p \in HashSearchAll(h, k) : RowAt(h, k, p) = v} = Spots(c, x)
  <2>1. PICK F : F = {p \in HashSearchAll(h, k) : RowAt(h, k, p) = v}
    BY Zenon
  <2>2. \A p : p \in F <=> p \in Places(c, key) /\ EntryAt(c, p)[2] = v
    BY <1>10, <1>11, <2>1, Zenon
  <2>3. \A p : p \in F <=> p \in Spots(c, x)
    BY <1>12, <2>2, Zenon
  <2>4. F = Spots(c, x)
    BY <2>3, Zenon
  <2> QED
    BY <2>1, <2>4, Zenon
<1> QED
  BY <1>4, <1>5, <1>7, <1>13, Zenon

\* The record f of what was asked for, beside the count e of what is there: there is
\* no less, and no more but for the keys L.
Follows(f, e, L, t, X) ==
  /\ f = [x \in DOMAIN f |-> f[x]]
  /\ \A x : CountOf(f, x) \in Nat
  /\ \A x \in Entries : BucketOf(t, x[1]) \in Buckets \ X =>
       CountOf(f, x) <= CountOf(e, x) /\ (x[1] \notin L => CountOf(f, x) = CountOf(e, x))

HashHolds(h, f, L, X) == \E e : HashIs(h, e, X) /\ Follows(f, e, L, h.type, X)

\* The bucket that may be lost.
Skipped == IF flushed THEN {ChecksumBucket} ELSE {}

\* The invariant of the hash index, and both.
HashInv == kind = "hash" => HashHolds(hash, expected, leftover, Skipped)

IndexInv == TextInv /\ HashInv

\* A count is a number.
LEMMA EntryCounts ==
  ASSUME NEW X, NEW h, NEW e, HashIs(h, e, X), NEW x \in Entries, BucketOf(h.type, x[1]) \in Buckets \ X
  PROVE  /\ CountOf(e, x) \in Nat
         /\ Cardinality(Spots(h.dir[BucketOf(h.type, x[1])], x)) = CountOf(e, x)
<1>1. IsCounted(h.dir[BucketOf(h.type, x[1])], e, x)
  BY Zenon DEF HashIs
<1> QED
  BY <1>1, FS_CardinalityType, Zenon DEF IsCounted

\* An entry that is inserted is one more of both,
LEMMA FollowsMore ==
  ASSUME NEW f, NEW e, NEW L, NEW t, NEW X, Follows(f, e, L, t, X), NEW x,
         NEW g, IsOneMoreOf(f, x, g), NEW d, IsOneMoreOf(e, x, d),
         \A y \in Entries : BucketOf(t, y[1]) \in Buckets \ X => CountOf(e, y) \in Nat
  PROVE  Follows(g, d, L, t, X)
<1>1. g = [z \in DOMAIN g |-> g[z]]
  BY Zenon DEF IsOneMoreOf
<1>2. ASSUME NEW y PROVE CountOf(g, y) \in Nat
  <2>1. CountOf(f, y) \in Nat
    BY Zenon DEF Follows
  <2>2. CountOf(g, y) = CountOf(f, y) \/ CountOf(g, y) = CountOf(f, y) + 1
    BY Zenon DEF IsOneMoreOf
  <2> QED
    BY <2>1, <2>2, SMT
<1>3. ASSUME NEW y \in Entries, BucketOf(t, y[1]) \in Buckets \ X
      PROVE  CountOf(g, y) <= CountOf(d, y) /\ (y[1] \notin L => CountOf(g, y) = CountOf(d, y))
  <2>1. PICK a, b : a = CountOf(f, y) /\ b = CountOf(e, y)
    BY Zenon
  <2>2. a \in Nat /\ b \in Nat /\ a <= b /\ (y[1] \notin L => a = b)
    BY <1>3, <2>1, Zenon DEF Follows
  <2>3. \/ CountOf(g, y) = a /\ CountOf(d, y) = b
        \/ CountOf(g, y) = a + 1 /\ CountOf(d, y) = b + 1
    BY <2>1, Zenon DEF IsOneMoreOf
  <2> QED
    BY <2>2, <2>3, SMT
<1> QED
  BY <1>1, <1>2, <1>3, Zenon DEF Follows

\* one that is removed is one less of both, unless there is none to be taken,
IsReduced(f, x, g) == g = IF CountOf(f, x) = 0 THEN f ELSE [f EXCEPT ![x] = f[x] - 1]

LEMMA FollowsLess ==
  ASSUME NEW f, NEW e, NEW L, NEW t, NEW X, Follows(f, e, L, t, X), NEW x,
         NEW g, IsReduced(f, x, g), NEW d, IsOneLessOf(e, x, d),
         \A y \in Entries : BucketOf(t, y[1]) \in Buckets \ X => CountOf(e, y) \in Nat /\ CountOf(d, y) \in Nat
  PROVE  Follows(g, d, L, t, X)
<1>1. f = [z \in DOMAIN f |-> f[z]] /\ \A y : CountOf(f, y) \in Nat
  BY Zenon DEF Follows
<1>2. CASE CountOf(f, x) = 0
  <2>1. g = f
    BY <1>2, Zenon DEF IsReduced
  <2>2. ASSUME NEW y \in Entries, BucketOf(t, y[1]) \in Buckets \ X
        PROVE  CountOf(g, y) <= CountOf(d, y) /\ (y[1] \notin L => CountOf(g, y) = CountOf(d, y))
    <3>1. PICK a, b, c : a = CountOf(f, y) /\ b = CountOf(e, y) /\ c = CountOf(d, y)
      BY Zenon
    <3>2. a \in Nat /\ b \in Nat /\ c \in Nat /\ a <= b /\ (y[1] \notin L => a = b)
      BY <2>2, <3>1, Zenon DEF Follows
    <3>3. CASE y # x
      <4>1. c = b
        BY <3>1, <3>3, Zenon DEF IsOneLessOf
      <4> QED
        BY <2>1, <3>1, <3>2, <4>1, Zenon
    <3>4. CASE y = x
      <4>1. a = 0
        BY <1>2, <3>1, <3>4, Zenon
      <4>2. x \in DOMAIN e => c = b - 1
        BY <3>1, <3>4, Zenon DEF IsOneLessOf
      <4>3. x \notin DOMAIN e => b = 0
        BY <3>1, <3>4, Zenon DEF CountOf
      <4>4. 0 <= c /\ (a = b => x \notin DOMAIN e)
        BY <3>2, <4>1, <4>2, SMT
      <4>5. x \notin DOMAIN e => c = 0
        BY <3>1, <3>4, Zenon DEF IsOneLessOf
      <4> QED
        BY <2>1, <3>1, <3>2, <4>1, <4>4, <4>5, Zenon
    <3> QED
      BY <3>3, <3>4, Zenon
  <2> QED
    BY <1>1, <2>1, <2>2, Zenon DEF Follows
<1>3. CASE CountOf(f, x) # 0
  <2>1. x \in DOMAIN f /\ g = [f EXCEPT ![x] = f[x] - 1]
    BY <1>3, Zenon DEF IsReduced, CountOf
  <2>2. IsOneLessOf(f, x, g)
    BY <1>1, <2>1, WithOneLess
  <2>3. ASSUME NEW y PROVE CountOf(g, y) \in Nat
    <3>1. CountOf(f, y) \in Nat
      BY <1>1, Zenon
    <3>2. CASE y # x
      BY <2>2, <3>1, <3>2, Zenon DEF IsOneLessOf
    <3>3. CASE y = x
      <4>1. CountOf(g, y) = CountOf(f, y) - 1 /\ CountOf(f, y) # 0
        BY <1>3, <2>1, <2>2, <3>3, Zenon DEF IsOneLessOf
      <4> QED
        BY <3>1, <4>1, SMT
    <3> QED
      BY <3>2, <3>3, Zenon
  <2>4. ASSUME NEW y \in Entries, BucketOf(t, y[1]) \in Buckets \ X
        PROVE  CountOf(g, y) <= CountOf(d, y) /\ (y[1] \notin L => CountOf(g, y) = CountOf(d, y))
    <3>1. PICK a, b : a = CountOf(f, y) /\ b = CountOf(e, y)
      BY Zenon
    <3>2. a \in Nat /\ b \in Nat /\ a <= b /\ (y[1] \notin L => a = b)
      BY <2>4, <3>1, Zenon DEF Follows
    <3>3. CASE y # x
      <4>1. CountOf(g, y) = a /\ CountOf(d, y) = b
        BY <2>2, <3>1, <3>3, Zenon DEF IsOneLessOf
      <4> QED
        BY <3>2, <4>1, Zenon
    <3>4. CASE y = x
      <4>1. a # 0 /\ CountOf(g, y) = a - 1
        BY <1>3, <2>1, <2>2, <3>1, <3>4, Zenon DEF IsOneLessOf
      <4>2. b # 0
        BY <3>2, <4>1, SMT
      <4>3. x \in DOMAIN e
        BY <3>1, <3>4, <4>2, Zenon DEF CountOf
      <4>4. CountOf(d, y) = b - 1
        BY <3>1, <3>4, <4>3, Zenon DEF IsOneLessOf
      <4> QED
        BY <3>2, <4>1, <4>4, SMT
    <3> QED
      BY <3>3, <3>4, Zenon
  <2>5. g = [z \in DOMAIN g |-> g[z]]
    BY <2>2, Zenon DEF IsOneLessOf
  <2> QED
    BY <2>3, <2>4, <2>5, Zenon DEF Follows
<1> QED
  BY <1>2, <1>3, Zenon

\* and when all of a key are to go there is none left, or the key is one of L.
IsForgotten(f, key, g) == g = [x \in DOMAIN f |-> IF x[1] = key THEN 0 ELSE f[x]]

LEMMA FollowsNone ==
  ASSUME NEW f, NEW e, NEW L, NEW t, NEW X, Follows(f, e, L, t, X), NEW key, NEW x, x[1] = key,
         NEW g, IsForgotten(f, key, g), NEW d, IsOneLessOf(e, x, d), NEW M, L \subseteq M,
         \A y \in Entries : BucketOf(t, y[1]) \in Buckets \ X =>
           CountOf(d, y) \in Nat /\ (y[1] = key /\ key \notin M => CountOf(d, y) = 0)
  PROVE  Follows(g, d, M, t, X)
<1>1. g = [z \in DOMAIN g |-> g[z]] /\ DOMAIN g = DOMAIN f
  BY Zenon DEF IsForgotten
<1>2. \A y : CountOf(g, y) = IF y[1] = key THEN 0 ELSE CountOf(f, y)
  BY Zenon DEF IsForgotten, CountOf
<1>3. \A y : CountOf(g, y) \in Nat
  <2>1. \A y : CountOf(f, y) \in Nat
    BY Zenon DEF Follows
  <2>2. 0 \in Nat
    BY SMT
  <2> QED
    BY <1>2, <2>1, <2>2, Zenon
<1>4. ASSUME NEW y \in Entries, BucketOf(t, y[1]) \in Buckets \ X
      PROVE  CountOf(g, y) <= CountOf(d, y) /\ (y[1] \notin M => CountOf(g, y) = CountOf(d, y))
  <2>1. CASE y[1] = key
    <3>1. PICK c : c = CountOf(d, y)
      BY Zenon
    <3>2. c \in Nat /\ CountOf(g, y) = 0 /\ (key \notin M => c = 0)
      BY <1>2, <1>4, <2>1, <3>1, Zenon
    <3>3. 0 <= c
      BY <3>2, SMT
    <3> QED
      BY <2>1, <3>1, <3>2, <3>3, Zenon
  <2>2. CASE y[1] # key
    <3>1. CountOf(d, y) = CountOf(e, y)
      BY <2>2, Zenon DEF IsOneLessOf
    <3>2. CountOf(g, y) = CountOf(f, y)
      BY <1>2, <2>2, Zenon
    <3>3. CountOf(f, y) <= CountOf(e, y) /\ (y[1] \notin L => CountOf(f, y) = CountOf(e, y))
      BY <1>4, Zenon DEF Follows
    <3> QED
      BY <3>1, <3>2, <3>3, Zenon
  <2> QED
    BY <2>1, <2>2, Zenon
<1> QED
  BY <1>1, <1>3, <1>4, Zenon DEF Follows

\* The property of the hash index follows from its invariant.
LEMMA RowsFollow == HashInv => HashFindsAllRows
<1> SUFFICES ASSUME HashInv, kind = "hash", NEW k \in HashKeys[hash.type], NEW v \in RowIds,
                    ~(flushed /\ BucketOf(hash.type, Written(hash.type, k)) = ChecksumBucket),
                    NEW n, n = Cardinality({p \in HashSearchAll(hash, k) : RowAt(hash, k, p) = v})
             PROVE  IF Written(hash.type, k) \in leftover THEN n >= Count(<<Written(hash.type, k), v>>)
                    ELSE n = Count(<<Written(hash.type, k), v>>)
  BY Zenon DEF HashFindsAllRows
<1>1. PICK h, f, L, X : h = hash /\ f = expected /\ L = leftover /\ X = Skipped
  BY Zenon
<1>2. PICK e : HashIs(h, e, X) /\ Follows(f, e, L, h.type, X)
  BY <1>1, Zenon DEF HashInv, HashHolds
<1>3. PICK key, x : key = Written(h.type, k) /\ x = <<key, v>>
  BY Zenon
<1>4. h.type \in DOMAIN HashKeys
  BY <1>2, Zenon DEF HashIs, IsHash
<1>5. BucketOf(h.type, key) \in Buckets /\ x \in Entries /\ x[1] = key
  BY <1>1, <1>3, <1>4, KeyIs
<1>6. BucketOf(h.type, key) \notin X
  BY <1>1, <1>3, Zenon DEF Skipped
<1>7. {p \in HashSearchAll(h, k) : RowAt(h, k, p) = v} = Spots(h.dir[BucketOf(h.type, key)], x)
  BY <1>1, <1>2, <1>3, <1>6, FoundAre
<1>8. BucketOf(h.type, x[1]) \in Buckets \ X
  BY <1>5, <1>6, Zenon
<1>9. CountOf(e, x) \in Nat /\ Cardinality(Spots(h.dir[BucketOf(h.type, x[1])], x)) = CountOf(e, x)
  BY <1>2, <1>5, <1>8, EntryCounts
<1>10. n = CountOf(e, x)
  BY <1>1, <1>5, <1>7, <1>9, Zenon
<1>11. /\ CountOf(f, x) <= CountOf(e, x) /\ (key \notin L => CountOf(f, x) = CountOf(e, x))
       /\ CountOf(f, x) \in Nat
  BY <1>2, <1>5, <1>8, Zenon DEF Follows
<1>12. Count(x) = CountOf(f, x)
  BY <1>1, Zenon DEF Count, CountOf
<1>13. Count(x) <= n /\ (key \notin L => n = Count(x)) /\ Count(x) \in Nat /\ n \in Nat
  BY <1>9, <1>10, <1>11, <1>12, Zenon
<1>14. n >= Count(x)
  BY <1>13, SMT
<1> QED
  BY <1>1, <1>3, <1>13, <1>14, Zenon

-----------------------------------------------------------------------------
\* An index starts empty.
LEMMA IndexInit == Init => IndexInv
<1> SUFFICES ASSUME Init PROVE IndexInv
  BY Zenon
<1>1. PICK z : z = <<>>
  BY Zenon
<1>2. DOMAIN z = {} /\ z \in Seq(Seq(Entries)) /\ z = [i \in DOMAIN z |-> z[i]]
  BY <1>1, SMT
<1>3. ASSUME kind = "fulltext"
      PROVE  TextIs(text, expected) /\ updating \in [Threads -> {<<>>} \cup Documents \X Texts]
  <2>1. expected = z /\ text = EmptyText /\ updating = IdleThreads
    BY <1>1, <1>3, SMT DEF Init
  <2>2. PICK n, b : n = 0 /\ b = TRUE
    BY Zenon
  <2>3. text = [index |-> z, docLengths |-> z, totalDocuments |-> n, ok |-> b]
    BY <1>1, <2>1, <2>2, Zenon DEF EmptyText
  <2>4. text.index = z /\ text.docLengths = z /\ text.totalDocuments = n /\ IsText(text)
    BY <2>3, TextRecord
  <2>5. KnownDocs(z) = {} /\ AreTexts(z)
    BY <1>2, Zenon DEF KnownDocs, AreTexts
  <2>6. IsFiniteSet(KnownDocs(z)) /\ Cardinality(KnownDocs(z)) = 0
    BY <2>5, FS_EmptySet, Zenon
  <2>7. \A d, term : ~HasTerm(z, d, term)
    BY <2>5, Zenon DEF HasTerm
  <2>8. TextIs(text, z)
    BY <1>2, <2>2, <2>4, <2>5, <2>6, <2>7, Zenon DEF TextIs
  <2>9. updating \in [Threads -> {<<>>} \cup Documents \X Texts]
    BY <2>1, Zenon DEF IdleThreads
  <2> QED
    BY <2>1, <2>8, <2>9, Zenon
<1>4. ASSUME kind = "hash"
      PROVE  HashHolds(hash, expected, leftover, Skipped)
  <2>0. PICK X : X = Skipped
    BY Zenon
  <2>1. expected = z /\ \E t \in DOMAIN HashKeys : hash = EmptyHash(t)
    BY <1>1, <1>4, SMT DEF Init
  <2>2. PICK t \in DOMAIN HashKeys : hash = EmptyHash(t)
    BY <2>1, Zenon
  <2>3. PICK d, o, w : d = [b \in Buckets |-> z] /\ o = TRUE /\ w = "none"
    BY Zenon
  <2>4. hash = [type |-> t, dir |-> d, ok |-> o, fault |-> w]
    BY <1>1, <2>2, <2>3, Zenon DEF EmptyHash
  <2>5. /\ hash.type = t /\ hash.dir = d
        /\ hash = [type |-> hash.type, dir |-> hash.dir, ok |-> hash.ok, fault |-> hash.fault]
    BY <2>4, HashRecord, Zenon
  <2>6. d = [b \in Buckets |-> d[b]] /\ \A b \in Buckets : d[b] = z
    BY <2>3, Zenon
  <2>7. IsHash(hash, X)
    BY <1>2, <2>5, <2>6, Zenon DEF IsHash
  <2>8. ASSUME NEW x
        PROVE  IsCounted(z, z, x)
    <3>1. \A p : p \notin Spots(z, x)
      BY <1>2, Zenon DEF Spots
    <3>2. Spots(z, x) = {}
      BY <3>1, Zenon
    <3>3. CountOf(z, x) = 0
      BY <1>2, Zenon DEF CountOf
    <3> QED
      BY <3>2, <3>3, FS_EmptySet, Zenon DEF IsCounted
  <2>9. HashIs(hash, z, X)
    BY <1>2, <2>5, <2>6, <2>7, <2>8, Zenon DEF HashIs
  <2>10. Follows(z, z, leftover, hash.type, X)
    <3>1. \A x : CountOf(z, x) = 0
      BY <1>2, Zenon DEF CountOf
    <3>2. 0 \in Nat /\ 0 <= 0
      BY SMT
    <3>3. z = [x \in DOMAIN z |-> z[x]]
      BY <1>2, Zenon
    <3> QED
      BY <3>1, <3>2, <3>3, Zenon DEF Follows
  <2> QED
    BY <2>0, <2>1, <2>9, <2>10, Zenon DEF HashHolds
<1> QED
  BY <1>3, <1>4, Zenon DEF IndexInv, TextInv, HashInv

\* A full-text index that stays the index of its texts.
LEMMA TextStep ==
  ASSUME kind' = "fulltext", TextIs(text', expected'),
         updating' \in [Threads -> {<<>>} \cup Documents \X Texts]
  PROVE  IndexInv'
<1>1. kind' # "hash"
  BY SMT
<1> QED
  BY <1>1, Zenon DEF IndexInv, TextInv, HashInv

\* A hash index that keeps its entries.
LEMMA HashStep ==
  ASSUME kind' = "hash", HashHolds(hash', expected', leftover', Skipped')
  PROVE  IndexInv'
<1>1. kind' # "fulltext"
  BY SMT
<1> QED
  BY <1>1, Zenon DEF IndexInv, TextInv, HashInv

\* Nothing is said here of a tree.
LEMMA TreeStep ==
  ASSUME kind = "btree", kind' = kind
  PROVE  IndexInv'
<1>1. kind' # "fulltext" /\ kind' # "hash"
  BY SMT
<1> QED
  BY <1>1, Zenon DEF IndexInv, TextInv, HashInv

\* InsertEntry, HashIndex::insert, preserves the invariant,
LEMMA InsertEntryStep ==
  ASSUME IndexInv, NEW k, NEW v \in RowIds, InsertEntry(k, v)
  PROVE  IndexInv'
<1>1. kind = "hash" /\ kind' = "hash" /\ k \in HashKeys[hash.type] /\ UNCHANGED <<leftover, flushed>>
  BY Zenon DEF InsertEntry, Operation, hashHistory
<1>2. PICK h, f, L, X, y : h = hash /\ f = expected /\ L = leftover /\ X = Skipped /\ y = hash'
  BY Zenon
<1>3. PICK e : HashIs(h, e, X) /\ Follows(f, e, L, h.type, X)
  BY <1>1, <1>2, Zenon DEF IndexInv, HashInv, HashHolds
<1>4. PICK x, d, g : /\ x = <<Written(h.type, k), v>>
                     /\ d = With(e, x, CountOf(e, x) + 1) /\ g = With(f, x, CountOf(f, x) + 1)
  BY Zenon
<1>5. y = HashInsert(h, k, v) /\ expected' = IF y.ok THEN g ELSE f
  BY <1>2, <1>4, Zenon DEF InsertEntry, Count, CountOf
<1>6. HashIs(y, IF y.ok THEN d ELSE e, X) /\ y.type = h.type
  <2>1. HashIs(y, IF y.ok THEN With(e, x, CountOf(e, x) + 1) ELSE e, X) /\ y.type = h.type
    BY <1>1, <1>2, <1>3, <1>4, <1>5, HashInsertKeeps
  <2> QED
    BY <1>4, <2>1, Zenon
<1>7. Skipped' = X /\ leftover' = L
  BY <1>1, <1>2, Zenon DEF Skipped
<1>8. Follows(g, d, L, h.type, X)
  <2>1. IsOneMoreOf(f, x, g) /\ IsOneMoreOf(e, x, d)
    BY <1>4, WithOneMore
  <2>2. \A z \in Entries : BucketOf(h.type, z[1]) \in Buckets \ X => CountOf(e, z) \in Nat
    BY <1>3, EntryCounts
  <2> QED
    BY <1>3, <2>1, <2>2, FollowsMore
<1>9. HashHolds(y, expected', L, X)
  BY <1>3, <1>5, <1>6, <1>8, Zenon DEF HashHolds
<1> QED
  BY <1>1, <1>2, <1>7, <1>9, HashStep, Zenon

\* RemoveEntry, HashIndex::remove,
LEMMA RemoveEntryStep ==
  ASSUME IndexInv, NEW k, NEW v, RemoveEntry(k, v)
  PROVE  IndexInv'
<1>1. kind = "hash" /\ kind' = "hash" /\ k \in HashKeys[hash.type] /\ UNCHANGED flushed
  BY Zenon DEF RemoveEntry, Operation
<1>2. PICK h, f, L, X, y : h = hash /\ f = expected /\ L = leftover /\ X = Skipped /\ y = hash'
  BY Zenon
<1>3. PICK e : HashIs(h, e, X) /\ Follows(f, e, L, h.type, X)
  BY <1>1, <1>2, Zenon DEF IndexInv, HashInv, HashHolds
<1>4. PICK key, x : key = Written(h.type, k) /\ x = <<key, GoneRow(h, k, v)>>
  BY Zenon
<1>5. y = HashRemove(h, k, v) /\ Skipped' = X
  <2>1. hash' = HashRemove(hash, k, v)
    BY Zenon DEF RemoveEntry
  <2>2. Skipped' = Skipped
    BY <1>1, Zenon DEF Skipped
  <2> QED
    BY <1>2, <2>1, <2>2, Zenon
<1>6. PICK d : d = [e EXCEPT ![x] = e[x] - 1]
  BY Zenon
<1>7. HashIs(y, IF y.ok THEN d ELSE e, X) /\ y.type = h.type
  <2>1. HashIs(y, IF y.ok THEN [e EXCEPT ![x] = e[x] - 1] ELSE e, X) /\ y.type = h.type
    BY <1>1, <1>2, <1>3, <1>4, <1>5, HashRemoveKeeps
  <2> QED
    BY <1>6, <2>1, Zenon
<1>8. CASE ~y.ok
  <2>1. expected' = f /\ leftover' = L
    BY <1>2, <1>8, Zenon DEF RemoveEntry
  <2>2. HashHolds(y, f, L, X)
    BY <1>3, <1>7, <1>8, Zenon DEF HashHolds
  <2> QED
    BY <1>1, <1>2, <1>5, <2>1, <2>2, HashStep, Zenon
<1>9. CASE y.ok
  <2>1. HashIs(y, d, X)
    BY <1>7, <1>9, Zenon
  <2>2. IsOneLessOf(e, x, d) /\ x[1] = key
    <3>1. e = [z \in DOMAIN e |-> e[z]]
      BY <1>3, Zenon DEF HashIs
    <3>2. IsOneLessOf(e, x, d)
      BY <1>6, <3>1, WithOneLess
    <3>3. x[1] = key
      BY <1>4, SMT
    <3> QED
      BY <3>2, <3>3, Zenon
  <2>3. \A z \in Entries : BucketOf(h.type, z[1]) \in Buckets \ X => CountOf(e, z) \in Nat
    BY <1>3, EntryCounts
  <2>4. \A z \in Entries : BucketOf(h.type, z[1]) \in Buckets \ X => CountOf(d, z) \in Nat
    <3>1. \A z \in Entries : BucketOf(y.type, z[1]) \in Buckets \ X => CountOf(d, z) \in Nat
      BY <2>1, EntryCounts
    <3> QED
      BY <1>7, <3>1, Zenon
  <2>5. Follows(expected', d, leftover', h.type, X)
    <3>1. CASE v # AnyRow
      <4>1. expected' = Reduced(<<key, v>>) /\ leftover' = L /\ x = <<key, v>>
        BY <1>2, <1>4, <1>9, <3>1, Zenon DEF RemoveEntry, GoneRow
      <4>2. IsReduced(f, x, expected')
        BY <1>2, <4>1, Zenon DEF Reduced, IsReduced, Count, CountOf
      <4>3. PICK g : g = expected'
        BY Zenon
      <4>4. Follows(g, d, L, h.type, X)
        BY <1>3, <2>2, <2>3, <2>4, <4>2, <4>3, FollowsLess
      <4> QED
        BY <4>1, <4>3, <4>4, Zenon
    <3>2. CASE v = AnyRow
      <4>1. PICK g, M : g = expected' /\ M = leftover'
        BY Zenon
      <4>2. IsForgotten(f, key, g)
        BY <1>2, <1>4, <1>9, <3>2, <4>1, Zenon DEF RemoveEntry, Forgotten, IsForgotten
      <4>3. M = IF HashSearchAll(y, k) # {} THEN L \cup {key} ELSE L
        BY <1>2, <1>4, <1>9, <3>2, <4>1, Zenon DEF RemoveEntry
      <4>4. ASSUME NEW z \in Entries, BucketOf(h.type, z[1]) \in Buckets \ X, z[1] = key, key \notin M
            PROVE  CountOf(d, z) = 0
        <5>1. HashSearchAll(y, k) = {}
          BY <4>3, <4>4, Zenon
        <5>2. z \in WrittenKeys \X RowIds
          BY Zenon DEF Entries
        <5>3. PICK u \in RowIds : z = <<key, u>>
          BY <4>4, <5>2, SMT
        <5>4. key = Written(y.type, k) /\ k \in HashKeys[y.type] /\ BucketOf(y.type, key) \in Buckets \ X
          BY <1>1, <1>2, <1>4, <1>7, <4>4, Zenon
        <5>5. {p \in HashSearchAll(y, k) : RowAt(y, k, p) = u} = Spots(y.dir[BucketOf(y.type, key)], <<key, u>>)
          BY <2>1, <5>4, FoundAre
        <5>6. Spots(y.dir[BucketOf(y.type, z[1])], z) = {}
          BY <4>4, <5>1, <5>3, <5>5, Zenon
        <5>7. Cardinality(Spots(y.dir[BucketOf(y.type, z[1])], z)) = CountOf(d, z)
          <6>1. BucketOf(y.type, z[1]) \in Buckets \ X
            BY <1>7, <4>4, Zenon
          <6> QED
            BY <2>1, <6>1, EntryCounts
        <5> QED
          BY <5>6, <5>7, FS_EmptySet, Zenon
      <4>5. L \subseteq M
        BY <4>3, Zenon
      <4>6. \A z \in Entries : BucketOf(h.type, z[1]) \in Buckets \ X =>
              CountOf(d, z) \in Nat /\ (z[1] = key /\ key \notin M => CountOf(d, z) = 0)
        BY <2>4, <4>4, Zenon
      <4>7. Follows(g, d, M, h.type, X)
        BY <1>3, <2>2, <4>2, <4>5, <4>6, FollowsNone
      <4> QED
        BY <4>1, <4>7, Zenon
    <3> QED
      BY <3>1, <3>2, Zenon
  <2>6. HashHolds(y, expected', leftover', X)
    BY <1>7, <2>1, <2>5, Zenon DEF HashHolds
  <2> QED
    BY <1>1, <1>2, <1>5, <2>6, HashStep, Zenon
<1> QED
  BY <1>8, <1>9, Zenon

\* LookUp, HashIndex::search and searchAll,
LEMMA LookUpStep ==
  ASSUME IndexInv, NEW k, LookUp(k)
  PROVE  IndexInv'
<1>1. /\ kind = "hash" /\ kind' = "hash" /\ k \in HashKeys[hash.type]
      /\ UNCHANGED <<expected, leftover, flushed>>
  BY Zenon DEF LookUp, Operation, hashHistory
<1>2. PICK h, X, y : h = hash /\ X = Skipped /\ y = hash'
  BY Zenon
<1>3. PICK e : HashIs(h, e, X) /\ Follows(expected, e, leftover, h.type, X)
  BY <1>1, <1>2, Zenon DEF IndexInv, HashInv, HashHolds
<1>4. k \in HashKeys[h.type] /\ y = HashLookup(h, k) /\ Skipped' = X
  BY <1>1, <1>2, Zenon DEF LookUp, Skipped
<1>5. HashIs(y, e, X) /\ y.type = h.type
  BY <1>3, <1>4, HashLookupKeeps
<1>6. HashHolds(y, expected, leftover, X)
  BY <1>3, <1>5, Zenon DEF HashHolds
<1> QED
  BY <1>1, <1>2, <1>4, <1>6, HashStep, Zenon

\* Flush, the directory page that is written,
LEMMA FlushStep ==
  ASSUME IndexInv, Flush
  PROVE  IndexInv'
<1>1. kind = "hash" /\ kind' = "hash" /\ UNCHANGED <<expected, leftover>> /\ flushed' = TRUE
  BY Zenon DEF Flush, Operation
<1>2. PICK h, X, y : h = hash /\ X = Skipped /\ y = hash'
  BY Zenon
<1>3. PICK e : HashIs(h, e, X) /\ Follows(expected, e, leftover, h.type, X)
  BY <1>1, <1>2, Zenon DEF IndexInv, HashInv, HashHolds
<1>4. PICK Y : Y = X \cup {ChecksumBucket}
  BY Zenon
<1>5. y = FlushDirectory(h) /\ Skipped' = Y
  <2>1. Skipped' = {ChecksumBucket}
    BY <1>1, Zenon DEF Skipped
  <2>2. X \subseteq {ChecksumBucket}
    BY <1>2, Zenon DEF Skipped
  <2>3. Y = {ChecksumBucket}
    BY <1>4, <2>2, Zenon
  <2> QED
    BY <1>2, <2>1, <2>3, Zenon DEF Flush
<1>6. HashIs(y, e, Y) /\ y.type = h.type
  BY <1>3, <1>4, <1>5, FlushKeeps, Zenon
<1>7. Follows(expected, e, leftover, h.type, Y)
  BY <1>3, <1>4, Zenon DEF Follows
<1>8. HashHolds(y, expected, leftover, Y)
  BY <1>6, <1>7, Zenon DEF HashHolds
<1> QED
  BY <1>1, <1>2, <1>5, <1>8, HashStep, Zenon

\* InsertDocument, InvertedIndex::insert,
LEMMA InsertDocumentStep ==
  ASSUME IndexInv, NEW d \in Documents, NEW t \in Texts, InsertDocument(d, t)
  PROVE  IndexInv'
<1>1. kind = "fulltext" /\ kind' = "fulltext" /\ updating' = updating
  BY Zenon DEF InsertDocument, Operation
<1>2. PICK x, e, y : x = text /\ e = expected /\ y = text'
  BY Zenon
<1>3. TextIs(x, e) /\ updating' \in [Threads -> {<<>>} \cup Documents \X Texts]
  BY <1>1, <1>2, Zenon DEF IndexInv, TextInv
<1>4. y = TextInsert(x, d, t) /\ expected' = IF y.ok THEN With(e, d, t) ELSE e
  BY <1>2, Zenon DEF InsertDocument
<1>5. TextIs(y, IF y.ok THEN With(e, d, t) ELSE e)
  BY <1>3, <1>4, TextInsertKeeps
<1>6. TextIs(text', expected')
  BY <1>2, <1>4, <1>5, Zenon
<1> QED
  BY <1>1, <1>3, <1>6, TextStep

\* RemoveDocument, InvertedIndex::remove,
LEMMA RemoveDocumentStep ==
  ASSUME IndexInv, NEW d \in Documents, RemoveDocument(d)
  PROVE  IndexInv'
<1>1. kind = "fulltext" /\ kind' = "fulltext" /\ updating' = updating
  BY Zenon DEF RemoveDocument, Operation
<1>2. PICK x, e, y : x = text /\ e = expected /\ y = text'
  BY Zenon
<1>3. TextIs(x, e) /\ updating' \in [Threads -> {<<>>} \cup Documents \X Texts]
  BY <1>1, <1>2, Zenon DEF IndexInv, TextInv
<1>4. y = TextRemove(x, d) /\ expected' = IF y.ok THEN Without(e, d) ELSE e
  BY <1>2, Zenon DEF RemoveDocument
<1>5. TextIs(y, IF y.ok THEN Without(e, d) ELSE e)
  BY <1>3, <1>4, TextRemoveKeeps
<1>6. TextIs(text', expected')
  BY <1>2, <1>4, <1>5, Zenon
<1> QED
  BY <1>1, <1>3, <1>6, TextStep

\* BeginUpdate, the first half of InvertedIndex::update,
LEMMA BeginUpdateStep ==
  ASSUME IndexInv, NEW h \in Threads, NEW d \in Documents, NEW t \in Texts, BeginUpdate(h, d, t)
  PROVE  IndexInv'
<1>1. kind = "fulltext" /\ kind' = "fulltext" /\ updating' = [updating EXCEPT ![h] = <<d, t>>]
  BY Zenon DEF BeginUpdate, Operation
<1>2. PICK x, e, y : x = text /\ e = expected /\ y = text'
  BY Zenon
<1>3. TextIs(x, e) /\ updating \in [Threads -> {<<>>} \cup Documents \X Texts]
  BY <1>1, <1>2, Zenon DEF IndexInv, TextInv
<1>4. updating' \in [Threads -> {<<>>} \cup Documents \X Texts]
  <2>1. <<d, t>> \in Documents \X Texts
    BY SMT
  <2> QED
    BY <1>1, <1>3, <2>1, Zenon
<1>5. y = TextRemove(x, d) /\ expected' = IF y.ok THEN Without(e, d) ELSE e
  BY <1>2, Zenon DEF BeginUpdate
<1>6. TextIs(y, IF y.ok THEN Without(e, d) ELSE e)
  BY <1>3, <1>5, TextRemoveKeeps
<1>7. TextIs(text', expected')
  BY <1>2, <1>5, <1>6, Zenon
<1> QED
  BY <1>1, <1>4, <1>7, TextStep

\* and EndUpdate, the other half, with whatever ran in between.
LEMMA EndUpdateStep ==
  ASSUME IndexInv, NEW h \in Threads, EndUpdate(h)
  PROVE  IndexInv'
<1>1. kind = "fulltext" /\ kind' = "fulltext" /\ updating' = [updating EXCEPT ![h] = <<>>]
  BY Zenon DEF EndUpdate
<1>2. PICK x, e, y, d, t : x = text /\ e = expected /\ y = text' /\ d = updating[h][1] /\ t = updating[h][2]
  BY Zenon
<1>3. TextIs(x, e) /\ updating \in [Threads -> {<<>>} \cup Documents \X Texts]
  BY <1>1, <1>2, Zenon DEF IndexInv, TextInv
<1>4. updating' \in [Threads -> {<<>>} \cup Documents \X Texts]
  BY <1>1, <1>3, Zenon
<1>5. d \in Documents /\ t \in Texts
  <2>1. updating[h] \in Documents \X Texts
    BY <1>3, Zenon DEF EndUpdate
  <2> QED
    BY <1>2, <2>1, SMT
<1>6. y = TextInsert(x, d, t) /\ expected' = IF y.ok THEN With(e, d, t) ELSE e
  BY <1>2, Zenon DEF EndUpdate
<1>7. TextIs(y, IF y.ok THEN With(e, d, t) ELSE e)
  BY <1>3, <1>5, <1>6, TextInsertKeeps
<1>8. TextIs(text', expected')
  BY <1>2, <1>6, <1>7, Zenon
<1> QED
  BY <1>1, <1>4, <1>8, TextStep

\* Every step preserves the invariant.
LEMMA IndexStep == IndexInv /\ [Next]_vars => IndexInv'
<1> SUFFICES ASSUME IndexInv, [Next]_vars PROVE IndexInv'
  BY Zenon
<1>1. ASSUME NEW k, InsertKey(k) PROVE IndexInv'
  <2>1. kind = "btree" /\ kind' = kind
    BY <1>1, Zenon DEF InsertKey, Operation
  <2> QED
    BY <2>1, TreeStep
<1>2. ASSUME NEW k, RemoveKey(k) PROVE IndexInv'
  <2>1. kind = "btree" /\ kind' = kind
    BY <1>2, Zenon DEF RemoveKey, Operation
  <2> QED
    BY <2>1, TreeStep
<1>3. ASSUME NEW k, NEW v \in RowIds, InsertEntry(k, v) PROVE IndexInv'
  BY <1>3, InsertEntryStep
<1>4. ASSUME NEW k, NEW v, RemoveEntry(k, v) PROVE IndexInv'
  BY <1>4, RemoveEntryStep
<1>5. ASSUME NEW k, LookUp(k) PROVE IndexInv'
  BY <1>5, LookUpStep
<1>6. CASE Flush
  BY <1>6, FlushStep
<1>7. ASSUME NEW d \in Documents, NEW t \in Texts, InsertDocument(d, t) PROVE IndexInv'
  BY <1>7, InsertDocumentStep
<1>8. ASSUME NEW d \in Documents, RemoveDocument(d) PROVE IndexInv'
  BY <1>8, RemoveDocumentStep
<1>9. ASSUME NEW h \in Threads, NEW d \in Documents, NEW t \in Texts, BeginUpdate(h, d, t) PROVE IndexInv'
  BY <1>9, BeginUpdateStep
<1>10. ASSUME NEW h \in Threads, EndUpdate(h) PROVE IndexInv'
  BY <1>10, EndUpdateStep
<1>11. CASE UNCHANGED vars
  BY <1>11, Zenon DEF vars, hashHistory, IndexInv, TextInv, HashInv, Skipped
<1> QED
  BY <1>1, <1>2, <1>3, <1>4, <1>5, <1>6, <1>7, <1>8, <1>9, <1>10, <1>11, Zenon DEF Next

\* Every reachable state of an index satisfies the invariant.
THEOREM IndexInvariance == Spec => []IndexInv
BY IndexInit, IndexStep, PTL DEF Spec

\* The hash index finds a key with every row id inserted for it and not removed, as
\* often as it was inserted.  It finds more where a removal of all entries left some.
\* Nothing is said of the bucket under the checksum of a directory page that was
\* written, nor when a call strayed from there into another page.
THEOREM RowsAreAlwaysFound == Spec => []HashFindsAllRows
BY IndexInvariance, RowsFollow, PTL DEF IndexInv

\* The posting lists of the full-text index are those of the texts that the
\* documents have, however insertions, removals and the halves of updates interleave.
THEOREM PostingsAlwaysMatch == Spec => []PostingsMatchTexts
BY IndexInvariance, PostingsFollow, PTL DEF IndexInv

\* MATCH finds exactly the documents with one of the words, or with all of them.
THEOREM SearchesAlwaysAgree == Spec => []SearchesAgree
BY IndexInvariance, SearchesFollow, PTL DEF IndexInv
=============================================================================
