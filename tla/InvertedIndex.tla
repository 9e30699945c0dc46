--------------------------- MODULE InvertedIndex ---------------------------
(***************************************************************************)
(* The full-text index of src/src/index/inverted_index.cpp and the         *)
(* tokenizer it uses (tokenizer.cpp), as operators on a record of the      *)
(* posting lists, the document lengths and the document count.             *)
(*                                                                         *)
(* A text is a sequence of words, a word a record: script is "english",    *)
(* "chinese" or "other" (digits and marks, which no tokenizer keeps), term *)
(* its normalised form (trimmed, lower case).  Scores are left out: they   *)
(* order the results and are real numbers.                                 *)
(***************************************************************************)
EXTENDS Integers, Sequences, FiniteSets, FiniteSetsExt

CONSTANTS
  Mode,     \* Tokenizer::Mode: "ENGLISH", "CHINESE" or "MIXED"
  StopWords \* stopWords_, empty when enableStopWords_ is off

EmptyText ==
  [index |-> <<>>, docLengths |-> <<>>, totalDocuments |-> 0, ok |-> TRUE]

-----------------------------------------------------------------------------
\* tokenizeEnglish and tokenizeChinese.
TokensOf(script, text) ==
  LET kept == SelectSeq(text, LAMBDA w : w.script = script /\ w.term \notin StopWords)
  IN [i \in DOMAIN kept |-> kept[i].term]

\* tokenizeWithDuplicates; tokenizeMixed has the English words first.
tokenizeWithDuplicates(text) ==
  IF Mode = "ENGLISH" THEN TokensOf("english", text)
  ELSE IF Mode = "CHINESE" THEN TokensOf("chinese", text)
  ELSE TokensOf("english", text) \o TokensOf("chinese", text)

tokenize(text) == Range(tokenizeWithDuplicates(text))

Occurrences(term, tokens) == Cardinality({i \in DOMAIN tokens : tokens[i] = term})

-----------------------------------------------------------------------------
\* A map with one more entry, or a replaced one, and without an entry.
With(f, k, v) == [x \in DOMAIN f \cup {k} |-> IF x = k THEN v ELSE f[x]]

Without(f, k) == [x \in DOMAIN f \ {k} |-> f[x]]

Postings(x, term) == IF term \in DOMAIN x.index THEN x.index[term].postings ELSE <<>>

\* insert: a known document and an empty text are refused; a text without
\* tokens succeeds and leaves no trace.
TextInsert(x, d, text) ==
  LET tokens == tokenizeWithDuplicates(text)
      Entry(term) == [docId |-> d, tf |-> Occurrences(term, tokens)]
      index == [term \in DOMAIN x.index \cup Range(tokens) |->
                  IF term \notin Range(tokens) THEN x.index[term]
                  ELSE [postings |-> Append(Postings(x, term), Entry(term)),
                        df |-> Len(Postings(x, term)) + 1]]
  IN IF text = <<>> \/ d \in DOMAIN x.docLengths THEN [x EXCEPT !.ok = FALSE]
     ELSE IF tokens = <<>> THEN [x EXCEPT !.ok = TRUE]
     ELSE [index |-> index, docLengths |-> With(x.docLengths, d, Len(tokens)),
           totalDocuments |-> x.totalDocuments + 1, ok |-> TRUE]

\* Mutant: a posting list that has become empty keeps its document.
TextRemove_KeepLast(x, d) ==
  LET Rest(l) == IF Len(l.postings) = 1 THEN l
                 ELSE [postings |-> SelectSeq(l.postings, LAMBDA e : e.docId # d),
                       df |-> Cardinality({i \in DOMAIN l.postings : l.postings[i].docId # d})]
  IN IF d \notin DOMAIN x.docLengths THEN [x EXCEPT !.ok = FALSE]
     ELSE [index |-> [term \in DOMAIN x.index |-> Rest(x.index[term])],
           docLengths |-> Without(x.docLengths, d),
           totalDocuments |-> x.totalDocuments - 1, ok |-> TRUE]

\* The first posting of a document is removed from a list.
WithoutDocument(l, d) ==
  LET at == {i \in DOMAIN l.postings : l.postings[i].docId = d}
      before == SubSeq(l.postings, 1, Min(at) - 1)
      behind == SubSeq(l.postings, Min(at) + 1, Len(l.postings))
  IN IF at = {} THEN l ELSE [postings |-> before \o behind, df |-> l.df - 1]

\* remove: the document leaves every posting list, and a list without postings
\* leaves the index.
TextRemove(x, d) ==
  LET index == [term \in DOMAIN x.index |-> WithoutDocument(x.index[term], d)]
  IN IF d \notin DOMAIN x.docLengths THEN [x EXCEPT !.ok = FALSE]
     ELSE [index |-> [term \in {u \in DOMAIN index : index[u].postings # <<>>} |-> index[term]],
           docLengths |-> Without(x.docLengths, d),
           totalDocuments |-> x.totalDocuments - 1, ok |-> TRUE]

\* The result set searchAnd and searchOr make of one term.
Hits(x, term) == {e.docId : e \in Range(Postings(x, term))}

\* searchOr (mergeResults) skips unknown terms.  search is searchOr on the tokens
\* of a text.
SearchOr(x, terms) == UNION {Hits(x, term) : term \in terms}

\* Mutant: an unknown term is skipped.
SearchAnd_SkipUnknown(x, terms) ==
  {d \in SearchOr(x, terms) : \A term \in terms \cap DOMAIN x.index : d \in Hits(x, term)}

\* searchAnd (intersectResults) is empty when a term is unknown.
SearchAnd(x, terms) ==
  IF terms = {} \/ \E term \in terms : term \notin DOMAIN x.index THEN {}
  ELSE {d \in SearchOr(x, terms) : \A term \in terms : d \in Hits(x, term)}

\* getDocumentFrequency and getDocumentTerms.
DocumentFrequency(x, term) == IF term \in DOMAIN x.index THEN x.index[term].df ELSE 0
DocumentTerms(x, d) ==
  LET terms == {term \in DOMAIN x.index : d \in Hits(x, term)}
      Tf(term) == LET l == x.index[term].postings
                  IN l[Min({i \in DOMAIN l : l[i].docId = d})].tf
  IN [term \in terms |-> Tf(term)]
=============================================================================
