---------------------------- MODULE MangaTitles ----------------------------
(* How manga_identity.go compares titles.  A title is a sequence of words, a
   word one of letters: what is left when case and punctuation are dropped. *)
EXTENDS Naturals, Sequences, SequencesExt, FiniteSets, FiniteSetsExt

CONSTANTS Titles,
          Expand,     \* Expand[x]: the shorter and joined forms of a title, itself first
          Decorated,  \* titles with "part", "volume", "season", ...
          NameBudget  \* queries that are made of a title: six in the code

TitlesAssumption ==
  /\ Expand \in [Titles -> Seq(Titles)] /\ NameBudget \in Nat \ {0}

Distinct(ts) == FoldLeft(LAMBDA kept, x : IF x \in ToSet(kept) THEN kept ELSE Append(kept, x),
                         <<>>, ts)
Capped(ts)   == SubSeq(ts, 1, IF Len(ts) < NameBudget THEN Len(ts) ELSE NameBudget)

\* buildAniListMangaSearchCandidates: the query and the names of an entry, expanded.
Candidates(names) == Distinct(FlattenSeq([k \in DOMAIN names |-> Expand[names[k]]]))

\* buildSourceSearchQueryVariants
Variants(q) == Capped(Distinct(<<q>> \o Expand[q]))

Letters(x) == FlattenSeq(x)
Tokens(x)  == SelectSeq(x, LAMBDA w : Len(w) >= 2)
Within(a, b) == \E k \in 0 .. Len(b) : k + Len(a) <= Len(b) /\ SubSeq(b, k + 1, k + Len(a)) = a
Starts(a, b) == IsPrefix(a, b) \/ IsPrefix(b, a)
Holds(a, b)  == Within(a, b) \/ Within(b, a)

\* How much of each other two titles hold, of 100; words are the needle's that
\* count.  A part with its spaces is one without them: the grades for that, 82
\* and 68, never decide.
Grade(title, needle, words) ==
  LET longer == Max({Len(words), Len(Tokens(title))})
      shared == Cardinality({k \in DOMAIN words : words[k] \in ToSet(Tokens(title))})
  IN  IF title = <<>> \/ needle = <<>> THEN 0
      ELSE IF title = needle THEN 100
      ELSE IF Letters(title) = Letters(needle) THEN 98
      ELSE IF Starts(Letters(title), Letters(needle)) THEN 86
      ELSE IF shared >= 3 /\ 2 * shared >= longer THEN 76
      ELSE IF Holds(Letters(title), Letters(needle)) THEN 74
      ELSE IF shared >= 2 /\ 5 * shared >= 2 * longer THEN 66
      ELSE 0

\* scoreMangaTitleAgainstNeedles
Score(title, needles) ==
  Max({0} \cup {Grade(title, needles[k], Tokens(needles[k])) : k \in DOMAIN needles})

\* bestMangaNeedleMatch: the first of the best.
BestNeedle(title, needles) ==
  needles[CHOOSE k \in DOMAIN needles :
            /\ Score(title, <<needles[k]>>) = Score(title, needles)
            /\ \A j \in 1 .. k - 1 : Score(title, <<needles[j]>>) < Score(title, needles)]

\* mangaTitleDecorationPenalty
Penalty(title, needles) ==
  (IF title \in Decorated THEN 8 ELSE 0)
  + (IF needles = <<>> THEN 0
     ELSE Max({0, Len(Tokens(title)) - Len(Tokens(BestNeedle(title, needles)))}))

\* scoreAniListMangaMatch: of the names of an entry, with a bonus for the year.
EntryScore(names, needles, sameYear) ==
  Max({0} \cup {Grade(names[k], needles[n], needles[n]) :
                  k \in DOMAIN names, n \in DOMAIN needles})
  + (IF sameYear THEN 6 ELSE 0)
BestName(names, needles) ==
  names[CHOOSE k \in DOMAIN names :
          /\ EntryScore(<<names[k]>>, needles, FALSE) = EntryScore(names, needles, FALSE)
          /\ \A j \in 1 .. k - 1 : EntryScore(<<names[j]>>, needles, FALSE)
                                   < EntryScore(names, needles, FALSE)]

\* cachedMangaSourceMapLooksPlausible: does the manga look like what it was matched to?
LooksLike(title, matched) ==
  /\ Expand[matched] # <<>> /\ Score(title, Expand[matched]) >= 66
  /\ Penalty(title, Expand[matched]) < 18 \/ Score(title, Expand[matched]) >= 82
=============================================================================
