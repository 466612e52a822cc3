------------------------------- MODULE Matcher -------------------------------
(***************************************************************************)
(* The matcher of watch rules: internal/match/match.go.  A text and a term *)
(* are the sequences of words that normalize leaves of them.  Whether a    *)
(* rule matches is modelled; the score and the reason it gives are not.    *)
(***************************************************************************)
EXTENDS Naturals, Sequences, FiniteSets

CONSTANTS
  Near,       \* <<actual, expected>>: one edit apart, expected of five letters or more
  NumberOf,   \* the value of a word that is a number
  (* what LooksLikeCompleteBike looks for, each a set of terms *)
  WholeBike, BikeIdentity, SpecSheet, SaleSignal,
  Families    \* a sequence of such sets, the frame's first

(* A term is [words, min, units]; min is 0 but for "num>=min:units". *)
IsMinimum(term) == term.min > 0

wordsAt(text, start, words) ==
  /\ start + Len(words) <= Len(text) + 1
  /\ \A k \in DOMAIN words : text[start + k - 1] = words[k]

Exactly(text, words) == words # <<>> /\ \E i \in DOMAIN text : wordsAt(text, i, words)

Nearly(text, words) ==
  words # <<>> /\ \E i \in DOMAIN text :
    /\ i + Len(words) <= Len(text) + 1
    /\ \A k \in DOMAIN words : text[i + k - 1] = words[k] \/ <<text[i + k - 1], words[k]>> \in Near

(* The number and its unit are adjacent. *)
numericMinimumMatches(text, term) ==
  \E i \in DOMAIN text :
    /\ text[i] \in DOMAIN NumberOf /\ NumberOf[text[i]] >= term.min
    /\ \E unit \in term.units : unit # <<>> /\ wordsAt(text, i + 1, unit)

termMatches(text, term) ==
  IF IsMinimum(term) THEN numericMinimumMatches(text, term) ELSE Nearly(text, term.words)
firstMatch(text, terms) == \E term \in terms : termMatches(text, term)
firstExactMatch(text, terms) ==
  \E term \in terms :
    IF IsMinimum(term) THEN numericMinimumMatches(text, term) ELSE Exactly(text, term.words)

containsAnyExact(text, phrases) == \E words \in phrases : Exactly(text, words)
LooksLikeCompleteBike(text, tagged) ==
  LET found == {i \in DOMAIN Families : containsAnyExact(text, Families[i])}
  IN  \/ tagged \/ containsAnyExact(text, WholeBike)
      \/ containsAnyExact(text, BikeIdentity) /\ Cardinality(found) >= 3
      \/ containsAnyExact(text, SpecSheet) /\ 1 \in found /\ Cardinality(found) >= 4
      \/ containsAnyExact(text, SaleSignal) /\ 1 \in found /\ Cardinality(found) >= 5

sourceAllowed(sources, peer) == sources = {} \/ peer \in sources

(* A rule [any, all, groups, exclude, bike, sources] on a message          *)
(* [words, tagged] of a peer.                                              *)
Evaluate(message, peer, rule) ==
  /\ message.words # <<>>
  /\ sourceAllowed(rule.sources, peer)
  /\ ~(rule.bike /\ LooksLikeCompleteBike(message.words, message.tagged))
  /\ ~firstExactMatch(message.words, rule.exclude)
  /\ \A term \in rule.all : termMatches(message.words, term)
  /\ \A group \in rule.groups : firstMatch(message.words, group)
  /\ rule.any = {} \/ firstMatch(message.words, rule.any)
===============================================================================
